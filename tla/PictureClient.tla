---------------------------- MODULE PictureClient ----------------------------
(***************************************************************************)
(* The decode path under a client that follows the order of calls libva    *)
(* asks for: a picture is begun, rendered, ended and then synchronised,    *)
(* one picture at a time, and a surface is not used again after a call on  *)
(* it failed.  On a device without requests it also synchronises them in   *)
(* the order they were decoded in.  This is how the decoders that use the  *)
(* driver behave; the driver itself checks none of it (Picture).           *)
(***************************************************************************)
EXTENDS Picture, FiniteSets

ASSUME ClientAssumption == IsFiniteSet(Surfaces)

\* No submission fails between the queueing of the destination buffer and that of
\* the request: the source buffer is taken (picture.cc:128), and so is the request
\* (picture.cc:138).  Where one is refused, the destination buffer stays with the
\* device without a bitstream, and every later picture is decoded to the buffer of
\* another surface: what is said below of pictures does not hold any more.
QueuedInPairs == Faults \cap {"qbufSrc", "queue"} = {}

Rendering == {s \in Surfaces : status[s] = "Rendering"}
Ended == {s \in Surfaces : call[s] = "ended"}

\* The next picture is begun when the one before was ended, or failed.
ClientBegin(s) ==
  /\ \A t \in Surfaces : call[t] # "open"
  /\ BeginPicture(s)

\* Every parameter buffer and a slice are given once, before the end.
ClientRender ==
  /\ \E s \in Surfaces : call[s] = "open"
  /\ \/ \E kind \in Kinds : kind \notin params[target] /\ RenderParameter(kind)
     \/ picOf[target] \notin source[target] /\ RenderSlice

ClientEnd(s) ==
  /\ call[s] = "open"
  /\ picOf[s] \in source[s] /\ params[s] = Kinds
  /\ EndPicture(s) \/ EndPictureCrash

\* A surface is synchronised once its picture was ended.
MayShow(s) ==
  /\ s \in Ended
  /\ ~media => \A t \in Ended : picOf[s] <= picOf[t]

ClientShow(s) ==
  /\ MayShow(s)
  /\ SyncSurface(s) \/ DeriveImage(s) \/ SyncSurfaceFail(s) \/ SyncCrash(s)

\* A surface that was shown is copied into an image.
ClientDerive(s) == status[s] = "Displaying" /\ DeriveImage(s)

ClientNext ==
  \/ \E s \in Surfaces : ClientBegin(s)
  \/ ClientRender
  \/ \E s \in Surfaces : ClientEnd(s)
  \/ WaitCompletion
  \/ WaitFail
  \/ Decode
  \/ \E s \in Surfaces : ClientShow(s)
  \/ \E s \in Surfaces : ClientDerive(s)

\* The device decodes what it is given, select() wakes vaEndPicture up, and the
\* client goes on with a picture it began until it is shown.
Fairness ==
  /\ WF_vars(Decode)
  /\ WF_vars(WaitCompletion)
  /\ WF_vars(ClientRender)
  /\ \A s \in Surfaces : WF_vars(ClientEnd(s)) /\ WF_vars(ClientShow(s))

ClientSpec == Init /\ [][ClientNext]_vars /\ Fairness

-----------------------------------------------------------------------------
(* Properties. *)

\* A surface that was given back to the client holds the picture it was begun
\* for and nothing else; one whose decode failed may hold nothing, but never a
\* part of another picture.  DQBUF hands out whichever buffer is done first, so
\* this rests on vaEndPicture waiting for its request, or on the client's order.
OwnPicture ==
  \A s \in Surfaces :
    status[s] # "Rendering" /\ picOf[s] # 0 =>
      content[s] \subseteq {picOf[s]} /\ (erred \/ content[s] # {})

\* A picture that was ended with success can be synchronised at once: both
\* queues have a good buffer to hand out, although another surface may have
\* taken this one's and requests may have timed out before.
EndedCanBeShown ==
  media /\ ~erred /\ Ended # {} => Good(srcDone) /\ Good(dstDone)

\* No call of a client that keeps to the order throws through the C interface
\* or follows a parameter that was not given, as long as there is a descriptor
\* for every surface: failed submissions never use the descriptors up.
NoCrash == ~crashed

\* Without requests there is nothing to time out, and vaSyncSurface does not wait.
\* No submission fails; a vaSyncSurface or vaDeriveImage fails only while no picture
\* is decoded at all, and takes no buffer, so that it can be repeated.
OnlyEarlySyncFails ==
  ~media /\ ~erred =>
    /\ \A s \in Surfaces : call[s] # "failed"
    /\ \/ Good(srcDone) /\ Good(dstDone)
       \/ srcDone = << >> /\ dstDone = << >>

\* The client sees a store of pictures.
Store == INSTANCE SurfaceStore WITH
  phase <- [s \in Surfaces |-> CASE status[s] = "Rendering"  -> "taken"
                                 [] status[s] = "Displaying" -> "shown"
                                 [] OTHER                    -> "idle"],
  asked <- picOf,
  shown <- [s \in Surfaces |-> IF status[s] = "Rendering" THEN {} ELSE content[s]],
  damaged <- erred
ImplementsStore == Store!StoreSpec

\* Every picture that is begun is shown and its surface given back, or the client
\* is told of a failure: no call and no other surface's failure keeps one forever.
\* A marked buffer breaks this, the buffers that are handed out next are not in
\* pairs any more.
EveryPictureShown ==
  \A s \in Surfaces :
    status[s] = "Rendering" ~> status[s] # "Rendering" \/ call[s] = "failed" \/ erred
=============================================================================

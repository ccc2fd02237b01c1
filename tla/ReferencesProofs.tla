--------------------------- MODULE ReferencesProofs ---------------------------
(***************************************************************************)
(* Theorems of References: for any number of surfaces and pictures, with   *)
(* failed submissions, timeouts and pictures that were marked.             *)
(***************************************************************************)
EXTENDS References, PictureClientProofs

-----------------------------------------------------------------------------
(* The inductive invariant, besides that of PictureClient. *)

StampTypeOK ==
  /\ now \in Nat
  /\ stamp \in [Surfaces -> 0 .. now]
  /\ sent \in [Surfaces -> 0 .. now]
  /\ mark \in [Surfaces -> (1 .. now) \cup {Unmarked}]

\* No two surfaces were stamped in one call.
StampsDiffer == \A s, t \in Surfaces : stamp[s] = stamp[t] /\ stamp[s] # NoStamp => s = t

\* A bitstream with the device was sent with the stamp its surface still has: a
\* surface is not ended again before its bitstream was decoded.
SentIsStamp ==
  \A i \in 1 .. Len(srcReady) :
    sent[srcReady[i].buf] = stamp[srcReady[i].buf] /\ sent[srcReady[i].buf] # NoStamp

\* A buffer has the stamp of its own surface, or one no surface has any more.
MarkIsOwn == \A s, t \in Surfaces : mark[s] = stamp[t] => s = t

\* With requests, the buffer of a picture that was ended has its stamp.
MarkedInTime ==
  media =>
    /\ \A r \in Referable : mark[r] = stamp[r]
    /\ Complete => mark[target] = stamp[target]

StampInv == StampTypeOK /\ StampsDiffer /\ SentIsStamp /\ MarkIsOwn /\ MarkedInTime

RefInv == Inv /\ StampInv

-----------------------------------------------------------------------------
(* The steps. *)

\* Stamps do not change what the client and the device do.
LEMMA RefIsClient == [RefNext]_allVars => [ClientNext]_vars
BY DEF RefNext, RefEnd, RefDecode, ClientNext, allVars

LEMMA StampInit == RefInit => StampInv
<1> SUFFICES ASSUME RefInit PROVE StampInv
  OBVIOUS
<1>1. now = 0 /\ srcReady = << >> /\ ~waiting /\ picOf = [s \in Surfaces |-> 0]
      /\ stamp = [s \in Surfaces |-> 0] /\ sent = [s \in Surfaces |-> 0]
      /\ mark = [s \in Surfaces |-> -1]
  BY DEF RefInit, Init, NoStamp, Unmarked
<1>2. StampTypeOK /\ StampsDiffer /\ MarkIsOwn
  BY <1>1 DEF StampTypeOK, StampsDiffer, MarkIsOwn, NoStamp, Unmarked
<1>3. SentIsStamp /\ MarkedInTime
  BY <1>1 DEF SentIsStamp, MarkedInTime, Referable, Complete
<1> QED BY <1>2, <1>3 DEF StampInv

\* A step that stamps and marks nothing makes no more pictures referable than the
\* completed one, and leaves the buffers with the device where they are.
LEMMA Unstamped ==
  ASSUME StampInv, UNCHANGED refVars, UNCHANGED media, Len(srcReady') = Len(srcReady),
         \A i \in 1 .. Len(srcReady) : srcReady'[i].buf = srcReady[i].buf,
         \A r \in Referable' : r \in Referable \/ (Complete /\ r = target),
         Complete' => Complete /\ UNCHANGED target
  PROVE  StampInv'
<1>1. UNCHANGED <<now, stamp, sent, mark>>
  BY DEF refVars
<1>2. (StampTypeOK /\ StampsDiffer /\ MarkIsOwn)'
  BY <1>1 DEF StampInv, StampTypeOK, StampsDiffer, MarkIsOwn
<1>3. SentIsStamp'
  BY <1>1 DEF StampInv, SentIsStamp
<1>4. MarkedInTime'
  BY <1>1 DEF StampInv, MarkedInTime
<1> QED BY <1>2, <1>3, <1>4 DEF StampInv

\* vaEndPicture: the stamp is newer than every mark.
LEMMA EndStep ==
  ASSUME RefInv, NEW s \in Surfaces, RefEnd(s)
  PROVE  StampInv'
<1>0. /\ Inv /\ StampInv /\ TypeOK /\ ClientInv /\ Len(srcReady) \in Nat
      /\ call \in [Surfaces -> {"none", "open", "failed", "ended"}]
  BY Entries DEF RefInv, Inv, RequestInv, TypeOK, HistoryTypeOK
<1>1. ClientEnd(s) /\ now' = now + 1 /\ stamp' = [stamp EXCEPT ![s] = now + 1] /\ UNCHANGED mark
      /\ sent' = [r \in Surfaces |-> IF ~InSrc(r) /\ InSrc(r)' THEN stamp'[r] ELSE sent[r]]
  BY DEF RefEnd, Stamp, Send
<1>2. call[s] = "open" /\ target = s /\ ~waiting
  BY <1>0, <1>1, EndCases
<1>3. ~WithDevice(s)
  BY <1>0, <1>2, OpenNotQueued
<1>4. /\ now \in Nat /\ \A t \in Surfaces : stamp[t] \in 0 .. now /\ sent[t] \in 0 .. now
      /\ \A t \in Surfaces : mark[t] \in (1 .. now) \cup {-1}
      /\ \A t \in Surfaces : stamp'[t] = IF t = s THEN now + 1 ELSE stamp[t]
      /\ \A t \in Surfaces : sent'[t] = stamp'[t] \/ sent'[t] = sent[t]
  BY <1>0, <1>1 DEF StampInv, StampTypeOK, Unmarked
<1>5. StampTypeOK'
  <2>1. /\ now' \in Nat
        /\ \A t \in Surfaces : stamp'[t] \in 0 .. now' /\ sent'[t] \in 0 .. now'
        /\ \A t \in Surfaces : mark'[t] \in (1 .. now') \cup {-1}
    BY <1>1, <1>4
  <2>2. /\ stamp' = [t \in Surfaces |-> stamp'[t]] /\ sent' = [t \in Surfaces |-> sent'[t]]
        /\ mark' = [t \in Surfaces |-> mark'[t]]
    BY <1>0, <1>1 DEF StampInv, StampTypeOK
  <2> QED BY <2>1, <2>2 DEF StampTypeOK, Unmarked
<1>6. StampsDiffer'
  BY <1>0, <1>4 DEF StampInv, StampsDiffer, NoStamp
<1>7. MarkIsOwn'
  BY <1>0, <1>1, <1>4 DEF StampInv, MarkIsOwn
<1>8. ASSUME NEW i \in 1 .. Len(srcReady)
      PROVE  sent'[srcReady[i].buf] = stamp'[srcReady[i].buf] /\ sent'[srcReady[i].buf] # NoStamp
  <2>1. srcReady[i].buf \in Surfaces \ {s} /\ InSrc(srcReady[i].buf)
    BY <1>0, <1>3, Entries DEF WithDevice, Bitstream, InSrc
  <2>2. sent[srcReady[i].buf] = stamp[srcReady[i].buf] /\ sent[srcReady[i].buf] # NoStamp
    BY <1>0 DEF StampInv, SentIsStamp
  <2> QED BY <1>1, <1>4, <2>1, <2>2
<1>9. ASSUME UNCHANGED srcReady PROVE SentIsStamp'
  BY <1>8, <1>9 DEF SentIsStamp
<1>10. ASSUME NEW fd \in Fds \cup {NoFd}, QueueBoth(s, fd) PROVE SentIsStamp'
  <2>1. /\ Len(srcReady') = Len(srcReady) + 1
        /\ \A i \in 1 .. Len(srcReady) : srcReady'[i] = srcReady[i]
        /\ srcReady'[Len(srcReady) + 1] = [buf |-> s, fd |-> fd, data |-> source[s]]
    BY <1>0, <1>10, QueueBothFacts
  <2>2. InSrc(s)'
    BY <1>0, <2>1 DEF InSrc
  <2>3. ~InSrc(s)
    BY <1>10 DEF QueueBoth
  <2>4. sent'[s] = now + 1 /\ stamp'[s] = now + 1
    BY <1>1, <1>4, <2>2, <2>3
  <2>5. ASSUME NEW i \in 1 .. Len(srcReady')
        PROVE  sent'[srcReady'[i].buf] = stamp'[srcReady'[i].buf] /\ sent'[srcReady'[i].buf] # NoStamp
    <3>1. CASE i \in 1 .. Len(srcReady)
      BY <1>8, <2>1, <3>1
    <3>2. CASE i = Len(srcReady) + 1
      BY <1>4, <2>1, <2>4, <3>2 DEF NoStamp
    <3> QED BY <1>0, <2>1, <2>5, <3>1, <3>2
  <2> QED BY <2>5 DEF SentIsStamp
<1>11. UNCHANGED media
  BY <1>1, MediaStays DEF ClientNext
<1>12. ASSUME media => ~Complete' /\ UNCHANGED picOf /\ \A r \in Surfaces : call'[r] \in {call[r], "failed"}
       PROVE  MarkedInTime'
  <2>1. SUFFICES ASSUME media PROVE (\A r \in Referable : mark[r] = stamp[r])'
    BY <1>11, <1>12 DEF MarkedInTime
  <2>2. \A r \in Referable' : r \in Referable /\ r # s
    BY <1>2, <1>12, <2>1 DEF Referable
  <2> QED BY <1>0, <1>1, <1>4, <2>1, <2>2 DEF StampInv, MarkedInTime, Referable
<1>13. CASE Failed(s) /\ UNCHANGED <<media, target, waiting, queueVars, pictures, picOf, erred>>
  <2>1. UNCHANGED srcReady /\ ~Complete'
    BY <1>2, <1>13 DEF queueVars, Complete
  <2>2. \A r \in Surfaces : call'[r] \in {call[r], "failed"}
    BY <1>0, <1>13 DEF Failed
  <2> QED BY <1>5, <1>6, <1>7, <1>9, <1>12, <1>13, <2>1, <2>2 DEF StampInv
<1>14. ASSUME NEW fd \in Fds, EndPictureSubmit(s, fd) PROVE StampInv'
  <2>1. ~Complete'
    BY <1>0, <1>2, <1>14
       DEF EndPictureSubmit, Complete, TypeOK, DriverTypeOK, KernelTypeOK
  <2>2. QueueBoth(s, fd) /\ UNCHANGED <<picOf, call>>
    BY <1>14 DEF EndPictureSubmit, history
  <2> QED BY <1>5, <1>6, <1>7, <1>10, <1>12, <2>1, <2>2 DEF StampInv
<1>15. CASE EndPictureQueued(s)
  <2>1. QueueBoth(s, NoFd)
    BY <1>15 DEF EndPictureQueued
  <2>2. ~media
    BY <1>15, FdPositive DEF EndPictureQueued, Ending, RequestFor
  <2> QED BY <1>5, <1>6, <1>7, <1>10, <1>12, <2>1, <2>2 DEF StampInv
<1>16. CASE EndPictureCrash
  <2>1. UNCHANGED <<srcReady, waiting, picOf, call>>
    BY <1>16 DEF EndPictureCrash, queueVars, history
  <2>2. ~Complete'
    BY <1>2, <2>1 DEF Complete
  <2> QED BY <1>5, <1>6, <1>7, <1>9, <1>12, <2>1, <2>2 DEF StampInv
<1> QED BY <1>0, <1>1, <1>13, <1>14, <1>15, <1>16, EndCases

\* The device copies the stamp to the buffer of the same surface: the queues are
\* in pairs.
LEMMA DecodeStep ==
  ASSUME RefInv, RefDecode
  PROVE  StampInv'
<1>0. /\ Inv /\ StampInv /\ TypeOK /\ ReadyPaired /\ RequestInFlight /\ Len(srcReady) \in Nat
  BY Entries DEF RefInv, Inv, RequestInv, PairInv
<1>1. Decode /\ mark' = [mark EXCEPT ![Head(dstReady)] = sent[Head(srcReady).buf]]
      /\ UNCHANGED <<now, stamp, sent>>
  BY DEF RefDecode
<1>2. PICK b \in Surfaces :
        /\ 1 \in 1 .. Len(srcReady) /\ b = srcReady[1].buf
        /\ Len(srcReady') = Len(srcReady) - 1
        /\ \A i \in 1 .. Len(srcReady) - 1 : srcReady'[i] = srcReady[i + 1]
        /\ \A fd \in Fds : reqState'[fd] = IF fd = srcReady[1].fd THEN "complete" ELSE reqState[fd]
        /\ UNCHANGED <<driverVars, picOf, call>>
  BY <1>0, <1>1, DecodeFacts
<1>3. Head(dstReady) = b /\ Head(srcReady).buf = b
  <2>1. srcReady # << >> /\ dstReady # << >> /\ srcReady \in Seq(Bitstream) /\ dstReady \in Seq(Surfaces)
    BY <1>0, <1>1 DEF Decode, TypeOK, KernelTypeOK
  <2>2. Head(srcReady) = srcReady[1] /\ Head(dstReady) = dstReady[1]
    BY <2>1, HeadTailProperties
  <2> QED BY <1>0, <1>2, <2>2 DEF ReadyPaired
<1>4. sent[b] = stamp[b] /\ stamp[b] # 0
  BY <1>0, <1>2 DEF StampInv, SentIsStamp, NoStamp
<1>5. \A t \in Surfaces : mark'[t] = IF t = b THEN stamp[b] ELSE mark[t]
  BY <1>0, <1>1, <1>3, <1>4 DEF StampInv, StampTypeOK
<1>6. StampTypeOK'
  <2>1. mark' = [mark EXCEPT ![b] = stamp[b]]
    BY <1>1, <1>3, <1>4
  <2>2. now \in Nat /\ stamp[b] \in 0 .. now
    BY <1>0 DEF StampInv, StampTypeOK
  <2>3. stamp[b] \in 1 .. now
    BY <1>4, <2>2
  <2> QED BY <1>0, <1>1, <2>1, <2>3 DEF StampInv, StampTypeOK
<1>7. StampsDiffer'
  BY <1>0, <1>1 DEF StampInv, StampsDiffer
<1>8. SentIsStamp'
  <2>1. \A i \in 1 .. Len(srcReady') : i + 1 \in 1 .. Len(srcReady) /\ srcReady'[i] = srcReady[i + 1]
    BY <1>0, <1>2
  <2> QED BY <1>0, <1>1, <2>1 DEF StampInv, SentIsStamp
<1>9. MarkIsOwn'
  BY <1>0, <1>1, <1>4, <1>5 DEF StampInv, MarkIsOwn, StampsDiffer, NoStamp
<1>10. MarkedInTime'
  <2>1. UNCHANGED <<media, waiting, target, request, Referable>>
    BY <1>2 DEF driverVars, Referable
  <2>2. ASSUME media PROVE \A r \in Referable : mark'[r] = stamp[r]
    BY <1>0, <1>5, <2>2 DEF StampInv, MarkedInTime, Referable
  <2>3. ASSUME media, Complete' PROVE mark'[target] = stamp[target]
    <3>1. waiting /\ target \in Surfaces /\ request[target] \in Fds
          /\ reqState'[request[target]] = "complete"
      BY <1>0, <2>1, <2>3
         DEF Complete, RequestInFlight, WaitsForOwn, TypeOK, DriverTypeOK
    <3>2. CASE reqState[request[target]] = "complete"
      BY <1>0, <1>5, <2>3, <3>1, <3>2 DEF Complete, StampInv, MarkedInTime
    <3>3. CASE reqState[request[target]] # "complete"
      <4>1. srcReady[1].fd = request[target] /\ request[target] # NoFd
        BY <1>2, <3>1, <3>3, FdPositive
      <4>2. b = target
        BY <1>0, <1>2, <4>1 DEF RequestInFlight, EntryIsTarget
      <4> QED BY <1>5, <4>2
    <3> QED BY <3>2, <3>3
  <2> QED BY <1>1, <2>1, <2>2, <2>3 DEF MarkedInTime
<1> QED BY <1>6, <1>7, <1>8, <1>9, <1>10 DEF StampInv

\* No step gives a surface a stamp or a mark of another's.
LEMMA StampStep == RefInv /\ [RefNext]_allVars => StampInv'
<1> SUFFICES ASSUME RefInv, [RefNext]_allVars PROVE StampInv'
  OBVIOUS
<1>0. /\ Inv /\ StampInv /\ TypeOK /\ ClientInv /\ RequestInFlight /\ Len(srcReady) \in Nat
      /\ call \in [Surfaces -> {"none", "open", "failed", "ended"}]
      /\ picOf \in [Surfaces -> Marks]
  BY Entries DEF RefInv, Inv, RequestInv, TypeOK, HistoryTypeOK
<1>a. ASSUME UNCHANGED refVars, UNCHANGED <<media, srcReady, picOf, call>>,
             ~waiting' \/ UNCHANGED <<waiting, target, request, reqState>>
      PROVE  StampInv'
  <2>1. Referable' = Referable /\ (Complete' => Complete /\ UNCHANGED target)
    BY <1>a DEF Referable, Complete
  <2> QED BY <1>0, <1>a, <2>1, Unstamped
<1>1. ASSUME NEW s \in Surfaces, ClientBegin(s), UNCHANGED refVars PROVE StampInv'
  <2>1. /\ ~waiting' /\ call' = [call EXCEPT ![s] = "open"]
        /\ picOf' = [picOf EXCEPT ![s] = pictures + 1] /\ UNCHANGED <<media, srcReady>>
    BY <1>1 DEF ClientBegin, BeginPicture, queueVars
  <2>2. \A r \in Referable' : r \in Referable
    BY <1>0, <2>1 DEF Referable
  <2>3. ~Complete'
    BY <2>1 DEF Complete
  <2> QED BY <1>0, <1>1, <2>1, <2>2, <2>3, Unstamped
<1>2. CASE ClientRender /\ UNCHANGED refVars
  <2>1. PICK s \in Surfaces : call[s] = "open"
    BY <1>2 DEF ClientRender
  <2>2. target = s /\ ~waiting
    BY <1>0, <1>2, <2>1 DEF ClientInv, OpenIsTarget, ClientRender, RenderParameter, RenderSlice
  <2>3. Written(target) = srcReady
    BY <1>0, <2>1, <2>2, OpenNotQueued, WrittenSame
  <2>4. UNCHANGED <<media, srcReady, picOf, call, waiting>>
    BY <1>2, <2>3 DEF ClientRender, RenderParameter, RenderSlice, queueVars, history
  <2> QED BY <1>a, <1>2, <2>2, <2>4
<1>3. ASSUME NEW s \in Surfaces, RefEnd(s) PROVE StampInv'
  BY <1>3, EndStep
<1>4. CASE WaitCompletion /\ UNCHANGED refVars
  <2>1. /\ Complete /\ ~waiting' /\ call' = [call EXCEPT ![target] = "ended"]
        /\ UNCHANGED <<media, srcReady, picOf>>
    BY <1>4 DEF WaitCompletion, FinishPicture, Complete, queueVars
  <2>2. \A r \in Referable' : r \in Referable \/ (Complete /\ r = target)
    BY <1>0, <2>1 DEF Referable
  <2>3. ~Complete'
    BY <2>1 DEF Complete
  <2> QED BY <1>0, <1>4, <2>1, <2>2, <2>3, Unstamped
<1>5. CASE WaitFail /\ UNCHANGED refVars
  <2>1. /\ srcReady' = Orphan(request[target]) /\ ~waiting'
        /\ call' = [call EXCEPT ![target] = "failed"] /\ UNCHANGED <<media, picOf>>
    BY <1>5 DEF WaitFail, Failed
  <2>2. \A r \in Referable' : r \in Referable
    BY <1>0, <2>1 DEF Referable
  <2>3. ~Complete'
    BY <2>1 DEF Complete
  <2>4. /\ Len(srcReady') = Len(srcReady)
        /\ \A i \in 1 .. Len(srcReady) : srcReady'[i].buf = srcReady[i].buf
    BY <1>0, <2>1, OrphanKeeps
  <2> QED BY <1>0, <1>5, <2>1, <2>2, <2>3, <2>4, Unstamped
<1>6. CASE RefDecode
  BY <1>6, DecodeStep
<1>7. ASSUME NEW s \in Surfaces, ClientShow(s), UNCHANGED refVars PROVE StampInv'
  <2>1. CASE SyncSurface(s) \/ DeriveImage(s)
    <3>1. /\ call' = [call EXCEPT ![s] = "none"]
          /\ UNCHANGED <<media, srcReady, picOf, waiting, target, request, reqState>>
      BY <2>1 DEF SyncSurface, DeriveImage
    <3>2. call[s] = "ended"
      BY <1>7 DEF ClientShow, MayShow, Ended
    <3>3. \A r \in Referable' : r \in Referable
      BY <1>0, <3>1, <3>2 DEF Referable
    <3>4. Complete' => Complete /\ UNCHANGED target
      BY <3>1 DEF Complete
    <3> QED BY <1>0, <1>7, <3>1, <3>3, <3>4, Unstamped
  <2>2. CASE SyncSurfaceFail(s) \/ SyncCrash(s)
    BY <1>a, <1>7, <2>2 DEF SyncSurfaceFail, SyncCrash, driverVars, queueVars, history
  <2> QED BY <1>7, <2>1, <2>2 DEF ClientShow
<1>8. ASSUME NEW s \in Surfaces, ClientDerive(s), UNCHANGED refVars PROVE StampInv'
  <2>1. call[s] = "none"
    BY <1>0, <1>8 DEF ClientDerive, ClientInv, CallStatus
  <2>2. /\ call' = [call EXCEPT ![s] = "none"]
        /\ UNCHANGED <<media, srcReady, picOf, waiting, target, request, reqState>>
    BY <1>8 DEF ClientDerive, DeriveImage
  <2>3. call' = call
    BY <1>0, <2>1, <2>2
  <2> QED BY <1>a, <1>8, <2>2, <2>3
<1>9. CASE UNCHANGED allVars
  BY <1>a, <1>9 DEF allVars, vars, driverVars, queueVars, history
<1> QED BY <1>1, <1>2, <1>3, <1>4, <1>5, <1>6, <1>7, <1>8, <1>9 DEF RefNext

-----------------------------------------------------------------------------
(* Theorems. *)

LEMMA RefInvariant == ASSUME QueuedInPairs PROVE RefSpec => []RefInv
<1>1. RefInit => RefInv
  BY InvInit, StampInit DEF RefInit, RefInv
<1>2. RefInv /\ [RefNext]_allVars => RefInv'
  BY InvStep, StampStep, RefIsClient DEF RefInv
<1> QED BY <1>1, <1>2, PTL DEF RefSpec

\* The device finds every picture that may be referred to, and its content, for any
\* number of surfaces and pictures, whatever timed out, was marked or was refused
\* before; not after a source buffer or a request was refused (QueuedInPairs).
THEOREM ReferencesLead ==
  ASSUME QueuedInPairs
  PROVE  RefSpec => []ReferencesFound
<1>0. RefSpec => []RefInv
  BY RefInvariant
<1>1. RefInv => ReferencesFound
  <2> SUFFICES ASSUME RefInv, media, NEW r \in Referable, NEW t \in Stamps(r, r)
               PROVE  Found(t) = {r} /\ (erred \/ content[r] = {picOf[r]})
    BY DEF ReferencesFound
  <2>0. StampInv /\ ClientInv /\ Decoded /\ r \in Surfaces
    BY DEF RefInv, Inv, PictureInv, Referable
  <2>1. t = stamp[r]
    BY <2>0 DEF Stamps, Mpeg2Reference, Vp8Reference, Vp9Reference, H264Reference,
                ClientInv, Buffers
  <2>2. \A b \in Surfaces : mark[b] = t <=> b = r
    BY <2>0, <2>1 DEF StampInv, MarkedInTime, MarkIsOwn
  <2>3. Found(t) = {r}
    <3>1. r <= r
      BY <2>0, PictureAssumption DEF PictureAssumption
    <3> QED BY <2>0, <2>2, <3>1 DEF Found
  <2>4. Right(r)
    BY <2>0 DEF Decoded, Referable
  <2> QED BY <2>3, <2>4 DEF Right
<1> QED BY <1>0, <1>1, PTL

\* A missing reference leads to no other picture.
THEOREM MissingLeadNowhere ==
  ASSUME QueuedInPairs
  PROVE  RefSpec => []MissingFindsNothing
<1>0. RefSpec => []RefInv
  BY RefInvariant
<1>1. RefInv => MissingFindsNothing
  <2> SUFFICES ASSUME RefInv, waiting, NEW t \in Stamps(target, Invalid),
                      NEW b \in Surfaces, mark[b] = t
               PROVE  b = target
    BY DEF MissingFindsNothing, Found
  <2>0. StampInv /\ ClientInv /\ RequestInFlight /\ TypeOK
    BY DEF RefInv, Inv, RequestInv
  <2>1. target \in Surfaces
    BY <2>0 DEF RequestInFlight, WaitsForOwn, ClientInv, Buffers
  <2>2. Invalid \notin live
    BY <2>0, PictureAssumption DEF ClientInv, Buffers, PictureAssumption, Invalid
  <2>3. t = stamp[target] \/ t = 0
    BY <2>2 DEF Stamps, Mpeg2Reference, Vp8Reference, Vp9Reference, H264Reference
  <2>4. mark[b] # 0
    BY <2>0 DEF StampInv, StampTypeOK, Unmarked
  <2> QED BY <2>0, <2>1, <2>3, <2>4 DEF StampInv, MarkIsOwn
<1> QED BY <1>0, <1>1, PTL
=============================================================================

---------------------------- MODULE PictureProofs ----------------------------
(***************************************************************************)
(* Theorems of Picture: for any surfaces, descriptors, parameter kinds,    *)
(* failures and number of pictures, with and without a media node.         *)
(***************************************************************************)
EXTENDS Picture, TLAPS, SequenceTheorems

-----------------------------------------------------------------------------
(* Lemmas on the queues. *)

\* A function from an initial segment of the naturals is a sequence.
LEMMA MapSeq ==
  ASSUME NEW S, NEW n \in Nat, NEW f \in [1 .. n -> S]
  PROVE  f \in Seq(S) /\ Len(f) = n
OBVIOUS

\* Orphan changes nothing but the request of the entries.
LEMMA OrphanSeq ==
  ASSUME srcReady \in Seq(Bitstream), NEW fd
  PROVE  /\ Orphan(fd) \in Seq(Bitstream)
         /\ Len(Orphan(fd)) = Len(srcReady)
         /\ \A i \in 1 .. Len(srcReady) :
              Orphan(fd)[i].fd = IF srcReady[i].fd = fd THEN NoFd ELSE srcReady[i].fd
<1>1. \A i \in 1 .. Len(srcReady) : srcReady[i] \in Bitstream
  BY ElementOfSeq
<1>2. \A i \in 1 .. Len(srcReady) : [srcReady[i] EXCEPT !.fd = NoFd] \in Bitstream
  BY <1>1 DEF Bitstream
<1>3. Orphan(fd) \in [1 .. Len(srcReady) -> Bitstream]
  BY <1>1, <1>2 DEF Orphan
<1>4. Len(srcReady) \in Nat
  OBVIOUS
<1>5. \A i \in 1 .. Len(srcReady) :
         Orphan(fd)[i].fd = IF srcReady[i].fd = fd THEN NoFd ELSE srcReady[i].fd
  BY <1>1 DEF Orphan, Bitstream
<1> QED BY <1>3, <1>4, <1>5, MapSeq

\* Written changes nothing but the data of the entries.
LEMMA WrittenSeq ==
  ASSUME srcReady \in Seq(Bitstream), NEW s, picOf[s] \in Marks
  PROVE  /\ Written(s) \in Seq(Bitstream)
         /\ Len(Written(s)) = Len(srcReady)
         /\ \A i \in 1 .. Len(srcReady) :
              Written(s)[i].fd = srcReady[i].fd /\ Written(s)[i].buf = srcReady[i].buf
<1>1. \A i \in 1 .. Len(srcReady) : srcReady[i] \in Bitstream
  BY ElementOfSeq
<1>2. \A i \in 1 .. Len(srcReady) :
        [srcReady[i] EXCEPT !.data = @ \cup {picOf[s]}] \in Bitstream
  BY <1>1 DEF Bitstream
<1>3. Written(s) \in [1 .. Len(srcReady) -> Bitstream]
  BY <1>1, <1>2 DEF Written
<1>4. Len(srcReady) \in Nat
  OBVIOUS
<1>5. \A i \in 1 .. Len(srcReady) :
        Written(s)[i].fd = srcReady[i].fd /\ Written(s)[i].buf = srcReady[i].buf
  BY <1>1 DEF Written, Bitstream
<1> QED BY <1>3, <1>4, <1>5, MapSeq

-----------------------------------------------------------------------------
(* The type invariant. *)

\* A context that was just created satisfies the type invariant.
LEMMA TypeInit == Init => TypeOK
<1> SUFFICES ASSUME Init PROVE TypeOK
  OBVIOUS
<1>1. DriverTypeOK
  BY DEF Init, DriverTypeOK, Marks, NoFd, Invalid
<1>2. KernelTypeOK
  BY DEF Init, KernelTypeOK, Marks, RequestState
<1>3. HistoryTypeOK
  <2>1. 0 \in Marks
    BY PictureAssumption DEF PictureAssumption, Marks
  <2>2. erred \in BOOLEAN
    BY DEF Init
  <2> QED BY <2>1, <2>2 DEF Init, HistoryTypeOK
<1> QED BY <1>1, <1>2, <1>3 DEF TypeOK

\* No call changes the driver's variables to anything outside their domains.
LEMMA DriverTypeStep == TypeOK /\ [Next]_vars => DriverTypeOK'
<1> SUFFICES ASSUME TypeOK, [Next]_vars PROVE DriverTypeOK'
  OBVIOUS
<1> USE DEF TypeOK, DriverTypeOK
<1>1. ASSUME NEW s \in Surfaces, BeginPicture(s) PROVE DriverTypeOK'
  BY <1>1 DEF BeginPicture
<1>2. CASE RenderCrash
  BY <1>2 DEF RenderCrash
<1>3. ASSUME NEW k \in Kinds, RenderParameter(k) PROVE DriverTypeOK'
  BY <1>3 DEF RenderParameter
<1>4. CASE RenderSlice
  BY <1>4 DEF RenderSlice, HistoryTypeOK
<1>5. CASE RenderSliceRefused
  BY <1>5 DEF RenderSliceRefused, HistoryTypeOK
<1>6. CASE EndPictureCrash
  BY <1>6 DEF EndPictureCrash
<1>7. ASSUME NEW s \in Surfaces, EndPicture(s) PROVE DriverTypeOK'
  <2>1. ASSUME NEW fd \in Fds \cup {NoFd},
               \/ EndPictureControlsFail(s, fd) \/ EndPictureDstFail(s, fd)
               \/ EndPictureSrcFail(s, fd)
        PROVE  DriverTypeOK'
    BY <2>1 DEF EndPictureControlsFail, EndPictureDstFail, EndPictureSrcFail, KeepRequest
  <2>2. ASSUME NEW fd \in Fds \cup {NoFd}, EndPictureRequestFail(s, fd)
        PROVE  DriverTypeOK'
    BY <2>2 DEF EndPictureRequestFail, CloseRequest
  <2>3. ASSUME NEW fd \in Fds \cup {NoFd}, EndPictureSubmit(s, fd)
        PROVE  DriverTypeOK'
    BY <2>3 DEF EndPictureSubmit
  <2>4. CASE EndPictureQueued(s)
    BY <2>4 DEF EndPictureQueued, FinishPicture
  <2> QED BY <1>7, <2>1, <2>2, <2>3, <2>4 DEF EndPicture
<1>8. CASE WaitCompletion
  BY <1>8 DEF WaitCompletion, FinishPicture
<1>9. CASE WaitFail
  BY <1>9 DEF WaitFail, CloseRequest
<1>10. CASE Decode
  BY <1>10 DEF Decode, driverVars
<1>11. ASSUME NEW s \in Surfaces, SyncCrash(s) PROVE DriverTypeOK'
  BY <1>11 DEF SyncCrash
<1>12. ASSUME NEW s \in Surfaces, SyncSurfaceFail(s) PROVE DriverTypeOK'
  BY <1>12 DEF SyncSurfaceFail, driverVars
<1>13. ASSUME NEW s \in Surfaces, SyncSurface(s) \/ DeriveImage(s) PROVE DriverTypeOK'
  BY <1>13 DEF SyncSurface, DeriveImage
<1>14. ASSUME NEW s \in Surfaces, DestroySurface(s) PROVE DriverTypeOK'
  BY <1>14 DEF DestroySurface, CloseRequest
<1>15. ASSUME NEW s \in Surfaces, CreateSurface(s) PROVE DriverTypeOK'
  BY <1>15 DEF CreateSurface
<1>16. CASE UNCHANGED vars
  BY <1>16 DEF vars, driverVars
<1> QED
  BY <1>1, <1>2, <1>3, <1>4, <1>5, <1>6, <1>7, <1>8, <1>9, <1>10, <1>11, <1>12,
     <1>13, <1>14, <1>15, <1>16 DEF Next

\* No call and no step of the device does so for the buffer queues.
LEMMA KernelTypeStep == TypeOK /\ [Next]_vars => KernelTypeOK'
<1> SUFFICES ASSUME TypeOK, [Next]_vars PROVE KernelTypeOK'
  OBVIOUS
<1> USE DEF TypeOK, KernelTypeOK
<1>1. ASSUME NEW s \in Surfaces, BeginPicture(s) PROVE KernelTypeOK'
  BY <1>1 DEF BeginPicture, queueVars
<1>2. CASE RenderCrash
  BY <1>2 DEF RenderCrash, queueVars
<1>3. ASSUME NEW k \in Kinds, RenderParameter(k) PROVE KernelTypeOK'
  BY <1>3 DEF RenderParameter, queueVars
<1>4. CASE RenderSlice
  <2>1. picOf[target] \in Marks
    BY <1>4 DEF RenderSlice, DriverTypeOK, HistoryTypeOK
  <2>2. Written(target) \in Seq(Bitstream)
    BY <2>1, WrittenSeq
  <2> QED BY <1>4, <2>2 DEF RenderSlice
<1>5. CASE RenderSliceRefused
  <2>1. picOf[target] \in Marks
    BY <1>5 DEF RenderSliceRefused, DriverTypeOK, HistoryTypeOK
  <2>2. Written(target) \in Seq(Bitstream)
    BY <2>1, WrittenSeq
  <2> QED BY <1>5, <2>2 DEF RenderSliceRefused
<1>6. CASE EndPictureCrash
  BY <1>6 DEF EndPictureCrash, queueVars
<1>7. ASSUME NEW s \in Surfaces, EndPicture(s) PROVE KernelTypeOK'
  <2>1. ASSUME NEW fd \in Fds \cup {NoFd},
               \/ EndPictureControlsFail(s, fd) \/ EndPictureDstFail(s, fd)
        PROVE  KernelTypeOK'
    BY <2>1 DEF EndPictureControlsFail, EndPictureDstFail, KeepRequest, RequestState, queueVars
  <2>2. ASSUME NEW fd \in Fds \cup {NoFd},
               \/ EndPictureSrcFail(s, fd) \/ EndPictureRequestFail(s, fd)
        PROVE  KernelTypeOK'
    <3>1. reqState' \in [Fds -> RequestState]
      BY <2>2 DEF EndPictureSrcFail, EndPictureRequestFail, KeepRequest, CloseRequest, RequestState
    <3>2. Append(dstReady, s) \in Seq(Surfaces)
      OBVIOUS
    <3> QED BY <2>2, <3>1, <3>2 DEF EndPictureSrcFail, EndPictureRequestFail
  <2>3. ASSUME NEW fd \in Fds \cup {NoFd}, QueueBoth(s, fd)
        PROVE  srcReady' \in Seq(Bitstream) /\ dstReady' \in Seq(Surfaces)
    <3>1. [buf |-> s, fd |-> fd, data |-> source[s]] \in Bitstream
      BY DEF DriverTypeOK, Bitstream
    <3> QED BY <2>3, <3>1 DEF QueueBoth
  <2>4. ASSUME NEW fd \in Fds \cup {NoFd}, EndPictureSubmit(s, fd)
        PROVE  KernelTypeOK'
    BY <2>3, <2>4 DEF EndPictureSubmit, RequestState
  <2>5. CASE EndPictureQueued(s)
    BY <2>3, <2>5 DEF EndPictureQueued
  <2> QED BY <1>7, <2>1, <2>2, <2>4, <2>5 DEF EndPicture
<1>8. CASE WaitCompletion
  BY <1>8 DEF WaitCompletion, RequestState, queueVars
<1>9. CASE WaitFail
  BY <1>9, OrphanSeq DEF WaitFail, CloseRequest, RequestState
<1>10. CASE Decode
  <2>1. Head(srcReady) \in Bitstream /\ Tail(srcReady) \in Seq(Bitstream)
    BY <1>10, HeadTailProperties DEF Decode
  <2>2. Head(dstReady) \in Surfaces /\ Tail(dstReady) \in Seq(Surfaces)
    BY <1>10, HeadTailProperties DEF Decode
  <2>3. PICK err \in BOOLEAN :
          /\ srcDone' = Append(srcDone, [buf |-> Head(srcReady).buf, err |-> err])
          /\ dstDone' = Append(dstDone, [buf |-> Head(dstReady), err |-> err])
          /\ content' = [content EXCEPT ![Head(dstReady)] =
                          IF err THEN {} ELSE Head(srcReady).data]
          /\ reqState' = [r \in Fds |-> IF r = Head(srcReady).fd THEN "complete"
                                                             ELSE reqState[r]]
    BY <1>10 DEF Decode
  <2>4. /\ [buf |-> Head(srcReady).buf, err |-> err] \in Done
        /\ [buf |-> Head(dstReady), err |-> err] \in Done
    BY <2>1, <2>2 DEF Bitstream, Done
  <2>5. srcDone' \in Seq(Done) /\ dstDone' \in Seq(Done)
    BY <2>3, <2>4
  <2>6. content' \in [Surfaces -> SUBSET Marks]
    BY <2>1, <2>3 DEF Bitstream
  <2>7. reqState' \in [Fds -> RequestState]
    BY <2>3 DEF RequestState
  <2> QED BY <1>10, <2>1, <2>2, <2>5, <2>6, <2>7 DEF Decode
<1>11. ASSUME NEW s \in Surfaces, SyncCrash(s) PROVE KernelTypeOK'
  BY <1>11 DEF SyncCrash, queueVars
<1>12. ASSUME NEW s \in Surfaces, SyncSurfaceFail(s) PROVE KernelTypeOK'
  BY <1>12, HeadTailProperties
     DEF SyncSurfaceFail, DequeueSrcFail, DequeueDstFail, Good
<1>13. ASSUME NEW s \in Surfaces, SyncSurface(s) \/ DeriveImage(s) PROVE KernelTypeOK'
  <2>1. \/ UNCHANGED <<srcDone, dstDone>>
        \/ /\ srcDone # << >> /\ srcDone' = Tail(srcDone)
           /\ dstDone # << >> /\ dstDone' = Tail(dstDone)
    BY <1>13 DEF SyncSurface, DeriveImage, DequeueBoth, Good
  <2>2. srcDone' \in Seq(Done) /\ dstDone' \in Seq(Done)
    BY <2>1, HeadTailProperties
  <2>3. UNCHANGED <<reqState, srcReady, dstReady, content>>
    BY <1>13 DEF SyncSurface, DeriveImage
  <2> QED BY <2>2, <2>3
<1>14. ASSUME NEW s \in Surfaces, DestroySurface(s) PROVE KernelTypeOK'
  BY <1>14 DEF DestroySurface, CloseRequest, RequestState, queueVars
<1>15. ASSUME NEW s \in Surfaces, CreateSurface(s) PROVE KernelTypeOK'
  BY <1>15 DEF CreateSurface, queueVars
<1>16. CASE UNCHANGED vars
  BY <1>16 DEF vars, queueVars
<1> QED
  BY <1>1, <1>2, <1>3, <1>4, <1>5, <1>6, <1>7, <1>8, <1>9, <1>10, <1>11, <1>12,
     <1>13, <1>14, <1>15, <1>16 DEF Next

\* No step does so for the history variables; pictures are bounded.
LEMMA HistoryTypeStep == TypeOK /\ [Next]_vars => HistoryTypeOK'
<1> SUFFICES ASSUME TypeOK, [Next]_vars PROVE HistoryTypeOK'
  OBVIOUS
<1> USE DEF TypeOK, HistoryTypeOK, history
<1>1. ASSUME NEW s \in Surfaces, BeginPicture(s) PROVE HistoryTypeOK'
  BY <1>1, PictureAssumption DEF BeginPicture, PictureAssumption, Marks
<1>2. CASE RenderCrash \/ RenderSlice \/ RenderSliceRefused \/ EndPictureCrash
  BY <1>2 DEF RenderCrash, RenderSlice, RenderSliceRefused, EndPictureCrash
<1>3. ASSUME NEW k \in Kinds, RenderParameter(k) PROVE HistoryTypeOK'
  BY <1>3 DEF RenderParameter
<1>4. ASSUME NEW s \in Surfaces, EndPicture(s) PROVE HistoryTypeOK'
  BY <1>4 DEF EndPicture,
              EndPictureControlsFail, EndPictureDstFail, EndPictureSrcFail,
              EndPictureRequestFail, EndPictureSubmit, EndPictureQueued, Failed, FinishPicture
<1>5. CASE WaitCompletion
  BY <1>5 DEF WaitCompletion, FinishPicture
<1>6. CASE WaitFail
  BY <1>6 DEF WaitFail, Failed
<1>7. CASE Decode
  BY <1>7 DEF Decode
<1>8. ASSUME NEW s \in Surfaces, SyncCrash(s) \/ SyncSurfaceFail(s) \/ CreateSurface(s)
      PROVE  HistoryTypeOK'
  BY <1>8 DEF SyncCrash, SyncSurfaceFail, CreateSurface
<1>9. ASSUME NEW s \in Surfaces, SyncSurface(s) \/ DeriveImage(s) \/ DestroySurface(s)
      PROVE  HistoryTypeOK'
  BY <1>9 DEF SyncSurface, DeriveImage, DestroySurface
<1>10. CASE UNCHANGED vars
  BY <1>10 DEF vars
<1> QED
  BY <1>1, <1>2, <1>3, <1>4, <1>5, <1>6, <1>7, <1>8, <1>9, <1>10 DEF Next

\* Whatever the client calls and whichever ioctls fail, the variables stay in
\* their domains and only live surfaces refer to buffers.
THEOREM TypeCorrect == Spec => []TypeOK
<1>1. TypeOK /\ [Next]_vars => TypeOK'
  BY DriverTypeStep, KernelTypeStep, HistoryTypeStep DEF TypeOK
<1> QED BY TypeInit, <1>1, PTL DEF Spec

-----------------------------------------------------------------------------
(* Requests.  Neither RequestsOwned nor RequestInFlight is inductive alone: *)
(* a completion must not reopen a closed descriptor, which needs that the   *)
(* entry completed belongs to the picture waited for; and that an idle or   *)
(* closed request is in no entry needs that vaEndPicture is not waiting.    *)

RequestInv == TypeOK /\ RequestsOwned /\ RequestInFlight

\* No descriptor is taken for the absence of one, or for descriptor 0.
LEMMA FdPositive == \A fd \in Fds : fd > 0 /\ fd # NoFd
BY PictureAssumption DEF PictureAssumption, NoFd

\* No request is open when the context was created.
LEMMA RequestInit == Init => RequestsOwned /\ RequestInFlight
BY PictureAssumption
   DEF Init, RequestsOwned, RequestInFlight, PictureAssumption, NoFd,
       WaitsForOwn, HeldWhileWaiting, EntryIsTarget, OneEntry, EntryUntilComplete

\* What the invariants do not mention may change.
LEMMA RequestFrame ==
  ASSUME RequestInv, UNCHANGED <<live, request, reqState, target, waiting, srcReady>>
  PROVE  (RequestsOwned /\ RequestInFlight)'
BY DEF RequestInv, RequestsOwned, RequestInFlight,
       WaitsForOwn, HeldWhileWaiting, EntryIsTarget, OneEntry, EntryUntilComplete

\* vaEndPicture uses the surface's own request or a closed descriptor.
LEMMA EndingFacts ==
  ASSUME RequestInv, NEW s \in Surfaces, NEW fd \in Fds \cup {NoFd}, Ending(s, fd)
  PROVE  /\ ~waiting /\ target = s /\ s \in live
         /\ \A i \in 1 .. Len(srcReady) : srcReady[i].fd = NoFd
         /\ \A r \in Fds : reqState[r] \in {"closed", "idle"}
         /\ \/ fd = request[s]
            \/ request[s] = NoFd /\ fd \in Fds /\ reqState[fd] = "closed"
<1>1. ~waiting /\ target = s /\ s \in live
  BY DEF Ending
<1>2. \A i \in 1 .. Len(srcReady) : srcReady[i].fd = NoFd
  BY <1>1 DEF RequestInv, RequestInFlight, EntryIsTarget
<1>3. \A r \in Fds : reqState[r] \in {"closed", "idle"}
  BY <1>1 DEF RequestInv, TypeOK, KernelTypeOK, RequestInFlight, HeldWhileWaiting, RequestState
<1>4. fd = request[s] \/ (request[s] = NoFd /\ fd \in Fds /\ reqState[fd] = "closed")
  BY DEF Ending, RequestFor
<1> QED BY <1>1, <1>2, <1>3, <1>4

\* No step leaves an open request without a surface, or with two.
LEMMA RequestsOwnedStep == RequestInv /\ [Next]_vars => RequestsOwned'
<1> SUFFICES ASSUME RequestInv, [Next]_vars PROVE RequestsOwned'
  OBVIOUS
<1> USE DEF RequestInv, TypeOK, DriverTypeOK, KernelTypeOK, RequestState
<1> NoFd \notin Fds
  BY FdPositive
<1>1. ASSUME NEW s \in Surfaces, BeginPicture(s) PROVE RequestsOwned'
  BY <1>1 DEF BeginPicture, RequestsOwned
<1>2. CASE RenderCrash \/ EndPictureCrash
  BY <1>2, RequestFrame DEF RenderCrash, EndPictureCrash, queueVars
<1>3. ASSUME NEW k \in Kinds, RenderParameter(k) PROVE RequestsOwned'
  BY <1>3, RequestFrame DEF RenderParameter, queueVars
<1>4. CASE RenderSlice \/ RenderSliceRefused
  BY <1>4 DEF RenderSlice, RenderSliceRefused, RequestsOwned
<1>5. ASSUME NEW s \in Surfaces, EndPicture(s) PROVE RequestsOwned'
  <2>1. ASSUME NEW fd \in Fds \cup {NoFd}, Ending(s, fd), KeepRequest(s, fd), UNCHANGED live
        PROVE  RequestsOwned'
    BY <2>1, EndingFacts DEF KeepRequest, RequestsOwned
  <2>2. ASSUME NEW fd \in Fds \cup {NoFd}, EndPictureRequestFail(s, fd)
        PROVE  RequestsOwned'
    BY <2>2, EndingFacts DEF EndPictureRequestFail, CloseRequest, RequestsOwned
  <2>3. ASSUME NEW fd \in Fds \cup {NoFd}, EndPictureSubmit(s, fd) PROVE RequestsOwned'
    BY <2>3, EndingFacts DEF EndPictureSubmit, RequestsOwned
  <2>4. CASE EndPictureQueued(s)
    BY <2>4 DEF EndPictureQueued, RequestsOwned
  <2> QED BY <1>5, <2>1, <2>2, <2>3, <2>4
          DEF EndPicture,
              EndPictureControlsFail, EndPictureDstFail, EndPictureSrcFail
<1>6. CASE WaitCompletion
  BY <1>6 DEF WaitCompletion, RequestsOwned, RequestInFlight, WaitsForOwn
<1>7. CASE WaitFail
  BY <1>7 DEF WaitFail, CloseRequest, RequestsOwned, RequestInFlight, WaitsForOwn
<1>8. CASE Decode
  <2>1. Head(srcReady) = srcReady[1] /\ 1 \in 1 .. Len(srcReady)
    BY <1>8 DEF Decode
  <2>2. \A r \in Fds : Head(srcReady).fd = r => reqState[r] # "closed"
    BY <2>1 DEF RequestInFlight, HeldWhileWaiting, EntryIsTarget, WaitsForOwn
  <2>3. \A r \in Fds : reqState'[r] # "closed" <=> reqState[r] # "closed"
    BY <1>8, <2>2 DEF Decode
  <2> QED BY <1>8, <2>3 DEF Decode, driverVars, RequestsOwned
<1>9. ASSUME NEW s \in Surfaces,
             SyncCrash(s) \/ SyncSurfaceFail(s) \/ SyncSurface(s) \/ DeriveImage(s)
      PROVE  RequestsOwned'
  BY <1>9, RequestFrame
     DEF SyncCrash, SyncSurfaceFail, SyncSurface, DeriveImage, driverVars, queueVars
<1>10. ASSUME NEW s \in Surfaces, DestroySurface(s) PROVE RequestsOwned'
  <2>1. s \in live /\ live' = live \ {s}
    BY <1>10 DEF DestroySurface
  <2>2. CASE request[s] \in Fds
    <3>1. CloseRequest(s, request[s])
      BY <1>10, <2>2, FdPositive DEF DestroySurface
    <3> QED BY <2>1, <2>2, <3>1 DEF CloseRequest, RequestsOwned
  <2>3. CASE request[s] = NoFd
    <3>1. UNCHANGED <<request, reqState>>
      BY <1>10, <2>3 DEF DestroySurface, NoFd
    <3> QED BY <2>1, <2>3, <3>1 DEF RequestsOwned
  <2> QED BY <2>2, <2>3
<1>11. ASSUME NEW s \in Surfaces, CreateSurface(s) PROVE RequestsOwned'
  BY <1>11 DEF CreateSurface, RequestsOwned
<1>12. CASE UNCHANGED vars
  BY <1>12, RequestFrame DEF vars, driverVars, queueVars
<1> QED
  BY <1>1, <1>2, <1>3, <1>4, <1>5, <1>6, <1>7, <1>8, <1>9, <1>10, <1>11, <1>12 DEF Next

\* No step leaves a request with the device that nobody waits for.
LEMMA RequestInFlightStep == RequestInv /\ [Next]_vars => RequestInFlight'
<1> SUFFICES ASSUME RequestInv, [Next]_vars PROVE RequestInFlight'
  OBVIOUS
<1> USE DEF RequestInv, TypeOK, DriverTypeOK, KernelTypeOK, RequestState
<1> NoFd \notin Fds
  BY FdPositive
<1> DEFINE Entry(i) == srcReady[i].fd
<1>0. \A i \in 1 .. Len(srcReady) : Entry(i) \in Fds \cup {NoFd}
  <2>1. \A i \in 1 .. Len(srcReady) : srcReady[i] \in Bitstream
    BY ElementOfSeq
  <2> QED BY <2>1 DEF Bitstream
\* Steps that leave the requests and the entries of the queue alone.
<1>a. ASSUME UNCHANGED <<request, reqState, waiting>>, target' = target \/ ~waiting,
             waiting => target \in live', Len(srcReady') = Len(srcReady),
             \A i \in 1 .. Len(srcReady) :
               srcReady'[i].fd = srcReady[i].fd /\ srcReady'[i].buf = srcReady[i].buf
      PROVE  RequestInFlight'
  <2>1. WaitsForOwn' /\ HeldWhileWaiting'
    BY <1>a DEF RequestInFlight, WaitsForOwn, HeldWhileWaiting
  <2>2. EntryIsTarget' /\ OneEntry'
    BY <1>a DEF RequestInFlight, EntryIsTarget, OneEntry
  <2>3. EntryUntilComplete'
    BY <1>a DEF RequestInFlight, EntryUntilComplete
  <2> QED BY <2>1, <2>2, <2>3 DEF RequestInFlight
\* Steps of a driver that does not wait, neither before nor after.
<1>b. ASSUME ~waiting, ~waiting', Len(srcReady') \in Nat,
             \A i \in 1 .. Len(srcReady') : srcReady'[i].fd = NoFd,
             \A fd \in Fds : reqState'[fd] \in {"closed", "idle"}
      PROVE  RequestInFlight'
  BY <1>b DEF RequestInFlight, WaitsForOwn, HeldWhileWaiting, EntryIsTarget, OneEntry,
              EntryUntilComplete
<1>1. ASSUME NEW s \in Surfaces, BeginPicture(s) PROVE RequestInFlight'
  BY <1>1, <1>a DEF BeginPicture, queueVars
<1>2. CASE RenderCrash \/ EndPictureCrash
  BY <1>2, RequestFrame DEF RenderCrash, EndPictureCrash, queueVars
<1>3. ASSUME NEW k \in Kinds, RenderParameter(k) PROVE RequestInFlight'
  BY <1>3, RequestFrame DEF RenderParameter, queueVars
<1>4. CASE RenderSlice \/ RenderSliceRefused
  <2>1. target \in Surfaces /\ picOf[target] \in Marks
    BY <1>4 DEF RenderSlice, RenderSliceRefused, HistoryTypeOK
  <2>2. /\ Len(srcReady') = Len(srcReady)
        /\ \A i \in 1 .. Len(srcReady) :
             srcReady'[i].fd = srcReady[i].fd /\ srcReady'[i].buf = srcReady[i].buf
    BY <1>4, <2>1, WrittenSeq DEF RenderSlice, RenderSliceRefused
  <2>3. UNCHANGED <<live, request, reqState, waiting, target>>
    BY <1>4 DEF RenderSlice, RenderSliceRefused
  <2> QED BY <2>2, <2>3, <1>a DEF RequestInFlight, WaitsForOwn
<1>5. ASSUME NEW s \in Surfaces, EndPicture(s) PROVE RequestInFlight'
  <2>1. ASSUME NEW fd \in Fds \cup {NoFd}, Ending(s, fd), KeepRequest(s, fd),
               UNCHANGED <<waiting, srcReady>>
        PROVE  RequestInFlight'
    BY <1>b, <2>1, EndingFacts DEF KeepRequest
  <2>2. ASSUME NEW fd \in Fds \cup {NoFd}, EndPictureRequestFail(s, fd)
        PROVE  RequestInFlight'
    BY <1>b, <2>2, EndingFacts DEF EndPictureRequestFail, CloseRequest
  <2>3. ASSUME NEW fd \in Fds \cup {NoFd}, Ending(s, fd), QueueBoth(s, fd)
        PROVE  /\ Len(srcReady') = Len(srcReady) + 1
               /\ srcReady'[Len(srcReady')].fd = fd
               /\ srcReady'[Len(srcReady')].buf = s
               /\ \A i \in 1 .. Len(srcReady) : srcReady'[i].fd = NoFd
    BY <2>3, EndingFacts DEF QueueBoth
  <2>4. ASSUME NEW fd \in Fds \cup {NoFd}, EndPictureSubmit(s, fd) PROVE RequestInFlight'
    <3>1. fd \in Fds /\ Ending(s, fd) /\ QueueBoth(s, fd)
      BY <2>4 DEF EndPictureSubmit
    <3>2. target' = s /\ s \in live' /\ request'[s] = fd /\ waiting'
      BY <2>4, <3>1, EndingFacts DEF EndPictureSubmit
    <3>3. \A r \in Fds : reqState'[r] = IF r = fd THEN "queued" ELSE reqState[r]
      BY <2>4 DEF EndPictureSubmit
    <3>4. \A i \in 1 .. Len(srcReady') : srcReady'[i].fd # NoFd <=> i = Len(srcReady')
      BY <2>3, <3>1
    <3>5. WaitsForOwn' /\ HeldWhileWaiting'
      BY <3>1, <3>2, <3>3, EndingFacts DEF WaitsForOwn, HeldWhileWaiting
    <3>6. EntryIsTarget' /\ OneEntry'
      BY <2>3, <3>1, <3>2, <3>4 DEF EntryIsTarget, OneEntry
    <3>7. EntryUntilComplete'
      BY <2>3, <3>1, <3>2, <3>3, <3>4 DEF EntryUntilComplete
    <3> QED BY <3>5, <3>6, <3>7 DEF RequestInFlight
  <2>5. CASE EndPictureQueued(s)
    <3>1. Ending(s, NoFd) /\ QueueBoth(s, NoFd) /\ UNCHANGED <<reqState, waiting>>
      BY <2>5 DEF EndPictureQueued
    <3>2. \A i \in 1 .. Len(srcReady') : srcReady'[i].fd = NoFd
      BY <2>3, <3>1
    <3>3. Len(srcReady') \in Nat
      BY <2>3, <3>1
    <3> QED BY <1>b, <3>1, <3>2, <3>3, EndingFacts
  <2> QED BY <1>5, <2>1, <2>2, <2>4, <2>5
          DEF EndPicture,
              EndPictureControlsFail, EndPictureDstFail, EndPictureSrcFail,
              queueVars
<1>6. CASE WaitCompletion
  <2>1. waiting /\ reqState[request[target]] = "complete" /\ request[target] \in Fds
    BY <1>6 DEF WaitCompletion, RequestInFlight, WaitsForOwn
  <2>2. \A i \in 1 .. Len(srcReady) : Entry(i) = NoFd
    BY <2>1 DEF RequestInFlight, EntryUntilComplete
  <2>3. \A fd \in Fds : reqState'[fd] \in {"closed", "idle"}
    BY <1>6, <2>1 DEF WaitCompletion, RequestInFlight, HeldWhileWaiting
  <2> QED BY <1>6, <2>2, <2>3
          DEF WaitCompletion, queueVars, RequestInFlight, WaitsForOwn, HeldWhileWaiting,
              EntryIsTarget, OneEntry, EntryUntilComplete
<1>7. CASE WaitFail
  <2>1. waiting /\ request[target] \in Fds
    BY <1>7 DEF WaitFail, RequestInFlight, WaitsForOwn
  <2>2. \A i \in 1 .. Len(srcReady) : Entry(i) \in {NoFd, request[target]}
    BY <2>1 DEF RequestInFlight, EntryIsTarget
  <2>3. Len(srcReady') = Len(srcReady) /\ \A i \in 1 .. Len(srcReady) : srcReady'[i].fd = NoFd
    BY <1>7, <2>2, OrphanSeq DEF WaitFail
  <2>4. \A fd \in Fds : reqState'[fd] \in {"closed", "idle"}
    BY <1>7, <2>1 DEF WaitFail, CloseRequest, RequestInFlight, HeldWhileWaiting
  <2> QED BY <1>7, <2>3, <2>4
          DEF WaitFail, RequestInFlight, WaitsForOwn, HeldWhileWaiting,
              EntryIsTarget, OneEntry, EntryUntilComplete
<1>8. CASE Decode
  <2>1. Head(srcReady) = srcReady[1] /\ 1 \in 1 .. Len(srcReady)
    BY <1>8 DEF Decode
  <2>2. /\ Len(srcReady') = Len(srcReady) - 1
        /\ \A i \in 1 .. Len(srcReady') : srcReady'[i] = srcReady[i + 1]
    BY <1>8, HeadTailProperties DEF Decode
  <2>3. /\ \A i \in 1 .. Len(srcReady') : i + 1 \in 1 .. Len(srcReady) /\ i + 1 # 1
        /\ \A i \in 1 .. Len(srcReady) : i # 1 => i - 1 \in 1 .. Len(srcReady')
        /\ \A i, j \in 1 .. Len(srcReady') : i + 1 = j + 1 => i = j
    BY <2>2
  <2>4. UNCHANGED <<live, request, waiting, target>>
    BY <1>8 DEF Decode, driverVars
  <2>5. \A r \in Fds : reqState'[r] = IF r = Entry(1) THEN "complete" ELSE reqState[r]
    BY <1>8, <2>1 DEF Decode
  <2>6. Entry(1) # NoFd => /\ waiting /\ Entry(1) = request[target]
                           /\ \A i \in 1 .. Len(srcReady') : srcReady'[i].fd = NoFd
    <3>1. Entry(1) # NoFd => waiting /\ Entry(1) = request[target]
      BY <2>1 DEF RequestInFlight, EntryIsTarget
    <3>2. ASSUME Entry(1) # NoFd, NEW i \in 1 .. Len(srcReady') PROVE srcReady'[i].fd = NoFd
      <4>1. OneEntry
        BY DEF RequestInFlight
      <4>2. /\ srcReady'[i] = srcReady[i + 1]
            /\ i + 1 \in 1 .. Len(srcReady) /\ i + 1 # 1 /\ 1 \in 1 .. Len(srcReady)
        BY <2>1, <2>2, <2>3
      <4>3. srcReady[i + 1].fd = NoFd
        BY <3>2, <4>1, <4>2 DEF OneEntry
      <4> QED BY <4>2, <4>3
    <3> QED BY <3>1, <3>2
  <2>7. WaitsForOwn' /\ HeldWhileWaiting'
    BY <2>4, <2>5, <2>6 DEF RequestInFlight, WaitsForOwn, HeldWhileWaiting
  <2>8. EntryIsTarget' /\ OneEntry'
    <3>1. \A i \in 1 .. Len(srcReady') :
            srcReady'[i] = srcReady[i + 1] /\ i + 1 \in 1 .. Len(srcReady)
      BY <2>2, <2>3
    <3>2. ASSUME NEW i \in 1 .. Len(srcReady'), srcReady'[i].fd # NoFd
          PROVE  waiting' /\ srcReady'[i].fd = request'[target'] /\ srcReady'[i].buf = target'
      <4>1. srcReady[i + 1].fd # NoFd /\ i + 1 \in 1 .. Len(srcReady)
        BY <3>1, <3>2
      <4>2. waiting /\ srcReady[i + 1].fd = request[target] /\ srcReady[i + 1].buf = target
        BY <4>1 DEF RequestInFlight, EntryIsTarget
      <4> QED BY <2>4, <3>1, <4>2
    <3>3. ASSUME NEW i \in 1 .. Len(srcReady'), NEW j \in 1 .. Len(srcReady'),
                 srcReady'[i].fd # NoFd, srcReady'[j].fd # NoFd
          PROVE  i = j
      <4>1. /\ i + 1 \in 1 .. Len(srcReady) /\ srcReady[i + 1].fd # NoFd
            /\ j + 1 \in 1 .. Len(srcReady) /\ srcReady[j + 1].fd # NoFd
        BY <3>1, <3>3
      <4>2. i + 1 = j + 1
        BY <4>1 DEF RequestInFlight, OneEntry
      <4> QED BY <2>3, <4>2
    <3>4. EntryIsTarget'
      BY <3>2 DEF EntryIsTarget
    <3>5. OneEntry'
      BY <3>3 DEF OneEntry
    <3> QED BY <3>4, <3>5
  <2>9. EntryUntilComplete'
    <3>1. CASE Entry(1) # NoFd
      BY <1>0, <2>1, <2>4, <2>5, <2>6, <3>1 DEF EntryUntilComplete
    <3>2. CASE Entry(1) = NoFd
      <4>1. \A r \in Fds : reqState'[r] = reqState[r]
        BY <2>5, <3>2
      <4>2. (\E i \in 1 .. Len(srcReady') : srcReady'[i].fd # NoFd)
              <=> \E i \in 1 .. Len(srcReady) : Entry(i) # NoFd
        <5>1. ASSUME NEW i \in 1 .. Len(srcReady'), srcReady'[i].fd # NoFd
              PROVE  \E j \in 1 .. Len(srcReady) : Entry(j) # NoFd
          <6>1. i + 1 \in 1 .. Len(srcReady) /\ srcReady[i + 1].fd # NoFd
            BY <2>2, <2>3, <5>1
          <6> QED BY <6>1
        <5>2. ASSUME NEW j \in 1 .. Len(srcReady), Entry(j) # NoFd
              PROVE  \E i \in 1 .. Len(srcReady') : srcReady'[i].fd # NoFd
          <6>1. j - 1 \in 1 .. Len(srcReady') /\ (j - 1) + 1 = j
            BY <2>3, <3>2, <5>2
          <6>2. srcReady'[j - 1] = srcReady[j]
            BY <2>2, <6>1
          <6> QED BY <5>2, <6>1, <6>2
        <5> QED BY <5>1, <5>2
      <4> QED BY <2>4, <4>1, <4>2 DEF RequestInFlight, EntryUntilComplete, WaitsForOwn
    <3> QED BY <3>1, <3>2
  <2> QED BY <2>7, <2>8, <2>9 DEF RequestInFlight
<1>9. ASSUME NEW s \in Surfaces,
             SyncCrash(s) \/ SyncSurfaceFail(s) \/ SyncSurface(s) \/ DeriveImage(s)
      PROVE  RequestInFlight'
  BY <1>9, RequestFrame
     DEF SyncCrash, SyncSurfaceFail, SyncSurface, DeriveImage, driverVars, queueVars
<1>10. ASSUME NEW s \in Surfaces, DestroySurface(s) PROVE RequestInFlight'
  <2>1. ~waiting /\ UNCHANGED <<waiting, srcReady>>
    BY <1>10 DEF DestroySurface, queueVars
  <2>2. \A fd \in Fds : reqState'[fd] \in {"closed", "idle"}
    BY <1>10 DEF DestroySurface, CloseRequest, RequestInFlight, HeldWhileWaiting
  <2> QED BY <1>b, <2>1, <2>2 DEF RequestInFlight, EntryIsTarget
<1>11. ASSUME NEW s \in Surfaces, CreateSurface(s) PROVE RequestInFlight'
  <2>1. UNCHANGED <<reqState, target, waiting, srcReady>>
    BY <1>11 DEF CreateSurface, queueVars
  <2>2. waiting => request'[target] = request[target] /\ target \in live'
    BY <1>11 DEF CreateSurface, RequestInFlight, WaitsForOwn
  <2> QED BY <2>1, <2>2
          DEF RequestInFlight, WaitsForOwn, HeldWhileWaiting, EntryIsTarget, OneEntry,
              EntryUntilComplete
<1>12. CASE UNCHANGED vars
  BY <1>12, RequestFrame DEF vars, driverVars, queueVars
<1> QED
  BY <1>1, <1>2, <1>3, <1>4, <1>5, <1>6, <1>7, <1>8, <1>9, <1>10, <1>11, <1>12 DEF Next

\* The three parts are inductive together: RequestsOwned needs to know which
\* request is in flight, RequestInFlight that no other surface has it.
LEMMA RequestInvariant == Spec => []RequestInv
<1>1. Init => RequestInv
  BY TypeInit, RequestInit DEF RequestInv
<1>2. RequestInv /\ [Next]_vars => RequestInv'
  BY DriverTypeStep, KernelTypeStep, HistoryTypeStep, RequestsOwnedStep,
     RequestInFlightStep DEF RequestInv, TypeOK
<1> QED BY <1>1, <1>2, PTL DEF Spec

\* Open descriptors are those of the live surfaces, one each: none leaks and
\* none is shared, for any client and any failure.
THEOREM RequestsNeverLeak == Spec => []RequestsOwned
<1>1. RequestInv => RequestsOwned
  BY DEF RequestInv
<1> QED BY RequestInvariant, <1>1, PTL

\* A request is with the device exactly while vaEndPicture waits for it, and
\* one buffer alone can complete it.
THEOREM CompletionIsOwn == Spec => []RequestInFlight
<1>1. RequestInv => RequestInFlight
  BY DEF RequestInv
<1> QED BY RequestInvariant, <1>1, PTL

-----------------------------------------------------------------------------
(* The queues. *)

\* Each step adds to the destinations first, the device takes one of each.
LEMMA BehindStep ==
  TypeOK /\ SourceBehindDestination /\ [Next]_vars => SourceBehindDestination'
<1> SUFFICES ASSUME TypeOK, SourceBehindDestination, [Next]_vars
             PROVE  SourceBehindDestination'
  OBVIOUS
<1> USE DEF TypeOK, KernelTypeOK, SourceBehindDestination
<1>1. CASE UNCHANGED <<srcReady, dstReady>>
  BY <1>1
<1>2. CASE RenderSlice \/ RenderSliceRefused
  BY <1>2, WrittenSeq DEF RenderSlice, RenderSliceRefused, DriverTypeOK, HistoryTypeOK
<1>3. ASSUME NEW s \in Surfaces, EndPicture(s) PROVE SourceBehindDestination'
  <2>1. Len(Append(dstReady, s)) = Len(dstReady) + 1
    OBVIOUS
  <2>2. ASSUME NEW fd \in Fds \cup {NoFd}, QueueBoth(s, fd) PROVE SourceBehindDestination'
    BY <2>1, <2>2 DEF QueueBoth
  <2>3. ASSUME UNCHANGED srcReady, dstReady' \in {dstReady, Append(dstReady, s)}
        PROVE  SourceBehindDestination'
    BY <2>1, <2>3
  <2> QED
    BY <1>3, <2>2, <2>3
    DEF EndPicture,
        EndPictureControlsFail, EndPictureDstFail, EndPictureSrcFail,
        EndPictureRequestFail, EndPictureSubmit, EndPictureQueued, queueVars
<1>4. CASE WaitFail
  BY <1>4, OrphanSeq DEF WaitFail
<1>5. CASE Decode
  BY <1>5, HeadTailProperties DEF Decode
<1> QED
  BY <1>1, <1>2, <1>3, <1>4, <1>5
  DEF Next, BeginPicture, RenderCrash, RenderParameter, EndPictureCrash, WaitCompletion, SyncCrash, SyncSurfaceFail, SyncSurface,
      DeriveImage, DestroySurface, CreateSurface, vars, queueVars

\* A bitstream the device holds never waits for a destination.
THEOREM DestinationsSuffice == Spec => []SourceBehindDestination
<1>1. Init => SourceBehindDestination
  BY DEF Init, SourceBehindDestination
<1>2. TypeOK /\ SourceBehindDestination /\ [Next]_vars => SourceBehindDestination'
  BY BehindStep
<1> QED BY <1>1, <1>2, TypeCorrect, PTL DEF Spec

=============================================================================

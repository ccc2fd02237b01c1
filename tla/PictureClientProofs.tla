------------------------- MODULE PictureClientProofs -------------------------
(***************************************************************************)
(* Theorems of PictureClient: for any number of surfaces and pictures, any *)
(* kinds of parameters, with and without requests.                         *)
(***************************************************************************)
EXTENDS PictureClient, PictureProofs, FiniteSetTheorems

-----------------------------------------------------------------------------
(* The inductive invariant.  A surface that is given back holds its picture*)
(* because three things are known of every surface at every time: where the*)
(* client is with it (ClientInv), which buffers lie opposite each other in *)
(* the queues (PairInv), and where its picture is (PictureInv).            *)

\* No surface is created or destroyed, and none has a request without a media node.
Buffers == live = Surfaces /\ bound = Surfaces
NoRequests == ~media => \A s \in Surfaces : request[s] = NoFd

\* The status of a surface follows the calls; one picture is open at a time.
CallStatus == \A s \in Surfaces : status[s] = "Rendering" <=> call[s] # "none"
OpenIsTarget == \A s \in Surfaces : call[s] = "open" => target = s /\ picOf[s] = pictures
WaitIsOpen == waiting => call[target] = "open"

\* A source buffer holds the open or a failed picture of its surface.
SourceOwn ==
  \A s \in Surfaces :
    /\ source[s] \subseteq {picOf[s]}
    /\ call[s] \in {"none", "ended"} => source[s] = {}

\* Pictures are numbered, one surface for each number.
Numbered ==
  /\ \A s \in Surfaces : picOf[s] <= pictures /\ (call[s] # "none" => picOf[s] # 0)
  /\ \A s, t \in Surfaces : picOf[s] = picOf[t] /\ picOf[s] # 0 => s = t
Latest == pictures = 0 \/ \E s \in Surfaces : picOf[s] = pictures

ClientInv ==
  Buffers /\ NoRequests /\ CallStatus /\ OpenIsTarget /\ WaitIsOpen /\ SourceOwn /\ Numbered /\ Latest

\* The n-th source buffer queued is decoded to the n-th destination buffer, which
\* is its own; a marked one may leave its destination among those that are done.
ReadyPaired ==
  /\ Len(srcReady) = Len(dstReady)
  /\ \A i \in 1 .. Len(srcReady) : srcReady[i].buf = dstReady[i]
Surplus == Len(dstDone) - Len(srcDone)
DonePaired ==
  /\ Surplus >= 0
  /\ \A i \in 1 .. Len(srcDone) : srcDone[i] = dstDone[i + Surplus]
NoneMarked == ~erred => Surplus = 0 /\ \A i \in 1 .. Len(srcDone) : ~srcDone[i].err

PairInv == ReadyPaired /\ DonePaired /\ NoneMarked

\* A buffer with the device holds the picture of its surface.  With requests, it
\* is waited for or was given up; without, the picture was ended.
EntryOwn ==
  \A i \in 1 .. Len(srcReady) :
    LET b == srcReady[i].buf
    IN /\ srcReady[i].data = {picOf[b]}
       /\ media => call[b] = "failed" \/ (waiting /\ b = target /\ srcReady[i].fd # NoFd)
       /\ ~media => call[b] = "ended"

\* Without requests, buffers lie in the order the pictures were begun in.
DoneOwn == ~media => \A i \in 1 .. Len(srcDone) : call[srcDone[i].buf] = "ended"
ReadyInOrder ==
  ~media => \A i, j \in 1 .. Len(srcReady) :
              i < j => picOf[srcReady[i].buf] < picOf[srcReady[j].buf]
DoneInOrder ==
  ~media => \A i, j \in 1 .. Len(srcDone) :
              i < j => picOf[srcDone[i].buf] < picOf[srcDone[j].buf]
DoneBeforeReady ==
  ~media => \A i \in 1 .. Len(srcDone), j \in 1 .. Len(srcReady) :
              picOf[srcDone[i].buf] < picOf[srcReady[j].buf]

\* The picture of a surface is in its buffer, or its bitstream is with the device.
Right(s) == content[s] \subseteq {picOf[s]} /\ (erred \/ content[s] # {})
WithDevice(s) == \E i \in 1 .. Len(srcReady) : srcReady[i].buf = s
Decoded ==
  \A s \in Surfaces :
    picOf[s] # 0 /\ call[s] \in {"none", "ended"} =>
      Right(s) \/ (~media /\ call[s] = "ended" /\ WithDevice(s))
CompleteIsRight == waiting /\ reqState[request[target]] = "complete" => Right(target)

OrderInv == DoneOwn /\ ReadyInOrder /\ DoneInOrder /\ DoneBeforeReady
PictureInv == EntryOwn /\ OrderInv /\ Decoded /\ CompleteIsRight

Inv == QueuedInPairs /\ RequestInv /\ ClientInv /\ PairInv /\ PictureInv

-----------------------------------------------------------------------------
(* The steps of a client that keeps to the order. *)

\* Its steps are among those of any client.
LEMMA ClientIsClient == [ClientNext]_vars => [Next]_vars
BY DEF ClientNext, ClientBegin, ClientRender, ClientEnd, ClientShow, ClientDerive, Next

\* So it keeps what any client keeps.
LEMMA RequestInvStep == RequestInv /\ [ClientNext]_vars => RequestInv'
BY ClientIsClient, DriverTypeStep, KernelTypeStep, HistoryTypeStep, RequestsOwnedStep,
   RequestInFlightStep DEF RequestInv, TypeOK

\* Entries of the queues are what they are said to be.
LEMMA Entries ==
  ASSUME TypeOK
  PROVE  /\ \A i \in 1 .. Len(srcReady) : srcReady[i] \in Bitstream
         /\ \A i \in 1 .. Len(dstReady) : dstReady[i] \in Surfaces
         /\ \A i \in 1 .. Len(srcDone) : srcDone[i] \in Done
         /\ \A i \in 1 .. Len(dstDone) : dstDone[i] \in Done
         /\ Len(srcReady) \in Nat /\ Len(dstReady) \in Nat
         /\ Len(srcDone) \in Nat /\ Len(dstDone) \in Nat
BY ElementOfSeq, LenProperties DEF TypeOK, KernelTypeOK

\* A buffer of the device's is not one of a picture that is being rendered.
LEMMA OpenNotQueued ==
  ASSUME Inv, NEW s \in Surfaces, call[s] = "open", ~waiting
  PROVE  ~WithDevice(s)
<1>1. SUFFICES ASSUME NEW i \in 1 .. Len(srcReady), srcReady[i].buf = s PROVE FALSE
  BY DEF WithDevice
<1>2. call[s] = "failed" \/ call[s] = "ended"
  BY <1>1 DEF Inv, PictureInv, EntryOwn, RequestInv, TypeOK, DriverTypeOK
<1> QED BY <1>2

\* A source buffer is never refused when the destination is not: it has gone first.
LEMMA SourceWithDestination ==
  ASSUME Inv, NEW s \in Surfaces, InSrc(s)
  PROVE  InDst(s)
<1>0. TypeOK /\ PairInv
  BY DEF Inv, RequestInv
<1>1. CASE WithDevice(s)
  BY <1>0, <1>1, Entries DEF PairInv, ReadyPaired, WithDevice, InDst
<1>2. ASSUME NEW i \in 1 .. Len(srcDone), srcDone[i].buf = s PROVE InDst(s)
  <2>1. Surplus >= 0 /\ Surplus \in Int /\ srcDone[i] = dstDone[i + Surplus]
    BY <1>0, Entries DEF PairInv, DonePaired, Surplus
  <2>2. i + Surplus \in 1 .. Len(dstDone)
    BY <1>0, <2>1, Entries DEF Surplus
  <2> QED BY <1>2, <2>1, <2>2 DEF InDst
<1> QED BY <1>1, <1>2 DEF InSrc, WithDevice

-----------------------------------------------------------------------------
(* ClientInv. *)

\* An order of calls that is not started has broken no rule.
LEMMA ClientInit == Init => ClientInv
BY PictureAssumption
   DEF Init, ClientInv, Buffers, NoRequests, CallStatus, OpenIsTarget, WaitIsOpen, SourceOwn,
       Numbered, Latest, PictureAssumption

\* Each call leaves the client where the status, the source buffer and the request
\* of the surface say that it is.
LEMMA ClientStep == Inv /\ [ClientNext]_vars => ClientInv'
<1> SUFFICES ASSUME Inv, [ClientNext]_vars PROVE ClientInv'
  OBVIOUS
<1> USE DEF ClientInv, Buffers, NoRequests, CallStatus, OpenIsTarget, WaitIsOpen, SourceOwn,
            Numbered, Latest
<1>0. TypeOK /\ RequestInFlight /\ ClientInv
  BY DEF Inv, RequestInv
<1>00. /\ status \in [Surfaces -> {"Ready", "Rendering", "Displaying"}]
       /\ source \in [Surfaces -> SUBSET Marks] /\ request \in [Surfaces -> Fds \cup {NoFd}]
       /\ target \in Surfaces \cup {Invalid} /\ media \in BOOLEAN /\ waiting \in BOOLEAN
       /\ pictures \in Marks /\ picOf \in [Surfaces -> Marks]
       /\ call \in [Surfaces -> {"none", "open", "failed", "ended"}]
       /\ Marks \subseteq Nat
  BY <1>0 DEF TypeOK, DriverTypeOK, HistoryTypeOK, Marks
<1>w. waiting => target \in Surfaces
  BY <1>0 DEF RequestInFlight, WaitsForOwn
<1>1. ASSUME NEW s \in Surfaces, ClientBegin(s) PROVE ClientInv'
  <2>1. call[s] = "none" /\ ~waiting /\ \A t \in Surfaces : call[t] # "open"
    BY <1>0, <1>00, <1>1 DEF ClientBegin, BeginPicture
  <2>2. /\ status' = [status EXCEPT ![s] = "Rendering"] /\ target' = s
        /\ pictures' = pictures + 1 /\ picOf' = [picOf EXCEPT ![s] = pictures + 1]
        /\ call' = [call EXCEPT ![s] = "open"]
        /\ UNCHANGED <<media, live, bound, source, request, waiting>>
    BY <1>1 DEF ClientBegin, BeginPicture
  <2>3. (Buffers /\ NoRequests /\ CallStatus /\ OpenIsTarget /\ WaitIsOpen)'
    BY <1>0, <1>00, <2>1, <2>2
  <2>4. SourceOwn'
    BY <1>0, <1>00, <2>1, <2>2
  <2>5. Latest' /\ \A t \in Surfaces : picOf'[t] = IF t = s THEN pictures + 1 ELSE picOf[t]
    BY <1>0, <1>00, <2>1, <2>2
  <2>6. Numbered'
    <3>1. pictures \in Nat /\ \A t \in Surfaces : picOf[t] \in Nat /\ picOf[t] <= pictures
      BY <1>0, <1>00
    <3>2. \A t \in Surfaces : picOf'[t] <= pictures'
      BY <2>2, <2>5, <3>1
    <3>3. \A t \in Surfaces : call'[t] # "none" => picOf'[t] # 0
      BY <1>0, <1>00, <2>2, <2>5, <3>1
    <3>4. \A t, u \in Surfaces : picOf'[t] = picOf'[u] /\ picOf'[t] # 0 => t = u
      BY <1>0, <2>5, <3>1
    <3> QED BY <3>2, <3>3, <3>4
  <2> QED BY <2>3, <2>4, <2>5, <2>6
<1>2. CASE ClientRender
  <2>1. PICK s \in Surfaces : call[s] = "open"
    BY <1>2 DEF ClientRender
  <2>2. /\ target = s
        /\ source' \in {source, [source EXCEPT ![target] = @ \cup {picOf[target]}]}
        /\ UNCHANGED <<media, live, bound, status, request, target, waiting,
                       pictures, picOf, call>>
    BY <1>0, <1>2, <2>1 DEF ClientRender, RenderParameter, RenderSlice, history
  <2> QED BY <1>0, <1>00, <2>1, <2>2
<1>3. ASSUME NEW s \in Surfaces, ClientEnd(s) PROVE ClientInv'
  <2>0. call[s] = "open" /\ target = s
    BY <1>0, <1>3 DEF ClientEnd
  <2>1. ASSUME NEW fd \in Fds \cup {NoFd}, Ending(s, fd) PROVE ~media => fd = NoFd
    BY <1>0, <2>1 DEF Ending, RequestFor
  <2>2. ASSUME NEW fd \in Fds \cup {NoFd}, Ending(s, fd), Failed(s), ~waiting,
               KeepRequest(s, fd) \/ CloseRequest(s, fd),
               UNCHANGED <<media, live, bound, status, source, target, waiting, pictures, picOf>>
        PROVE  ClientInv'
    BY <1>0, <1>00, <2>0, <2>1, <2>2 DEF Failed, KeepRequest, CloseRequest
  <2>3. ASSUME NEW fd \in Fds \cup {NoFd},
               \/ EndPictureControlsFail(s, fd) \/ EndPictureDstFail(s, fd)
               \/ EndPictureSrcFail(s, fd) \/ EndPictureRequestFail(s, fd)
        PROVE  ClientInv'
    BY <2>2, <2>3 DEF EndPictureControlsFail, EndPictureDstFail, EndPictureSrcFail,
                      EndPictureRequestFail, Ending
  <2>4. ASSUME NEW fd \in Fds \cup {NoFd}, EndPictureSubmit(s, fd) PROVE ClientInv'
    BY <1>0, <1>00, <2>0, <2>1, <2>4 DEF EndPictureSubmit, history
  <2>5. CASE EndPictureQueued(s)
    BY <1>0, <1>00, <2>0, <2>5 DEF EndPictureQueued, FinishPicture, Ending
  <2>6. CASE EndPictureCrash
    BY <1>0, <2>6 DEF EndPictureCrash, history
  <2> QED BY <1>3, <2>3, <2>4, <2>5, <2>6 DEF ClientEnd, EndPicture
<1>4. CASE WaitCompletion
  BY <1>0, <1>00, <1>w, <1>4 DEF WaitCompletion, FinishPicture
<1>5. CASE WaitFail
  BY <1>0, <1>00, <1>w, <1>5 DEF WaitFail, CloseRequest, Failed
<1>6. CASE Decode
  BY <1>0, <1>6 DEF Decode, driverVars
<1>7. ASSUME NEW s \in Surfaces, ClientShow(s) PROVE ClientInv'
  <2>1. call[s] = "ended"
    BY <1>7 DEF ClientShow, MayShow, Ended
  <2>2. CASE SyncSurface(s) \/ DeriveImage(s)
    <3>1. PICK st \in {"Displaying", "Ready"} : status' = [status EXCEPT ![s] = st]
      BY <2>2 DEF SyncSurface, DeriveImage
    <3>2. /\ call' = [call EXCEPT ![s] = "none"]
          /\ UNCHANGED <<media, live, bound, source, request, target, waiting, pictures, picOf>>
      BY <2>2 DEF SyncSurface, DeriveImage
    <3> QED BY <1>0, <1>00, <2>1, <3>1, <3>2
  <2>3. CASE SyncSurfaceFail(s)
    BY <1>0, <2>3 DEF SyncSurfaceFail, driverVars, history
  <2>4. CASE SyncCrash(s)
    BY <1>0, <2>4 DEF SyncCrash, history
  <2> QED BY <1>7, <2>2, <2>3, <2>4 DEF ClientShow
<1>8. ASSUME NEW s \in Surfaces, ClientDerive(s) PROVE ClientInv'
  BY <1>0, <1>00, <1>8 DEF ClientDerive, DeriveImage
<1>9. CASE UNCHANGED vars
  BY <1>0, <1>9 DEF vars, driverVars, history
<1> QED BY <1>1, <1>2, <1>3, <1>4, <1>5, <1>6, <1>7, <1>8, <1>9 DEF ClientNext

-----------------------------------------------------------------------------
(* What the steps do to the queues. *)

\* The bitstream of a picture that is open is copied where no buffer waits.
LEMMA WrittenSame ==
  ASSUME TypeOK, NEW s, ~WithDevice(s)
  PROVE  Written(s) = srcReady
<1>1. \A i \in 1 .. Len(srcReady) : srcReady[i].buf # s
  BY DEF WithDevice
<1>2. Written(s) = [i \in 1 .. Len(srcReady) |-> srcReady[i]]
  BY <1>1 DEF Written
<1> QED BY <1>2 DEF TypeOK, KernelTypeOK

\* A closed request takes no buffer and no data with it.
LEMMA OrphanKeeps ==
  ASSUME TypeOK, NEW fd
  PROVE  /\ Len(Orphan(fd)) = Len(srcReady)
         /\ \A i \in 1 .. Len(srcReady) :
              /\ Orphan(fd)[i].buf = srcReady[i].buf
              /\ Orphan(fd)[i].data = srcReady[i].data
<1>1. Len(Orphan(fd)) = Len(srcReady)
  BY OrphanSeq DEF TypeOK, KernelTypeOK
<1>2. \A i \in 1 .. Len(srcReady) : srcReady[i] \in Bitstream
  BY Entries
<1> QED BY <1>1, <1>2 DEF Orphan, Bitstream

\* Where a pair of buffers is queued.
LEMMA QueueBothFacts ==
  ASSUME TypeOK, NEW s \in Surfaces, NEW fd \in Fds \cup {NoFd}, QueueBoth(s, fd)
  PROVE  /\ Len(srcReady') = Len(srcReady) + 1 /\ Len(dstReady') = Len(dstReady) + 1
         /\ \A i \in 1 .. Len(srcReady) : srcReady'[i] = srcReady[i]
         /\ \A i \in 1 .. Len(dstReady) : dstReady'[i] = dstReady[i]
         /\ srcReady'[Len(srcReady) + 1] = [buf |-> s, fd |-> fd, data |-> source[s]]
         /\ dstReady'[Len(dstReady) + 1] = s
<1>1. [buf |-> s, fd |-> fd, data |-> source[s]] \in Bitstream
  BY DEF TypeOK, DriverTypeOK, Bitstream
<1> QED BY <1>1, AppendProperties DEF TypeOK, KernelTypeOK, QueueBoth

\* What the device does with the pair it takes.
LEMMA DecodeFacts ==
  ASSUME Inv, Decode
  PROVE  \E err \in BOOLEAN :
           LET b == srcReady[1].buf
           IN /\ 1 \in 1 .. Len(srcReady) /\ b \in Surfaces
              /\ Len(srcReady') = Len(srcReady) - 1 /\ Len(dstReady') = Len(dstReady) - 1
              /\ \A i \in 1 .. Len(srcReady) - 1 : srcReady'[i] = srcReady[i + 1]
              /\ \A i \in 1 .. Len(dstReady) - 1 : dstReady'[i] = dstReady[i + 1]
              /\ srcDone' = Append(srcDone, [buf |-> b, err |-> err])
              /\ dstDone' = Append(dstDone, [buf |-> b, err |-> err])
              /\ content' = [content EXCEPT ![b] = IF err THEN {} ELSE {picOf[b]}]
              /\ \A fd \in Fds : reqState'[fd] = IF fd = srcReady[1].fd THEN "complete" ELSE reqState[fd]
              /\ erred' = (erred \/ err)
              /\ UNCHANGED <<driverVars, pictures, picOf, call>>
<1>0. TypeOK /\ ReadyPaired /\ EntryOwn
  BY DEF Inv, RequestInv, PairInv, PictureInv
<1>1. /\ srcReady \in Seq(Bitstream) /\ srcReady # << >>
      /\ dstReady \in Seq(Surfaces) /\ dstReady # << >>
  BY <1>0 DEF TypeOK, KernelTypeOK, Decode
<1>2. /\ Head(srcReady) = srcReady[1] /\ Head(dstReady) = dstReady[1]
      /\ 1 \in 1 .. Len(srcReady) /\ srcReady[1] \in Bitstream
  BY <1>1, HeadTailProperties, Entries, <1>0
<1>3. srcReady[1].buf = dstReady[1] /\ srcReady[1].buf \in Surfaces
      /\ srcReady[1].data = {picOf[srcReady[1].buf]}
  BY <1>0, <1>2 DEF ReadyPaired, EntryOwn, Bitstream
<1>4. /\ Len(srcReady') = Len(srcReady) - 1 /\ Len(dstReady') = Len(dstReady) - 1
      /\ \A i \in 1 .. Len(srcReady) - 1 : srcReady'[i] = srcReady[i + 1]
      /\ \A i \in 1 .. Len(dstReady) - 1 : dstReady'[i] = dstReady[i + 1]
  <2>1. srcReady' = Tail(srcReady) /\ dstReady' = Tail(dstReady)
    BY DEF Decode
  <2> QED BY <1>1, <2>1, HeadTailProperties
<1>5. PICK err \in BOOLEAN :
        /\ srcDone' = Append(srcDone, [buf |-> Head(srcReady).buf, err |-> err])
        /\ dstDone' = Append(dstDone, [buf |-> Head(dstReady), err |-> err])
        /\ content' = [content EXCEPT ![Head(dstReady)] = IF err THEN {} ELSE Head(srcReady).data]
        /\ reqState' = [r \in Fds |-> IF r = Head(srcReady).fd THEN "complete" ELSE reqState[r]]
        /\ erred' = (erred \/ err)
  BY DEF Decode
<1>6. UNCHANGED <<driverVars, pictures, picOf, call>>
  BY DEF Decode
<1> QED BY <1>2, <1>3, <1>4, <1>5, <1>6

\* The ways through vaEndPicture: the call fails and leaves the queues alone, or
\* the pair of buffers is queued.
LEMMA EndCases ==
  ASSUME Inv, NEW s \in Surfaces, ClientEnd(s)
  PROVE  /\ call[s] = "open" /\ target = s /\ ~waiting /\ source[s] = {picOf[s]}
         /\ \/ /\ Failed(s)
               /\ UNCHANGED <<media, target, waiting, queueVars, pictures, picOf, erred>>
            \/ \E fd \in Fds : EndPictureSubmit(s, fd)
            \/ EndPictureQueued(s)
            \/ EndPictureCrash
<1>1. call[s] = "open" /\ picOf[s] \in source[s]
  BY DEF ClientEnd
<1>2. target = s /\ source[s] = {picOf[s]}
  BY <1>1 DEF Inv, ClientInv, OpenIsTarget, SourceOwn
<1>3. ~waiting
  BY DEF ClientEnd, EndPicture, EndPictureCrash, EndPictureControlsFail, EndPictureDstFail,
         EndPictureSrcFail, EndPictureRequestFail, EndPictureSubmit, EndPictureQueued, Ending
<1>4. ASSUME NEW fd \in Fds \cup {NoFd},
             EndPictureSrcFail(s, fd) \/ EndPictureRequestFail(s, fd)
      PROVE  FALSE
  BY <1>4, SourceWithDestination
     DEF EndPictureSrcFail, EndPictureRequestFail, Inv, QueuedInPairs
<1>5. ASSUME NEW fd \in Fds \cup {NoFd}, EndPictureSubmit(s, fd) PROVE fd \in Fds
  BY <1>5 DEF EndPictureSubmit
<1>6. EndPicture(s) \/ EndPictureCrash
  BY DEF ClientEnd
<1> QED BY <1>1, <1>2, <1>3, <1>4, <1>5, <1>6
        DEF EndPicture, EndPictureControlsFail, EndPictureDstFail, EndPictureCrash

-----------------------------------------------------------------------------
(* PairInv. *)

\* What a synchronisation takes from the queues of buffers that are done.
LEMMA DequeueFacts ==
  ASSUME TypeOK, NEW s \in Surfaces, SyncSurface(s) \/ (DeriveImage(s) /\ status[s] = "Rendering")
  PROVE  /\ Len(srcDone) >= 1 /\ Len(dstDone) >= 1
         /\ Len(srcDone') = Len(srcDone) - 1 /\ Len(dstDone') = Len(dstDone) - 1
         /\ \A i \in 1 .. Len(srcDone) - 1 : srcDone'[i] = srcDone[i + 1]
         /\ \A i \in 1 .. Len(dstDone) - 1 : dstDone'[i] = dstDone[i + 1]
<1>1. DequeueBoth
  BY DEF SyncSurface, DeriveImage
<1>2. /\ srcDone \in Seq(Done) /\ srcDone # << >> /\ srcDone' = Tail(srcDone)
      /\ dstDone \in Seq(Done) /\ dstDone # << >> /\ dstDone' = Tail(dstDone)
  BY <1>1 DEF DequeueBoth, Good, TypeOK, KernelTypeOK
<1> QED BY <1>2, HeadTailProperties

\* What a failed one takes.  Nothing, as long as no buffer was marked.
LEMMA DequeueFailFacts ==
  ASSUME Inv, NEW s \in Surfaces, SyncSurfaceFail(s)
  PROVE  \/ UNCHANGED <<srcDone, dstDone>>
         \/ /\ erred
            /\ Len(srcDone) >= 1 /\ Len(srcDone') = Len(srcDone) - 1
            /\ \A i \in 1 .. Len(srcDone) - 1 : srcDone'[i] = srcDone[i + 1]
            /\ \/ UNCHANGED dstDone
               \/ /\ Len(dstDone) >= 1 /\ Len(dstDone') = Len(dstDone) - 1
                  /\ \A i \in 1 .. Len(dstDone) - 1 : dstDone'[i] = dstDone[i + 1]
<1>0. TypeOK /\ DonePaired /\ NoneMarked
  BY DEF Inv, RequestInv, PairInv
<1>1. srcDone \in Seq(Done) /\ dstDone \in Seq(Done)
  BY <1>0 DEF TypeOK, KernelTypeOK
<1>2. CASE DequeueSrcFail
  <2>1. CASE srcDone = << >>
    BY <1>2, <2>1 DEF DequeueSrcFail
  <2>2. CASE srcDone # << >>
    <3>1. srcDone' = Tail(srcDone) /\ UNCHANGED dstDone /\ Head(srcDone).err
      BY <1>2, <2>2 DEF DequeueSrcFail, Good
    <3>2. Head(srcDone) = srcDone[1] /\ 1 \in 1 .. Len(srcDone)
      BY <1>1, <2>2
    <3>3. erred
      BY <1>0, <3>1, <3>2 DEF NoneMarked
    <3> QED BY <1>1, <2>2, <3>1, <3>2, <3>3, HeadTailProperties
  <2> QED BY <2>1, <2>2
<1>3. CASE DequeueDstFail
  <2>1. srcDone # << >> /\ srcDone' = Tail(srcDone) /\ ~Head(srcDone).err
    BY <1>3 DEF DequeueDstFail, Good
  <2>2. Head(srcDone) = srcDone[1] /\ 1 \in 1 .. Len(srcDone)
    BY <1>1, <2>1
  <2>3. Surplus \in Int /\ Surplus >= 0 /\ Len(dstDone) = Len(srcDone) + Surplus
    BY <1>0, Entries DEF DonePaired, Surplus
  <2>4. dstDone # << >> /\ 1 \in 1 .. Len(dstDone) /\ Head(dstDone) = dstDone[1]
    BY <1>1, <2>2, <2>3
  <2>5. dstDone' = Tail(dstDone) /\ Head(dstDone).err
    BY <1>3, <2>4 DEF DequeueDstFail, Good
  <2>6. erred
    <3>1. SUFFICES ASSUME ~erred PROVE FALSE
      OBVIOUS
    <3>2. Surplus = 0
      BY <1>0, <3>1 DEF NoneMarked
    <3>3. srcDone[1] = dstDone[1 + Surplus]
      BY <1>0, <2>2 DEF DonePaired
    <3>4. srcDone[1] = dstDone[1]
      BY <3>2, <3>3
    <3> QED BY <2>1, <2>2, <2>4, <2>5, <3>4
  <2> QED BY <1>1, <2>1, <2>4, <2>5, <2>6, HeadTailProperties
<1> QED BY <1>2, <1>3 DEF SyncSurfaceFail

\* Buffers are queued, decoded and, unless one is marked, taken back in pairs.
LEMMA PairStep == Inv /\ [ClientNext]_vars => PairInv'
<1> SUFFICES ASSUME Inv, [ClientNext]_vars PROVE PairInv'
  OBVIOUS
<1>0. TypeOK /\ PairInv /\ ReadyPaired /\ DonePaired /\ NoneMarked
  BY DEF Inv, RequestInv, PairInv
<1>00. /\ Len(srcReady) \in Nat /\ Len(dstReady) = Len(srcReady)
       /\ Len(srcDone) \in Nat /\ Surplus \in Nat /\ Len(dstDone) = Len(srcDone) + Surplus
       /\ erred \in BOOLEAN
  BY <1>0, Entries DEF ReadyPaired, DonePaired, Surplus, TypeOK, HistoryTypeOK
<1>a. ASSUME UNCHANGED <<srcReady, dstReady, srcDone, dstDone, erred>> PROVE PairInv'
  BY <1>0, <1>a DEF PairInv, ReadyPaired, DonePaired, NoneMarked, Surplus
<1>b. ASSUME UNCHANGED <<srcDone, dstDone, erred>>, ReadyPaired' PROVE PairInv'
  BY <1>0, <1>b DEF PairInv, DonePaired, NoneMarked, Surplus
<1>c. ASSUME NEW s \in Surfaces, NEW fd \in Fds \cup {NoFd}, QueueBoth(s, fd)
      PROVE  ReadyPaired'
  <2>1. /\ Len(srcReady') = Len(srcReady) + 1 /\ Len(dstReady') = Len(srcReady) + 1
        /\ \A i \in 1 .. Len(srcReady) : srcReady'[i] = srcReady[i] /\ dstReady'[i] = dstReady[i]
        /\ srcReady'[Len(srcReady) + 1].buf = s /\ dstReady'[Len(srcReady) + 1] = s
    <3>1. /\ Len(srcReady') = Len(srcReady) + 1 /\ Len(dstReady') = Len(dstReady) + 1
          /\ \A i \in 1 .. Len(srcReady) : srcReady'[i] = srcReady[i]
          /\ \A i \in 1 .. Len(dstReady) : dstReady'[i] = dstReady[i]
          /\ srcReady'[Len(srcReady) + 1] = [buf |-> s, fd |-> fd, data |-> source[s]]
          /\ dstReady'[Len(dstReady) + 1] = s
      BY <1>0, <1>c, QueueBothFacts
    <3>2. srcReady'[Len(srcReady) + 1].buf = s
      BY <3>1
    <3>3. Len(dstReady) = Len(srcReady)
      BY <1>00
    <3> QED BY <3>1, <3>2, <3>3
  <2>2. ASSUME NEW i \in 1 .. Len(srcReady) + 1 PROVE srcReady'[i].buf = dstReady'[i]
    <3>1. i \in 1 .. Len(srcReady) \/ i = Len(srcReady) + 1
      BY <1>00
    <3> QED BY <1>0, <2>1, <3>1 DEF ReadyPaired
  <2> QED BY <2>1, <2>2 DEF ReadyPaired
<1>1. ASSUME NEW s \in Surfaces, ClientBegin(s) PROVE PairInv'
  BY <1>1, <1>a DEF ClientBegin, BeginPicture, queueVars
<1>2. CASE ClientRender
  <2>1. PICK s \in Surfaces : call[s] = "open"
    BY <1>2 DEF ClientRender
  <2>2. target = s
    BY <2>1 DEF Inv, ClientInv, OpenIsTarget
  <2>3. UNCHANGED queueVars /\ UNCHANGED erred
    BY <1>0, <1>2, <2>1, <2>2, WrittenSame, OpenNotQueued
       DEF ClientRender, RenderParameter, RenderSlice, queueVars, history
  <2> QED BY <1>a, <2>3 DEF queueVars
<1>3. ASSUME NEW s \in Surfaces, ClientEnd(s) PROVE PairInv'
  <2>1. ASSUME NEW fd \in Fds, EndPictureSubmit(s, fd) PROVE PairInv'
    BY <1>b, <1>c, <2>1 DEF EndPictureSubmit, history
  <2>2. CASE EndPictureQueued(s)
    BY <1>b, <1>c, <2>2 DEF EndPictureQueued
  <2>3. CASE EndPictureCrash
    BY <1>a, <2>3 DEF EndPictureCrash, queueVars, history
  <2> QED BY <1>3, <1>a, <2>1, <2>2, <2>3, EndCases DEF queueVars
<1>4. CASE WaitCompletion
  BY <1>4, <1>a DEF WaitCompletion, queueVars
<1>5. CASE WaitFail
  <2>1. srcReady' = Orphan(request[target]) /\ UNCHANGED <<dstReady, srcDone, dstDone, erred>>
    BY <1>5 DEF WaitFail
  <2>2. ReadyPaired'
    BY <1>0, <2>1, OrphanKeeps DEF ReadyPaired
  <2> QED BY <1>b, <2>1, <2>2
<1>6. CASE Decode
  <2> DEFINE b == srcReady[1].buf
  <2>1. PICK err \in BOOLEAN :
          /\ 1 \in 1 .. Len(srcReady) /\ b \in Surfaces
          /\ Len(srcReady') = Len(srcReady) - 1 /\ Len(dstReady') = Len(dstReady) - 1
          /\ \A i \in 1 .. Len(srcReady) - 1 : srcReady'[i] = srcReady[i + 1]
          /\ \A i \in 1 .. Len(dstReady) - 1 : dstReady'[i] = dstReady[i + 1]
          /\ srcDone' = Append(srcDone, [buf |-> b, err |-> err])
          /\ dstDone' = Append(dstDone, [buf |-> b, err |-> err])
          /\ erred' = (erred \/ err)
    BY <1>6, DecodeFacts
  <2>2. ReadyPaired'
    <3>1. ASSUME NEW i \in 1 .. Len(srcReady) - 1 PROVE srcReady'[i].buf = dstReady'[i]
      <4>1. i + 1 \in 1 .. Len(srcReady)
        BY <1>00
      <4>2. srcReady'[i] = srcReady[i + 1] /\ dstReady'[i] = dstReady[i + 1]
        BY <1>00, <2>1
      <4> QED BY <1>0, <4>1, <4>2 DEF ReadyPaired
    <3> QED BY <1>00, <2>1, <3>1 DEF ReadyPaired
  <2> DEFINE d == [buf |-> b, err |-> err]
  <2>3. d \in Done /\ d.err = err
    BY <2>1 DEF Done
  <2> HIDE DEF d
  <2>4. /\ srcDone \in Seq(Done) /\ dstDone \in Seq(Done)
        /\ srcDone' = Append(srcDone, d) /\ dstDone' = Append(dstDone, d)
    BY <1>0, <2>1 DEF TypeOK, KernelTypeOK, d
  <2>5. /\ Len(srcDone') = Len(srcDone) + 1 /\ Len(dstDone') = Len(dstDone) + 1
        /\ \A i \in 1 .. Len(srcDone) : srcDone'[i] = srcDone[i]
        /\ \A i \in 1 .. Len(dstDone) : dstDone'[i] = dstDone[i]
        /\ srcDone'[Len(srcDone) + 1] = d /\ dstDone'[Len(dstDone) + 1] = d
    BY <2>3, <2>4, AppendProperties
  <2>6. Surplus' = Surplus
    BY <1>00, <2>5 DEF Surplus
  <2>7. ASSUME NEW i \in 1 .. Len(srcDone) + 1 PROVE srcDone'[i] = dstDone'[i + Surplus]
    <3>1. CASE i = Len(srcDone) + 1
      BY <1>00, <2>5, <3>1
    <3>2. CASE i \in 1 .. Len(srcDone)
      <4>1. i + Surplus \in 1 .. Len(dstDone)
        BY <1>00, <3>2
      <4>2. srcDone[i] = dstDone[i + Surplus]
        BY <1>0, <3>2 DEF DonePaired
      <4> QED BY <2>5, <3>2, <4>1, <4>2
    <3> QED BY <1>00, <3>1, <3>2
  <2>8. DonePaired'
    BY <1>00, <2>5, <2>6, <2>7 DEF DonePaired
  <2>9. NoneMarked'
    BY <1>0, <1>00, <2>1, <2>3, <2>5, <2>6 DEF NoneMarked
  <2> QED BY <2>2, <2>8, <2>9 DEF PairInv
<1>7. ASSUME NEW s \in Surfaces, ClientShow(s) PROVE PairInv'
  <2>0. status[s] = "Rendering"
    BY <1>7 DEF ClientShow, MayShow, Ended, Inv, ClientInv, CallStatus
  <2>a. ASSUME UNCHANGED <<srcReady, dstReady>>, DonePaired', NoneMarked' PROVE PairInv'
    BY <1>0, <2>a DEF PairInv, ReadyPaired
  <2>1. CASE SyncSurface(s) \/ DeriveImage(s)
    <3>1. UNCHANGED <<srcReady, dstReady, erred>>
      BY <2>1 DEF SyncSurface, DeriveImage
    <3>2. /\ Len(srcDone) >= 1 /\ Len(dstDone) >= 1
          /\ Len(srcDone') = Len(srcDone) - 1 /\ Len(dstDone') = Len(dstDone) - 1
          /\ \A i \in 1 .. Len(srcDone) - 1 : srcDone'[i] = srcDone[i + 1]
          /\ \A i \in 1 .. Len(dstDone) - 1 : dstDone'[i] = dstDone[i + 1]
      BY <1>0, <2>0, <2>1, DequeueFacts
    <3>3. Surplus' = Surplus
      BY <1>00, <3>2 DEF Surplus
    <3>4. ASSUME NEW i \in 1 .. Len(srcDone) - 1 PROVE srcDone'[i] = dstDone'[i + Surplus]
      <4>1. /\ i + 1 \in 1 .. Len(srcDone) /\ i + Surplus \in 1 .. Len(dstDone) - 1
            /\ (i + Surplus) + 1 = (i + 1) + Surplus
        BY <1>00, <3>2
      <4>2. srcDone[i + 1] = dstDone[(i + 1) + Surplus]
        BY <1>0, <4>1 DEF DonePaired
      <4>3. srcDone'[i] = srcDone[i + 1] /\ dstDone'[i + Surplus] = dstDone[(i + Surplus) + 1]
        BY <3>2, <4>1
      <4> QED BY <4>1, <4>2, <4>3
    <3>5. DonePaired'
      <4>1. \A i \in 1 .. Len(srcDone') : srcDone'[i] = dstDone'[i + Surplus']
        BY <3>2, <3>3, <3>4
      <4> QED BY <1>00, <3>3, <4>1 DEF DonePaired
    <3>6. NoneMarked'
      BY <1>0, <1>00, <3>1, <3>2, <3>3 DEF NoneMarked
    <3> QED BY <2>a, <3>1, <3>5, <3>6
  <2>2. CASE SyncSurfaceFail(s)
    <3>1. UNCHANGED <<srcReady, dstReady, erred>>
      BY <2>2 DEF SyncSurfaceFail, history
    <3>2. CASE UNCHANGED <<srcDone, dstDone>>
      BY <1>a, <3>1, <3>2
    <3>3. ASSUME erred, Len(srcDone) >= 1, Len(srcDone') = Len(srcDone) - 1, UNCHANGED dstDone,
                 \A i \in 1 .. Len(srcDone) - 1 : srcDone'[i] = srcDone[i + 1]
          PROVE  PairInv'
      <4>1. Surplus' = Surplus + 1
        BY <1>00, <3>3 DEF Surplus
      <4>2. ASSUME NEW i \in 1 .. Len(srcDone) - 1 PROVE srcDone'[i] = dstDone'[i + Surplus']
        <5>1. i + 1 \in 1 .. Len(srcDone) /\ i + Surplus' = (i + 1) + Surplus
          BY <1>00, <4>1
        <5>2. srcDone[i + 1] = dstDone[(i + 1) + Surplus]
          BY <1>0, <5>1 DEF DonePaired
        <5> QED BY <3>3, <5>1, <5>2
      <4>3. DonePaired'
        <5>1. \A i \in 1 .. Len(srcDone') : srcDone'[i] = dstDone'[i + Surplus']
          BY <3>3, <4>2
        <5> QED BY <1>00, <4>1, <5>1 DEF DonePaired
      <4> QED BY <2>a, <3>1, <3>3, <4>3 DEF NoneMarked
    <3>4. ASSUME erred, Len(srcDone) >= 1, Len(srcDone') = Len(srcDone) - 1,
                 \A i \in 1 .. Len(srcDone) - 1 : srcDone'[i] = srcDone[i + 1],
                 Len(dstDone) >= 1, Len(dstDone') = Len(dstDone) - 1,
                 \A i \in 1 .. Len(dstDone) - 1 : dstDone'[i] = dstDone[i + 1]
          PROVE  PairInv'
      <4>1. Surplus' = Surplus
        BY <1>00, <3>4 DEF Surplus
      <4>2. ASSUME NEW i \in 1 .. Len(srcDone) - 1 PROVE srcDone'[i] = dstDone'[i + Surplus]
        <5>1. /\ i + 1 \in 1 .. Len(srcDone) /\ i + Surplus \in 1 .. Len(dstDone) - 1
              /\ (i + Surplus) + 1 = (i + 1) + Surplus
          BY <1>00, <3>4
        <5>2. srcDone[i + 1] = dstDone[(i + 1) + Surplus]
          BY <1>0, <5>1 DEF DonePaired
        <5>3. srcDone'[i] = srcDone[i + 1] /\ dstDone'[i + Surplus] = dstDone[(i + Surplus) + 1]
          BY <3>4, <5>1
        <5> QED BY <5>1, <5>2, <5>3
      <4>3. DonePaired'
        <5>1. \A i \in 1 .. Len(srcDone') : srcDone'[i] = dstDone'[i + Surplus']
          BY <3>4, <4>1, <4>2
        <5> QED BY <1>00, <4>1, <5>1 DEF DonePaired
      <4> QED BY <2>a, <3>1, <3>4, <4>3 DEF NoneMarked
    <3> QED BY <2>2, <3>2, <3>3, <3>4, DequeueFailFacts
  <2>3. CASE SyncCrash(s)
    BY <1>a, <2>3 DEF SyncCrash, queueVars, history
  <2> QED BY <1>7, <2>1, <2>2, <2>3 DEF ClientShow
<1>8. ASSUME NEW s \in Surfaces, ClientDerive(s) PROVE PairInv'
  BY <1>8, <1>a DEF ClientDerive, DeriveImage
<1>9. CASE UNCHANGED vars
  BY <1>9, <1>a DEF vars, queueVars, history
<1> QED BY <1>1, <1>2, <1>3, <1>4, <1>5, <1>6, <1>7, <1>8, <1>9 DEF ClientNext

-----------------------------------------------------------------------------
(* PictureInv. *)

\* A client that begins, ends or loses a picture on a surface no buffer of which
\* is with the device disturbs no other picture.
LEMMA OtherPictures ==
  ASSUME Inv, NEW s \in Surfaces, UNCHANGED <<media, waiting, queueVars, erred>>, ~waiting,
         ~WithDevice(s), ~media => \A i \in 1 .. Len(srcDone) : srcDone[i].buf # s,
         \A t \in Surfaces \ {s} : picOf'[t] = picOf[t] /\ call'[t] = call[t],
         call'[s] \in {"open", "failed"}
  PROVE  PictureInv'
<1>0. TypeOK /\ PictureInv
  BY DEF Inv, RequestInv
<1>1. \A i \in 1 .. Len(srcReady) : srcReady[i].buf \in Surfaces \ {s}
  BY <1>0, Entries DEF WithDevice, Bitstream
<1>2. ~media => \A i \in 1 .. Len(srcDone) : srcDone[i].buf \in Surfaces \ {s}
  BY <1>0, Entries DEF Done
<1>3. EntryOwn'
  BY <1>0, <1>1 DEF PictureInv, EntryOwn, queueVars
<1>4. DoneOwn'
  BY <1>0, <1>2 DEF PictureInv, OrderInv, DoneOwn, queueVars
<1>5. ReadyInOrder'
  BY <1>0, <1>1 DEF PictureInv, OrderInv, ReadyInOrder, queueVars
<1>6. DoneInOrder'
  BY <1>0, <1>2 DEF PictureInv, OrderInv, DoneInOrder, queueVars
<1>7. DoneBeforeReady'
  BY <1>0, <1>1, <1>2 DEF PictureInv, OrderInv, DoneBeforeReady, queueVars
<1>8. Decoded'
  <2>1. SUFFICES ASSUME NEW t \in Surfaces, picOf'[t] # 0, call'[t] \in {"none", "ended"}
                 PROVE  Right(t)' \/ (~media' /\ call'[t] = "ended" /\ WithDevice(t)')
    BY DEF Decoded
  <2>2. t # s
    BY <2>1
  <2>3. Right(t) \/ (~media /\ call[t] = "ended" /\ WithDevice(t))
    BY <1>0, <2>1, <2>2 DEF PictureInv, Decoded
  <2> QED BY <2>2, <2>3 DEF Right, WithDevice, queueVars
<1>9. CompleteIsRight'
  BY DEF CompleteIsRight
<1> QED BY <1>3, <1>4, <1>5, <1>6, <1>7, <1>8, <1>9 DEF PictureInv, OrderInv

\* Steps that only take buffers back that are done.
LEMMA TakenBack ==
  ASSUME Inv, UNCHANGED <<media, waiting, target, request, reqState, srcReady, content, picOf, call, erred>>,
         \/ UNCHANGED srcDone
         \/ /\ Len(srcDone) >= 1 /\ Len(srcDone') = Len(srcDone) - 1
            /\ \A i \in 1 .. Len(srcDone) - 1 : srcDone'[i] = srcDone[i + 1]
  PROVE  PictureInv'
<1>0. PictureInv /\ Len(srcDone) \in Nat
  BY Entries DEF Inv, RequestInv
<1>1. EntryOwn' /\ ReadyInOrder' /\ Decoded' /\ CompleteIsRight'
  BY <1>0 DEF PictureInv, OrderInv, EntryOwn, ReadyInOrder, Decoded, CompleteIsRight, Right, WithDevice
<1>2. CASE UNCHANGED srcDone
  BY <1>0, <1>1, <1>2 DEF PictureInv, OrderInv, DoneOwn, DoneInOrder, DoneBeforeReady
<1>3. CASE ~UNCHANGED srcDone
  <2>1. /\ Len(srcDone') = Len(srcDone) - 1
        /\ \A i \in 1 .. Len(srcDone) - 1 : srcDone'[i] = srcDone[i + 1] /\ i + 1 \in 1 .. Len(srcDone)
        /\ \A i, j \in 1 .. Len(srcDone) - 1 : i < j => i + 1 < j + 1
    BY <1>0, <1>3
  <2>2. DoneOwn'
    BY <1>0, <2>1 DEF PictureInv, OrderInv, DoneOwn
  <2>3. DoneInOrder'
    BY <1>0, <2>1 DEF PictureInv, OrderInv, DoneInOrder
  <2>4. DoneBeforeReady'
    BY <1>0, <2>1 DEF PictureInv, OrderInv, DoneBeforeReady
  <2> QED BY <1>0, <1>1, <2>2, <2>3, <2>4 DEF PictureInv, OrderInv
<1> QED BY <1>2, <1>3

\* A surface is synchronised when its own buffer was decoded.  Without requests
\* this is what the client's order is for: the buffer that is handed out is of no
\* earlier picture, and none of a later one is behind.
LEMMA ShownIsDecoded ==
  ASSUME Inv, NEW s \in Surfaces, MayShow(s), Len(srcDone) >= 1
  PROVE  /\ ~WithDevice(s)
         /\ ~media => \A i \in 1 .. Len(srcDone) - 1 : srcDone[i + 1].buf # s
<1>0. TypeOK /\ PictureInv /\ Len(srcDone) \in Nat /\ 1 \in 1 .. Len(srcDone)
  BY Entries DEF Inv, RequestInv
<1>1. call[s] = "ended"
  BY DEF MayShow, Ended
<1>2. CASE media
  <2>1. ASSUME NEW i \in 1 .. Len(srcReady), srcReady[i].buf = s PROVE FALSE
    BY <1>0, <1>1, <1>2, <2>1 DEF PictureInv, EntryOwn, Inv, ClientInv, WaitIsOpen
  <2> QED BY <1>2, <2>1 DEF WithDevice
<1>3. CASE ~media
  <2> DEFINE h == srcDone[1].buf
  <2>1. h \in Surfaces /\ call[h] = "ended"
    BY <1>0, <1>3, Entries DEF PictureInv, OrderInv, DoneOwn, Done
  <2>2. picOf[s] <= picOf[h]
    BY <1>3, <2>1 DEF MayShow, Ended
  <2>3. picOf[s] \in Nat /\ \A t \in Surfaces : picOf[t] \in Nat
    BY <1>0 DEF TypeOK, HistoryTypeOK, Marks
  <2>4. ASSUME NEW i \in 1 .. Len(srcReady), srcReady[i].buf = s PROVE FALSE
    <3>1. picOf[h] < picOf[s]
      BY <1>0, <1>3, <2>4 DEF PictureInv, OrderInv, DoneBeforeReady
    <3> QED BY <2>1, <2>2, <2>3, <3>1
  <2>5. ASSUME NEW i \in 1 .. Len(srcDone) - 1, srcDone[i + 1].buf = s PROVE FALSE
    <3>1. i + 1 \in 1 .. Len(srcDone) /\ 1 < i + 1
      BY <1>0
    <3>2. picOf[h] < picOf[s]
      BY <1>0, <1>3, <2>5, <3>1 DEF PictureInv, OrderInv, DoneInOrder
    <3> QED BY <2>1, <2>2, <2>3, <3>2
  <2> QED BY <2>4, <2>5 DEF WithDevice
<1> QED BY <1>2, <1>3

\* The device decodes a picture into its own surface.
LEMMA DecodePicture == ASSUME Inv, Decode PROVE PictureInv'
<1>0. /\ TypeOK /\ RequestInFlight /\ PictureInv
      /\ Len(srcReady) \in Nat /\ srcDone \in Seq(Done)
      /\ content \in [Surfaces -> SUBSET Marks]
  BY Entries DEF Inv, RequestInv, TypeOK, KernelTypeOK
<1>1. PICK err \in BOOLEAN, b \in Surfaces :
        /\ 1 \in 1 .. Len(srcReady) /\ b = srcReady[1].buf
        /\ Len(srcReady') = Len(srcReady) - 1
        /\ \A i \in 1 .. Len(srcReady) - 1 : srcReady'[i] = srcReady[i + 1]
        /\ srcDone' = Append(srcDone, [buf |-> b, err |-> err])
        /\ content' = [content EXCEPT ![b] = IF err THEN {} ELSE {picOf[b]}]
        /\ \A fd \in Fds : reqState'[fd] = IF fd = srcReady[1].fd THEN "complete" ELSE reqState[fd]
        /\ erred' = (erred \/ err)
        /\ UNCHANGED <<driverVars, pictures, picOf, call>>
  BY DecodeFacts
<1>2. UNCHANGED <<media, waiting, target, request, picOf, call>>
  BY <1>1 DEF driverVars
<1>3. /\ \A i \in 1 .. Len(srcReady') : srcReady'[i] = srcReady[i + 1] /\ i + 1 \in 1 .. Len(srcReady)
      /\ \A i, j \in 1 .. Len(srcReady') : i < j => i + 1 < j + 1
      /\ \A i \in 1 .. Len(srcReady') : 1 < i + 1
  BY <1>0, <1>1
<1>4. /\ Len(srcDone) \in Nat /\ Len(srcDone') = Len(srcDone) + 1
      /\ \A i \in 1 .. Len(srcDone) : srcDone'[i] = srcDone[i]
      /\ srcDone'[Len(srcDone) + 1].buf = b
  <2>1. [buf |-> b, err |-> err] \in Done
    BY <1>1 DEF Done
  <2>2. srcDone'[Len(srcDone) + 1] = [buf |-> b, err |-> err]
    BY <1>0, <1>1, <2>1, AppendProperties
  <2> QED BY <1>0, <1>1, <2>1, <2>2, AppendProperties
<1>5. \A i \in 1 .. Len(srcDone') : i \in 1 .. Len(srcDone) \/ i = Len(srcDone) + 1
  BY <1>4
<1>6. Right(b)' /\ \A t \in Surfaces : t # b /\ Right(t) => Right(t)'
  <2>1. /\ content'[b] = IF err THEN {} ELSE {picOf[b]}
        /\ \A t \in Surfaces : t # b => content'[t] = content[t]
    BY <1>0, <1>1
  <2>2. Right(b)'
    <3>1. CASE err
      <4>1. erred' = (erred \/ err)
        BY <1>1
      <4>2. erred' /\ content'[b] = {}
        BY <2>1, <3>1, <4>1
      <4> QED BY <4>2 DEF Right
    <3>2. CASE ~err
      BY <1>2, <2>1, <3>2 DEF Right
    <3> QED BY <3>1, <3>2
  <2>3. \A t \in Surfaces : t # b /\ Right(t) => Right(t)'
    BY <1>1, <1>2, <2>1 DEF Right
  <2> QED BY <2>2, <2>3
<1>7. EntryOwn'
  BY <1>0, <1>2, <1>3 DEF PictureInv, EntryOwn
<1>8. ReadyInOrder'
  BY <1>0, <1>2, <1>3 DEF PictureInv, OrderInv, ReadyInOrder
<1>9. DoneOwn'
  <2>1. ~media => call[b] = "ended"
    BY <1>0, <1>1 DEF PictureInv, EntryOwn
  <2> QED BY <1>0, <1>2, <1>4, <1>5, <2>1 DEF PictureInv, OrderInv, DoneOwn
<1>10. DoneInOrder'
  <2>1. SUFFICES ASSUME ~media, NEW i \in 1 .. Len(srcDone'), NEW j \in 1 .. Len(srcDone'), i < j
                 PROVE  picOf[srcDone'[i].buf] < picOf[srcDone'[j].buf]
    BY <1>2 DEF DoneInOrder
  <2>2. i \in 1 .. Len(srcDone)
    BY <1>4, <2>1
  <2>3. CASE j \in 1 .. Len(srcDone)
    BY <1>0, <1>4, <2>1, <2>2, <2>3 DEF PictureInv, OrderInv, DoneInOrder
  <2>4. CASE j = Len(srcDone) + 1
    BY <1>0, <1>1, <1>4, <2>1, <2>2, <2>4 DEF PictureInv, OrderInv, DoneBeforeReady
  <2> QED BY <1>5, <2>3, <2>4
<1>11. DoneBeforeReady'
  <2>1. SUFFICES ASSUME ~media, NEW i \in 1 .. Len(srcDone'), NEW j \in 1 .. Len(srcReady')
                 PROVE  picOf[srcDone'[i].buf] < picOf[srcReady'[j].buf]
    BY <1>2 DEF DoneBeforeReady
  <2>2. srcReady'[j] = srcReady[j + 1] /\ j + 1 \in 1 .. Len(srcReady) /\ 1 < j + 1
    BY <1>3
  <2>3. CASE i \in 1 .. Len(srcDone)
    BY <1>0, <1>4, <2>1, <2>2, <2>3 DEF PictureInv, OrderInv, DoneBeforeReady
  <2>4. CASE i = Len(srcDone) + 1
    BY <1>0, <1>1, <1>4, <2>1, <2>2, <2>4 DEF PictureInv, OrderInv, ReadyInOrder
  <2> QED BY <1>5, <2>3, <2>4
<1>12. Decoded'
  <2>1. SUFFICES ASSUME NEW t \in Surfaces, t # b, picOf[t] # 0, call[t] \in {"none", "ended"}
                 PROVE  Right(t)' \/ (~media /\ call[t] = "ended" /\ WithDevice(t)')
    BY <1>2, <1>6 DEF Decoded
  <2>2. CASE Right(t)
    BY <1>6, <2>1, <2>2
  <2>3. ASSUME ~media, call[t] = "ended", NEW i \in 1 .. Len(srcReady), srcReady[i].buf = t
        PROVE  WithDevice(t)'
    <3>1. i # 1
      BY <1>1, <2>1, <2>3
    <3>2. i - 1 \in 1 .. Len(srcReady') /\ (i - 1) + 1 = i
      BY <1>0, <1>1, <3>1
    <3>3. srcReady'[i - 1].buf = t
      BY <1>3, <2>3, <3>2
    <3> QED BY <3>2, <3>3 DEF WithDevice
  <2> QED BY <1>0, <2>1, <2>2, <2>3 DEF PictureInv, Decoded, WithDevice
<1>13. CompleteIsRight'
  <2>1. SUFFICES ASSUME waiting, reqState'[request[target]] = "complete"
                 PROVE  Right(target)'
    BY <1>2 DEF CompleteIsRight
  <2>2. target \in Surfaces /\ request[target] \in Fds /\ NoFd \notin Fds
    BY <1>0, <2>1, FdPositive DEF RequestInFlight, WaitsForOwn, TypeOK, DriverTypeOK
  <2>3. CASE request[target] = srcReady[1].fd
    <3>1. b = target'
      BY <1>0, <1>1, <1>2, <2>2, <2>3 DEF RequestInFlight, EntryIsTarget
    <3> QED BY <1>6, <3>1 DEF Right
  <2>4. CASE request[target] # srcReady[1].fd
    <3>1. reqState[request[target]] = "complete"
      BY <1>1, <2>1, <2>2, <2>4
    <3>2. Right(target)
      BY <1>0, <2>1, <3>1 DEF PictureInv, CompleteIsRight
    <3>3. Right(target)' <=> \E t \in Surfaces : t = target /\ Right(t)'
      BY <1>2, <2>2 DEF Right
    <3> QED BY <1>6, <2>2, <3>2, <3>3
  <2> QED BY <2>3, <2>4
<1> QED BY <1>7, <1>8, <1>9, <1>10, <1>11, <1>12, <1>13 DEF PictureInv, OrderInv

\* A picture is queued behind every earlier one.
LEMMA QueuePicture ==
  ASSUME Inv, NEW s \in Surfaces, call[s] = "open", ~waiting, source[s] = {picOf[s]},
         EndPictureQueued(s)
  PROVE  PictureInv'
<1>0. TypeOK /\ PictureInv /\ ClientInv /\ Len(srcReady) \in Nat
  BY Entries DEF Inv, RequestInv
<1>1. ~media
  BY <1>0, FdPositive DEF EndPictureQueued, Ending, RequestFor
<1>2. /\ Len(srcReady') = Len(srcReady) + 1
      /\ \A i \in 1 .. Len(srcReady) : srcReady'[i] = srcReady[i]
      /\ srcReady'[Len(srcReady) + 1] = [buf |-> s, fd |-> NoFd, data |-> source[s]]
  BY <1>0, QueueBothFacts DEF EndPictureQueued
<1>3. /\ UNCHANGED <<media, waiting, srcDone, content, picOf, erred>>
      /\ call' = [call EXCEPT ![s] = "ended"]
  BY DEF EndPictureQueued, FinishPicture
<1>4. call'[s] = "ended" /\ \A t \in Surfaces : t # s => call'[t] = call[t]
  BY <1>0, <1>3 DEF TypeOK, HistoryTypeOK
<1>5. \A i \in 1 .. Len(srcReady') : i \in 1 .. Len(srcReady) \/ i = Len(srcReady) + 1
  BY <1>0, <1>2
<1>6. /\ srcReady'[Len(srcReady) + 1].buf = s
      /\ srcReady'[Len(srcReady) + 1].data = {picOf[s]}
  BY <1>2
<1>7. \A i \in 1 .. Len(srcReady) : srcReady[i].buf \in Surfaces \ {s} /\ call[srcReady[i].buf] = "ended"
  BY <1>0, <1>1, Entries DEF PictureInv, EntryOwn, Bitstream
<1>8. \A i \in 1 .. Len(srcDone) : srcDone[i].buf \in Surfaces \ {s} /\ call[srcDone[i].buf] = "ended"
  BY <1>0, <1>1, Entries DEF PictureInv, OrderInv, DoneOwn, Done
<1>9. ASSUME NEW t \in Surfaces, t # s, call[t] = "ended" PROVE picOf[t] < picOf[s]
  <2>1. picOf[s] = pictures /\ picOf[t] <= pictures /\ picOf[t] # 0
    BY <1>0, <1>9 DEF ClientInv, OpenIsTarget, Numbered
  <2>2. picOf[t] # picOf[s]
    BY <1>0, <1>9, <2>1 DEF ClientInv, Numbered
  <2> QED BY <1>0, <2>1, <2>2 DEF TypeOK, HistoryTypeOK, Marks
<1>10. EntryOwn'
  <2>1. SUFFICES ASSUME NEW i \in 1 .. Len(srcReady')
                 PROVE  /\ srcReady'[i].data = {picOf[srcReady'[i].buf]}
                        /\ call'[srcReady'[i].buf] = "ended"
    BY <1>1, <1>3 DEF EntryOwn
  <2>2. CASE i \in 1 .. Len(srcReady)
    BY <1>0, <1>2, <1>4, <1>7, <2>2 DEF PictureInv, EntryOwn
  <2>3. CASE i = Len(srcReady) + 1
    BY <1>4, <1>6, <2>3
  <2> QED BY <1>5, <2>2, <2>3
<1>11. DoneOwn'
  BY <1>3, <1>4, <1>8 DEF DoneOwn
<1>12. ReadyInOrder'
  <2>1. SUFFICES ASSUME NEW i \in 1 .. Len(srcReady'), NEW j \in 1 .. Len(srcReady'), i < j
                 PROVE  picOf[srcReady'[i].buf] < picOf[srcReady'[j].buf]
    BY <1>3 DEF ReadyInOrder
  <2>2. i \in 1 .. Len(srcReady)
    BY <1>0, <1>2, <2>1
  <2>3. CASE j \in 1 .. Len(srcReady)
    BY <1>0, <1>1, <1>2, <2>1, <2>2, <2>3 DEF PictureInv, OrderInv, ReadyInOrder
  <2>4. CASE j = Len(srcReady) + 1
    BY <1>2, <1>6, <1>7, <1>9, <2>2, <2>4
  <2> QED BY <1>5, <2>3, <2>4
<1>13. DoneInOrder'
  BY <1>0, <1>3 DEF PictureInv, OrderInv, DoneInOrder
<1>14. DoneBeforeReady'
  <2>1. SUFFICES ASSUME NEW i \in 1 .. Len(srcDone), NEW j \in 1 .. Len(srcReady')
                 PROVE  picOf[srcDone[i].buf] < picOf[srcReady'[j].buf]
    BY <1>3 DEF DoneBeforeReady
  <2>2. CASE j \in 1 .. Len(srcReady)
    BY <1>0, <1>1, <1>2, <2>1, <2>2 DEF PictureInv, OrderInv, DoneBeforeReady
  <2>3. CASE j = Len(srcReady) + 1
    BY <1>6, <1>8, <1>9, <2>3
  <2> QED BY <1>5, <2>2, <2>3
<1>15. Decoded'
  <2>1. SUFFICES ASSUME NEW t \in Surfaces, picOf[t] # 0, call'[t] \in {"none", "ended"}
                 PROVE  Right(t)' \/ (call'[t] = "ended" /\ WithDevice(t)')
    BY <1>1, <1>3 DEF Decoded
  <2>2. CASE t = s
    <3>1. Len(srcReady) + 1 \in 1 .. Len(srcReady')
      BY <1>0, <1>2
    <3> QED BY <1>4, <1>6, <2>2, <3>1 DEF WithDevice
  <2>3. CASE t # s
    <3>1. Right(t) \/ (call[t] = "ended" /\ WithDevice(t))
      BY <1>0, <1>4, <2>1, <2>3 DEF PictureInv, Decoded
    <3>2. WithDevice(t) => WithDevice(t)'
      BY <1>0, <1>2 DEF WithDevice
    <3> QED BY <1>3, <1>4, <2>3, <3>1, <3>2 DEF Right
  <2> QED BY <2>2, <2>3
<1>16. CompleteIsRight'
  BY <1>3 DEF CompleteIsRight
<1> QED BY <1>10, <1>11, <1>12, <1>13, <1>14, <1>15, <1>16 DEF PictureInv, OrderInv

\* A picture is submitted with a request, and waited for.
LEMMA SubmitPicture ==
  ASSUME Inv, NEW s \in Surfaces, target = s, ~waiting, source[s] = {picOf[s]},
         NEW fd \in Fds, EndPictureSubmit(s, fd)
  PROVE  PictureInv'
<1>0. TypeOK /\ PictureInv /\ ClientInv /\ Len(srcReady) \in Nat /\ fd # NoFd
  BY Entries, FdPositive DEF Inv, RequestInv
<1>1. media
  BY <1>0 DEF EndPictureSubmit, Ending, RequestFor, ClientInv, NoRequests
<1>2. /\ Len(srcReady') = Len(srcReady) + 1
      /\ \A i \in 1 .. Len(srcReady) : srcReady'[i] = srcReady[i]
      /\ srcReady'[Len(srcReady) + 1] = [buf |-> s, fd |-> fd, data |-> source[s]]
  BY <1>0, QueueBothFacts DEF EndPictureSubmit
<1>3. /\ UNCHANGED <<media, target, content, picOf, erred, call>> /\ waiting'
      /\ request'[s] = fd /\ reqState'[fd] = "queued"
  BY <1>0 DEF EndPictureSubmit, history, TypeOK, DriverTypeOK, KernelTypeOK
<1>4. EntryOwn'
  <2>1. SUFFICES ASSUME NEW i \in 1 .. Len(srcReady')
                 PROVE  /\ srcReady'[i].data = {picOf[srcReady'[i].buf]}
                        /\ \/ call[srcReady'[i].buf] = "failed"
                           \/ srcReady'[i].buf = s /\ srcReady'[i].fd # NoFd
    BY <1>1, <1>3 DEF EntryOwn
  <2>2. CASE i \in 1 .. Len(srcReady)
    BY <1>0, <1>1, <1>2, <2>2 DEF PictureInv, EntryOwn
  <2>3. CASE i = Len(srcReady) + 1
    BY <1>0, <1>2, <2>3
  <2> QED BY <1>0, <1>2, <2>2, <2>3
<1>5. OrderInv'
  BY <1>1, <1>3 DEF OrderInv, DoneOwn, ReadyInOrder, DoneInOrder, DoneBeforeReady
<1>6. Decoded'
  BY <1>0, <1>1, <1>3 DEF PictureInv, Decoded, Right
<1>7. CompleteIsRight'
  BY <1>3 DEF CompleteIsRight
<1> QED BY <1>4, <1>5, <1>6, <1>7 DEF PictureInv

\* What is waited for was decoded when the request is complete, and is left with
\* the device when it is not.
LEMMA WaitPicture ==
  ASSUME Inv, WaitCompletion \/ WaitFail
  PROVE  PictureInv'
<1>0. TypeOK /\ RequestInFlight /\ PictureInv /\ ClientInv /\ Len(srcReady) \in Nat /\ waiting
  BY Entries DEF Inv, RequestInv, WaitCompletion, WaitFail
<1>1. target \in Surfaces /\ request[target] # NoFd /\ media /\ call[target] = "open"
  BY <1>0 DEF RequestInFlight, WaitsForOwn, ClientInv, NoRequests, WaitIsOpen, TypeOK, DriverTypeOK
<1>2. UNCHANGED <<media, content, picOf, erred, srcDone>> /\ ~waiting'
  BY DEF WaitCompletion, WaitFail, queueVars
<1>3. OrderInv' /\ CompleteIsRight'
  BY <1>1, <1>2 DEF OrderInv, DoneOwn, ReadyInOrder, DoneInOrder, DoneBeforeReady, CompleteIsRight
<1>4. call \in [Surfaces -> {"none", "open", "failed", "ended"}]
  BY <1>0 DEF TypeOK, HistoryTypeOK
<1>5. \A i \in 1 .. Len(srcReady) : srcReady[i].buf \in Surfaces
  BY <1>0, Entries DEF Bitstream
<1>6. CASE WaitCompletion
  <2>1. reqState[request[target]] = "complete" /\ call' = [call EXCEPT ![target] = "ended"]
        /\ UNCHANGED srcReady
    BY <1>6 DEF WaitCompletion, FinishPicture, queueVars
  <2>2. \A i \in 1 .. Len(srcReady) : srcReady[i].fd = NoFd
    BY <1>0, <2>1 DEF RequestInFlight, EntryUntilComplete
  <2>3. \A i \in 1 .. Len(srcReady) : call[srcReady[i].buf] = "failed"
    BY <1>0, <1>1, <2>2 DEF PictureInv, EntryOwn
  <2>4. EntryOwn'
    BY <1>0, <1>1, <1>2, <1>4, <1>5, <2>1, <2>3 DEF PictureInv, EntryOwn
  <2>5. Right(target)
    BY <1>0, <2>1 DEF PictureInv, CompleteIsRight
  <2>6. Decoded'
    BY <1>0, <1>1, <1>2, <1>4, <2>1, <2>5 DEF PictureInv, Decoded, Right
  <2> QED BY <1>3, <2>4, <2>6 DEF PictureInv
<1>7. CASE WaitFail
  <2>1. srcReady' = Orphan(request[target]) /\ call' = [call EXCEPT ![target] = "failed"]
    BY <1>7 DEF WaitFail, Failed
  <2>2. /\ Len(srcReady') = Len(srcReady)
        /\ \A i \in 1 .. Len(srcReady) :
             srcReady'[i].buf = srcReady[i].buf /\ srcReady'[i].data = srcReady[i].data
    BY <1>0, <2>1, OrphanKeeps
  <2>3. EntryOwn'
    BY <1>0, <1>1, <1>2, <1>4, <1>5, <2>1, <2>2 DEF PictureInv, EntryOwn
  <2>4. Decoded'
    BY <1>0, <1>1, <1>2, <1>4, <2>1 DEF PictureInv, Decoded, Right
  <2> QED BY <1>3, <2>3, <2>4 DEF PictureInv
<1> QED BY <1>6, <1>7

\* A surface is given back when its picture is in its buffer.
LEMMA ShowPicture ==
  ASSUME Inv, NEW s \in Surfaces, MayShow(s),
         SyncSurface(s) \/ (DeriveImage(s) /\ status[s] = "Rendering")
  PROVE  PictureInv' /\ (picOf[s] # 0 => Right(s))
<1>0. /\ TypeOK /\ PictureInv /\ Len(srcDone) \in Nat
      /\ call \in [Surfaces -> {"none", "open", "failed", "ended"}]
  BY Entries DEF Inv, RequestInv, TypeOK, HistoryTypeOK
<1>1. call[s] = "ended" /\ call' = [call EXCEPT ![s] = "none"]
  BY DEF MayShow, Ended, SyncSurface, DeriveImage
<1>2. UNCHANGED <<media, waiting, target, request, reqState, srcReady, content, picOf, erred>>
  BY DEF SyncSurface, DeriveImage
<1>3. /\ Len(srcDone) >= 1 /\ Len(srcDone') = Len(srcDone) - 1
      /\ \A i \in 1 .. Len(srcDone) - 1 : srcDone'[i] = srcDone[i + 1]
  BY <1>0, DequeueFacts
<1>4. /\ ~WithDevice(s)
      /\ ~media => \A i \in 1 .. Len(srcDone) - 1 : srcDone[i + 1].buf # s
  BY <1>3, ShownIsDecoded
<1>5. picOf[s] # 0 => Right(s)
  BY <1>0, <1>1, <1>4 DEF PictureInv, Decoded
<1>6. /\ \A i \in 1 .. Len(srcDone) - 1 : i + 1 \in 1 .. Len(srcDone)
      /\ \A i, j \in 1 .. Len(srcDone) - 1 : i < j => i + 1 < j + 1
  BY <1>0
<1>7. EntryOwn'
  <2>1. \A i \in 1 .. Len(srcReady) : srcReady[i].buf \in Surfaces \ {s}
    BY <1>0, <1>4, Entries DEF WithDevice, Bitstream
  <2> QED BY <1>0, <1>1, <1>2, <2>1 DEF PictureInv, EntryOwn
<1>8. DoneOwn'
  <2>1. ASSUME ~media, NEW i \in 1 .. Len(srcDone) - 1 PROVE call'[srcDone'[i].buf] = "ended"
    <3>1. srcDone[i + 1].buf \in Surfaces \ {s} /\ call[srcDone[i + 1].buf] = "ended"
      BY <1>0, <1>4, <1>6, <2>1, Entries DEF PictureInv, OrderInv, DoneOwn, Done
    <3> QED BY <1>0, <1>1, <1>3, <3>1
  <2> QED BY <1>2, <1>3, <2>1 DEF DoneOwn
<1>9. ReadyInOrder' /\ CompleteIsRight'
  BY <1>0, <1>2 DEF PictureInv, OrderInv, ReadyInOrder, CompleteIsRight, Right
<1>10. DoneInOrder'
  BY <1>0, <1>2, <1>3, <1>6 DEF PictureInv, OrderInv, DoneInOrder
<1>11. DoneBeforeReady'
  BY <1>0, <1>2, <1>3, <1>6 DEF PictureInv, OrderInv, DoneBeforeReady
<1>12. Decoded'
  <2>1. SUFFICES ASSUME NEW t \in Surfaces, picOf[t] # 0, call'[t] \in {"none", "ended"}
                 PROVE  Right(t) \/ (~media /\ call'[t] = "ended" /\ WithDevice(t))
    BY <1>2 DEF Decoded, Right, WithDevice
  <2> QED BY <1>0, <1>1, <1>5, <2>1 DEF PictureInv, Decoded
<1> QED BY <1>5, <1>7, <1>8, <1>9, <1>10, <1>11, <1>12 DEF PictureInv, OrderInv

\* No step of the client or the device loses sight of a picture.
LEMMA PictureStep == Inv /\ [ClientNext]_vars => PictureInv'
<1> SUFFICES ASSUME Inv, [ClientNext]_vars PROVE PictureInv'
  OBVIOUS
<1>0. TypeOK /\ ClientInv /\ PictureInv
  BY DEF Inv, RequestInv
<1>00. /\ picOf \in [Surfaces -> Marks]
       /\ call \in [Surfaces -> {"none", "open", "failed", "ended"}]
  BY <1>0 DEF TypeOK, HistoryTypeOK
<1>a. ASSUME UNCHANGED <<media, waiting, target, request, reqState, queueVars, picOf, call, erred>>
      PROVE  PictureInv'
  BY <1>a, TakenBack DEF queueVars
<1>1. ASSUME NEW s \in Surfaces, ClientBegin(s) PROVE PictureInv'
  <2>1. call[s] = "none" /\ ~waiting
    BY <1>0, <1>00, <1>1 DEF ClientBegin, BeginPicture, ClientInv, CallStatus
  <2>2. ~WithDevice(s) /\ (~media => \A i \in 1 .. Len(srcDone) : srcDone[i].buf # s)
    BY <1>0, <2>1 DEF PictureInv, EntryOwn, OrderInv, DoneOwn, WithDevice, TypeOK, DriverTypeOK
  <2>3. /\ UNCHANGED <<media, waiting, queueVars, erred>>
        /\ picOf' = [picOf EXCEPT ![s] = pictures + 1] /\ call' = [call EXCEPT ![s] = "open"]
    BY <1>1 DEF ClientBegin, BeginPicture
  <2>4. /\ \A t \in Surfaces \ {s} : picOf'[t] = picOf[t] /\ call'[t] = call[t]
        /\ call'[s] = "open"
    BY <1>00, <2>3
  <2> QED BY <2>1, <2>2, <2>3, <2>4, OtherPictures
<1>2. CASE ClientRender
  <2>1. PICK s \in Surfaces : call[s] = "open"
    BY <1>2 DEF ClientRender
  <2>2. target = s
    BY <1>0, <2>1 DEF ClientInv, OpenIsTarget
  <2>3. UNCHANGED <<media, waiting, target, request, reqState, queueVars, picOf, call, erred>>
    BY <1>0, <1>2, <2>1, <2>2, WrittenSame, OpenNotQueued
       DEF ClientRender, RenderParameter, RenderSlice, queueVars, history
  <2> QED BY <1>a, <2>3
<1>3. ASSUME NEW s \in Surfaces, ClientEnd(s) PROVE PictureInv'
  <2>1. call[s] = "open" /\ target = s /\ ~waiting /\ source[s] = {picOf[s]}
    BY <1>3, EndCases
  <2>2. ASSUME Failed(s),
               UNCHANGED <<media, target, waiting, queueVars, pictures, picOf, erred>>
        PROVE  PictureInv'
    <3>1. ~media => \A i \in 1 .. Len(srcDone) : srcDone[i].buf # s
      BY <1>0, <2>1 DEF PictureInv, OrderInv, DoneOwn
    <3>2. /\ \A t \in Surfaces \ {s} : picOf'[t] = picOf[t] /\ call'[t] = call[t]
          /\ call'[s] = "failed"
      BY <1>00, <2>2 DEF Failed
    <3> QED BY <2>1, <2>2, <3>1, <3>2, OtherPictures, OpenNotQueued
  <2>3. ASSUME NEW fd \in Fds, EndPictureSubmit(s, fd) PROVE PictureInv'
    BY <2>1, <2>3, SubmitPicture
  <2>4. CASE EndPictureQueued(s)
    BY <2>1, <2>4, QueuePicture
  <2>5. CASE EndPictureCrash
    BY <1>a, <2>5 DEF EndPictureCrash, history
  <2> QED BY <1>3, <2>2, <2>3, <2>4, <2>5, EndCases
<1>4. CASE WaitCompletion \/ WaitFail
  BY <1>4, WaitPicture
<1>5. CASE Decode
  BY <1>5, DecodePicture
<1>6. ASSUME NEW s \in Surfaces, ClientShow(s) PROVE PictureInv'
  <2>1. MayShow(s) /\ status[s] = "Rendering"
    BY <1>0, <1>6 DEF ClientShow, MayShow, Ended, ClientInv, CallStatus
  <2>2. CASE SyncSurface(s) \/ DeriveImage(s)
    BY <2>1, <2>2, ShowPicture
  <2>3. CASE SyncSurfaceFail(s)
    <3>1. UNCHANGED <<media, waiting, target, request, reqState, srcReady, content, picOf, call, erred>>
      BY <2>3 DEF SyncSurfaceFail, driverVars, history
    <3> QED BY <2>3, <3>1, TakenBack, DequeueFailFacts
  <2>4. CASE SyncCrash(s)
    BY <1>a, <2>4 DEF SyncCrash, history
  <2> QED BY <1>6, <2>2, <2>3, <2>4 DEF ClientShow
<1>7. ASSUME NEW s \in Surfaces, ClientDerive(s) PROVE PictureInv'
  <2>1. call[s] = "none" /\ status[s] # "Rendering"
    BY <1>0, <1>7 DEF ClientDerive, ClientInv, CallStatus
  <2>2. /\ UNCHANGED <<media, waiting, target, request, reqState, queueVars, picOf, erred>>
        /\ call' = [call EXCEPT ![s] = "none"]
    BY <1>7, <2>1 DEF ClientDerive, DeriveImage, queueVars
  <2>3. call' = call
    BY <1>00, <2>1, <2>2
  <2> QED BY <1>a, <2>2, <2>3
<1>8. CASE UNCHANGED vars
  BY <1>8, <1>a DEF vars, driverVars, history
<1> QED BY <1>1, <1>2, <1>3, <1>4, <1>5, <1>6, <1>7, <1>8 DEF ClientNext

-----------------------------------------------------------------------------
(* Theorems. *)

\* The parts are inductive together.  What a surface holds depends on the pairs
\* of buffers, and the pairs on no buffer being rendered to while it is queued.
LEMMA InvInit == QueuedInPairs /\ Init => Inv
<1>1. Init => PairInv
  BY DEF Init, PairInv, ReadyPaired, DonePaired, NoneMarked, Surplus
<1>2. Init => PictureInv
  BY DEF Init, PictureInv, EntryOwn, OrderInv, DoneOwn, ReadyInOrder, DoneInOrder,
         DoneBeforeReady, Decoded, CompleteIsRight
<1> QED BY <1>1, <1>2, TypeInit, RequestInit, ClientInit DEF Inv, RequestInv

LEMMA InvStep == Inv /\ [ClientNext]_vars => Inv'
BY RequestInvStep, ClientStep, PairStep, PictureStep DEF Inv

LEMMA Invariant == ASSUME QueuedInPairs PROVE ClientSpec => []Inv
<1>1. Init => Inv
  BY InvInit
<1> QED BY <1>1, InvStep, PTL DEF ClientSpec

\* A surface that was given back holds its own picture, for any number of surfaces
\* and pictures: after timeouts, after pictures that were marked and after submissions
\* that were refused before the destination buffer was queued.  Not after one whose
\* source buffer or request was refused (picture.cc:128, 138): then it is false.
THEOREM SurfacesHoldTheirPicture ==
  ASSUME QueuedInPairs
  PROVE  ClientSpec => []OwnPicture
<1>1. Inv => OwnPicture
  <2> SUFFICES ASSUME Inv, NEW s \in Surfaces, status[s] # "Rendering", picOf[s] # 0
               PROVE  content[s] \subseteq {picOf[s]} /\ (erred \/ content[s] # {})
    BY DEF OwnPicture
  <2>1. call[s] = "none"
    BY DEF Inv, ClientInv, CallStatus
  <2>2. Right(s)
    BY <2>1 DEF Inv, PictureInv, Decoded
  <2> QED BY <2>2 DEF Right
<1>2. ClientSpec => []Inv
  BY Invariant
<1> QED BY <1>1, <1>2, PTL

-----------------------------------------------------------------------------
(* No call fails without a reason. *)

\* The destination is free when the source is, as long as no buffer was marked.
LEMMA DestinationFree ==
  ASSUME Inv, NEW s \in Surfaces, call[s] = "open", ~waiting, ~media, ~erred
  PROVE  ~InDst(s)
<1>0. TypeOK /\ ReadyPaired /\ DonePaired /\ NoneMarked /\ DoneOwn
  BY DEF Inv, RequestInv, PairInv, PictureInv, OrderInv
<1>1. ASSUME NEW i \in 1 .. Len(dstReady), dstReady[i] = s PROVE FALSE
  BY <1>0, <1>1, OpenNotQueued DEF ReadyPaired, WithDevice
<1>2. ASSUME NEW i \in 1 .. Len(dstDone), dstDone[i].buf = s PROVE FALSE
  <2>1. Surplus = 0 /\ Len(dstDone) = Len(srcDone)
    BY <1>0, Entries DEF NoneMarked, Surplus
  <2>2. srcDone[i] = dstDone[i + Surplus] /\ i + Surplus = i
    BY <1>0, <2>1 DEF DonePaired
  <2> QED BY <1>0, <1>2, <2>1, <2>2 DEF DoneOwn
<1> QED BY <1>1, <1>2 DEF InDst

\* The device is not exchanged, and a marked picture is not forgotten.
LEMMA MediaStays ==
  ASSUME [ClientNext]_vars
  PROVE  UNCHANGED media /\ (erred => erred')
<1>1. CASE Decode
  BY <1>1 DEF Decode, driverVars
<1>2. CASE ~Decode
  <2>1. UNCHANGED <<media, erred>>
    BY <1>2
       DEF ClientNext, ClientBegin, BeginPicture, ClientRender, RenderParameter, RenderSlice,
           ClientEnd, EndPicture, EndPictureCrash, EndPictureControlsFail, EndPictureDstFail,
           EndPictureSrcFail, EndPictureRequestFail, EndPictureSubmit, EndPictureQueued,
           WaitCompletion, WaitFail, ClientShow, SyncSurface, DeriveImage, SyncSurfaceFail,
           SyncCrash, ClientDerive, vars, driverVars, history
  <2> QED BY <2>1
<1> QED BY <1>1, <1>2

\* A device whose queues take every buffer that is free, and that marks none, refuses
\* no picture when there are no requests that could time out.  A vaSyncSurface may
\* come too early, as nothing waits for the device then, and fails; it leaves the
\* queues as they are.
THEOREM OnlyEarlySyncsFail ==
  ASSUME QueuedInPairs, "qbufDst" \notin Faults
  PROVE  ClientSpec => []OnlyEarlySyncFails
<1> DEFINE P == ~media /\ ~erred => \A s \in Surfaces : call[s] # "failed"
<1>0. ClientSpec => []Inv
  BY Invariant
<1>1. Init => P
  BY DEF Init
<1>2. Inv /\ P /\ [ClientNext]_vars => P'
  <2> SUFFICES ASSUME Inv, P, [ClientNext]_vars, ~media', ~erred'
               PROVE  \A s \in Surfaces : call'[s] # "failed"
    OBVIOUS
  <2>0. /\ TypeOK /\ ClientInv /\ RequestInFlight
        /\ call \in [Surfaces -> {"none", "open", "failed", "ended"}]
    BY DEF Inv, RequestInv, TypeOK, HistoryTypeOK
  <2>1. UNCHANGED media /\ (erred => erred')
    BY MediaStays
  <2>2. ~media /\ ~erred /\ \A s \in Surfaces : call[s] # "failed"
    BY <2>1
  <2>3. ~waiting
    BY <2>0, <2>2 DEF RequestInFlight, WaitsForOwn, ClientInv, NoRequests, TypeOK, DriverTypeOK
  <2>4. ASSUME NEW s \in Surfaces, ClientEnd(s) PROVE \A t \in Surfaces : call'[t] # "failed"
    <3>1. call[s] = "open"
      BY <2>4 DEF ClientEnd
    <3>2. ~InDst(s)
      BY <2>2, <2>3, <3>1, DestinationFree
    <3>3. ASSUME NEW fd \in Fds \cup {NoFd} PROVE ~EndPictureControlsFail(s, fd) /\ ~EndPictureDstFail(s, fd)
      BY <2>2, <3>2 DEF EndPictureControlsFail, EndPictureDstFail
    <3>4. ASSUME NEW fd \in Fds \cup {NoFd}
          PROVE  ~EndPictureSrcFail(s, fd) /\ ~EndPictureRequestFail(s, fd)
      BY SourceWithDestination
         DEF EndPictureSrcFail, EndPictureRequestFail, QueuedInPairs
    <3>5. ASSUME NEW fd \in Fds \cup {NoFd}, EndPictureSubmit(s, fd)
          PROVE  \A t \in Surfaces : call'[t] # "failed"
      BY <2>2, <3>5 DEF EndPictureSubmit, history
    <3>6. CASE EndPictureQueued(s)
      BY <2>0, <2>2, <3>6 DEF EndPictureQueued, FinishPicture
    <3>7. CASE EndPictureCrash
      BY <2>2, <3>7 DEF EndPictureCrash, history
    <3> QED BY <2>4, <3>3, <3>4, <3>5, <3>6, <3>7 DEF ClientEnd, EndPicture
  <2>5. ASSUME NEW s \in Surfaces,
               ClientBegin(s) \/ SyncSurface(s) \/ DeriveImage(s)
        PROVE  \A t \in Surfaces : call'[t] # "failed"
    BY <2>0, <2>2, <2>5 DEF ClientBegin, BeginPicture, SyncSurface, DeriveImage
  <2>6. ASSUME UNCHANGED call PROVE \A t \in Surfaces : call'[t] # "failed"
    BY <2>2, <2>6
  <2>7. ~WaitCompletion /\ ~WaitFail
    BY <2>3 DEF WaitCompletion, WaitFail
  <2> QED BY <2>4, <2>5, <2>6, <2>7
          DEF ClientNext, ClientRender, RenderParameter, RenderSlice, Decode, ClientShow,
              SyncSurfaceFail, SyncCrash, ClientDerive, vars, history
<1>3. Inv /\ P => OnlyEarlySyncFails
  <2> SUFFICES ASSUME Inv, ~media, ~erred, srcDone # << >> \/ dstDone # << >>
               PROVE  Good(srcDone) /\ Good(dstDone)
    BY DEF OnlyEarlySyncFails
  <2>0. TypeOK /\ DonePaired /\ NoneMarked
    BY DEF Inv, RequestInv, PairInv
  <2>1. srcDone \in Seq(Done) /\ dstDone \in Seq(Done)
    BY <2>0 DEF TypeOK, KernelTypeOK
  <2>2. Surplus = 0 /\ Len(dstDone) = Len(srcDone) /\ Len(srcDone) \in Nat
    BY <2>0, Entries DEF NoneMarked, Surplus
  <2>3. Len(srcDone) >= 1 /\ Len(dstDone) >= 1
    BY <2>1, <2>2
  <2>4. srcDone[1] = dstDone[1] /\ ~srcDone[1].err
    BY <2>0, <2>2, <2>3 DEF DonePaired, NoneMarked
  <2> QED BY <2>1, <2>3, <2>4 DEF Good
<1>4. ClientSpec => []P
  BY <1>0, <1>1, <1>2, PTL DEF ClientSpec
<1> QED BY <1>0, <1>3, <1>4, PTL

\* A descriptor for every surface, and media_request_alloc does not fail.
EnoughDescriptors ==
  IsFiniteSet(Fds) /\ Cardinality(Surfaces) <= Cardinality(Fds) /\ "alloc" \notin Faults

\* Each open request has a surface of its own, so one is closed when a surface has
\* none.
LEMMA DescriptorLeft ==
  ASSUME Inv, EnoughDescriptors, NEW s \in Surfaces, request[s] = NoFd
  PROVE  \E fd \in Fds : reqState[fd] = "closed"
<1> SUFFICES ASSUME \A fd \in Fds : reqState[fd] # "closed" PROVE FALSE
  OBVIOUS
<1>1. \A fd \in Fds : fd # NoFd /\ \E t \in Surfaces : request[t] = fd
  BY FdPositive DEF Inv, RequestInv, RequestsOwned, ClientInv, Buffers
<1> DEFINE owner == [fd \in Fds |-> CHOOSE t \in Surfaces : request[t] = fd]
<1>2. \A fd \in Fds : owner[fd] \in Surfaces /\ request[owner[fd]] = fd
  BY <1>1
<1> HIDE DEF owner
<1>3. owner \in [Fds -> Surfaces \ {s}]
  <2>1. \A fd \in Fds : owner[fd] \in Surfaces \ {s}
    BY <1>1, <1>2
  <2> QED BY <2>1 DEF owner
<1>4. owner \in Injection(Fds, Surfaces \ {s})
  BY <1>2, <1>3 DEF Injection, IsInjective
<1>5. IsFiniteSet(Surfaces \ {s}) /\ Cardinality(Surfaces \ {s}) = Cardinality(Surfaces) - 1
  BY FS_RemoveElement, ClientAssumption DEF ClientAssumption
<1>6. Cardinality(Fds) <= Cardinality(Surfaces \ {s})
  BY <1>4, <1>5, FS_Injection
<1>7. Cardinality(Surfaces) \in Nat /\ Cardinality(Fds) \in Nat
  BY FS_CardinalityType, ClientAssumption DEF ClientAssumption, EnoughDescriptors
<1> QED BY <1>5, <1>6, <1>7 DEF EnoughDescriptors

\* No call of a client that keeps to the order throws or follows a null pointer:
\* every descriptor but those of the surfaces is closed again, however many
\* submissions failed.
THEOREM NoneCrashes ==
  ASSUME QueuedInPairs, EnoughDescriptors
  PROVE  ClientSpec => []NoCrash
<1>0. ClientSpec => []Inv
  BY Invariant
<1>1. Init => NoCrash
  BY DEF Init, NoCrash
<1>2. Inv /\ NoCrash /\ [ClientNext]_vars => NoCrash'
  <2> SUFFICES ASSUME Inv, ~crashed, [ClientNext]_vars PROVE ~crashed'
    BY DEF NoCrash
  <2>0. ClientInv /\ Buffers
    BY DEF Inv, ClientInv
  <2>1. ASSUME NEW s \in Surfaces, ClientEnd(s), EndPictureCrash PROVE FALSE
    <3>1. target = s /\ target \in live \cap bound /\ params[target] = Kinds
      BY <2>0, <2>1 DEF ClientEnd, ClientInv, OpenIsTarget, Buffers
    <3>2. Required \subseteq params[target]
      BY <3>1, PictureAssumption DEF PictureAssumption
    <3>3. request[target] = NoFd /\ \A fd \in Fds : reqState[fd] # "closed"
      BY <2>1, <3>1, <3>2 DEF EndPictureCrash, EnoughDescriptors
    <3> QED BY <3>1, <3>3, DescriptorLeft
  <2>2. ASSUME NEW s \in Surfaces PROVE ~SyncCrash(s)
    BY <2>0 DEF SyncCrash, Buffers
  <2> QED BY <2>1, <2>2
          DEF ClientNext, ClientBegin, BeginPicture, ClientRender, RenderParameter, RenderSlice,
              ClientEnd, EndPicture, EndPictureControlsFail, EndPictureDstFail,
              EndPictureSrcFail, EndPictureRequestFail, EndPictureSubmit, EndPictureQueued,
              WaitCompletion, WaitFail, Decode, ClientShow, SyncSurface, DeriveImage,
              SyncSurfaceFail, ClientDerive, vars, driverVars
<1> QED BY <1>0, <1>1, <1>2, PTL DEF ClientSpec

-----------------------------------------------------------------------------
(* Pictures that were ended can be synchronised: by counting.  The buffers *)
(* that are done are not those of the pictures that were ended, but they   *)
(* are as many.                                                            *)

Complete == waiting /\ reqState[request[target]] = "complete"
Owed == IF Complete THEN 1 ELSE 0
Counted == media /\ ~erred => Cardinality(Ended) + Owed <= Len(srcDone)

\* A completed request has a pair of buffers for it among those that are done.
LEMMA CountStep == Inv /\ Counted /\ [ClientNext]_vars => Counted'
<1> SUFFICES ASSUME Inv, Counted, [ClientNext]_vars, media', ~erred'
             PROVE  Cardinality(Ended') + Owed' <= Len(srcDone')
  BY DEF Counted
<1>0. /\ TypeOK /\ RequestInFlight /\ ClientInv /\ NoneMarked
      /\ call \in [Surfaces -> {"none", "open", "failed", "ended"}]
      /\ Len(srcDone) \in Nat /\ Owed \in {0, 1} /\ Owed' \in {0, 1}
  BY Entries DEF Inv, RequestInv, PairInv, TypeOK, HistoryTypeOK, Owed
<1>1. media /\ ~erred
  BY MediaStays
<1>2. IsFiniteSet(Ended) /\ Cardinality(Ended) \in Nat
  <2>1. Ended \in SUBSET Surfaces
    BY DEF Ended
  <2> QED BY <2>1, FS_Subset, FS_CardinalityType, ClientAssumption DEF ClientAssumption
<1>3. Cardinality(Ended) + Owed <= Len(srcDone)
  BY <1>1 DEF Counted
<1>a. ASSUME Ended' = Ended, Owed' = 0 \/ Owed' = Owed, UNCHANGED srcDone
      PROVE  Cardinality(Ended') + Owed' <= Len(srcDone')
  BY <1>0, <1>2, <1>3, <1>a
<1>b. ASSUME ~waiting' PROVE Owed' = 0
  BY <1>b DEF Owed, Complete
<1>c. ASSUME UNCHANGED <<waiting, reqState, request, target>> PROVE Owed' = Owed
  BY <1>c DEF Owed, Complete
<1>4. ASSUME NEW s \in Surfaces, ClientBegin(s) PROVE Cardinality(Ended') + Owed' <= Len(srcDone')
  <2>1. call[s] = "none" /\ ~waiting' /\ call' = [call EXCEPT ![s] = "open"] /\ UNCHANGED srcDone
    BY <1>0, <1>4 DEF ClientBegin, BeginPicture, ClientInv, CallStatus, queueVars
  <2>2. Ended' = Ended
    BY <1>0, <2>1 DEF Ended
  <2> QED BY <1>a, <1>b, <2>1, <2>2
<1>5. CASE ClientRender
  <2>1. UNCHANGED <<call, srcDone, waiting, reqState, request, target>>
    BY <1>5 DEF ClientRender, RenderParameter, RenderSlice, queueVars, history
  <2> QED BY <1>a, <1>c, <2>1 DEF Ended
<1>6. ASSUME NEW s \in Surfaces, ClientEnd(s) PROVE Cardinality(Ended') + Owed' <= Len(srcDone')
  <2>1. call[s] = "open" /\ target = s /\ ~waiting
    BY <1>6, EndCases
  <2>2. CASE Failed(s) /\ UNCHANGED <<media, target, waiting, queueVars, pictures, picOf, erred>>
    <3>1. Ended' = Ended
      BY <1>0, <2>1, <2>2 DEF Ended, Failed
    <3> QED BY <1>a, <1>b, <2>1, <2>2, <3>1 DEF queueVars
  <2>3. ASSUME NEW fd \in Fds, EndPictureSubmit(s, fd)
        PROVE  Cardinality(Ended') + Owed' <= Len(srcDone')
    <3>1. Owed' = 0
      BY <1>0, <2>1, <2>3 DEF EndPictureSubmit, Owed, Complete, TypeOK, DriverTypeOK, KernelTypeOK
    <3>2. Ended' = Ended /\ UNCHANGED srcDone
      BY <2>3 DEF EndPictureSubmit, Ended, history
    <3> QED BY <1>a, <3>1, <3>2
  <2>4. ~EndPictureQueued(s)
    BY <1>0, <1>1, FdPositive DEF EndPictureQueued, Ending, RequestFor
  <2>5. CASE EndPictureCrash
    BY <1>a, <1>c, <2>5 DEF EndPictureCrash, Ended, queueVars, history
  <2> QED BY <1>6, <2>2, <2>3, <2>4, <2>5, EndCases
<1>7. CASE WaitCompletion
  <2>1. target \in Surfaces /\ call[target] = "open"
    BY <1>0, <1>7 DEF WaitCompletion, RequestInFlight, WaitsForOwn, ClientInv, WaitIsOpen,
                      TypeOK, DriverTypeOK
  <2>2. Owed = 1 /\ Owed' = 0 /\ UNCHANGED srcDone /\ call' = [call EXCEPT ![target] = "ended"]
    BY <1>7 DEF WaitCompletion, FinishPicture, Owed, Complete, queueVars
  <2>3. Ended' = Ended \cup {target} /\ target \notin Ended
    BY <1>0, <2>1, <2>2 DEF Ended
  <2>4. Cardinality(Ended') = Cardinality(Ended) + 1
    BY <1>2, <2>3, FS_AddElement
  <2> QED BY <1>0, <1>2, <1>3, <2>2, <2>4
<1>8. CASE WaitFail
  <2>1. target \in Surfaces /\ call[target] = "open"
    BY <1>0, <1>8 DEF WaitFail, RequestInFlight, WaitsForOwn, ClientInv, WaitIsOpen,
                      TypeOK, DriverTypeOK
  <2>2. ~waiting' /\ UNCHANGED srcDone /\ call' = [call EXCEPT ![target] = "failed"]
    BY <1>8 DEF WaitFail, Failed
  <2>3. Ended' = Ended
    BY <1>0, <2>1, <2>2 DEF Ended
  <2> QED BY <1>a, <1>b, <2>2, <2>3
<1>9. CASE Decode
  <2>1. Ended' = Ended
    BY <1>9 DEF Decode, Ended
  <2>2. Len(srcDone') = Len(srcDone) + 1
    BY <1>0, <1>9, DecodeFacts, AppendProperties DEF TypeOK, KernelTypeOK, Decode
  <2> QED BY <1>0, <1>2, <1>3, <2>1, <2>2
<1>10. ASSUME NEW s \in Surfaces, ClientShow(s) PROVE Cardinality(Ended') + Owed' <= Len(srcDone')
  <2>1. s \in Ended /\ status[s] = "Rendering"
    BY <1>0, <1>10 DEF ClientShow, MayShow, Ended, ClientInv, CallStatus
  <2>2. CASE SyncSurface(s) \/ DeriveImage(s)
    <3>1. Owed' = Owed /\ call' = [call EXCEPT ![s] = "none"]
      BY <1>c, <2>2 DEF SyncSurface, DeriveImage
    <3>2. Ended' = Ended \ {s}
      BY <1>0, <2>1, <3>1 DEF Ended
    <3>3. Cardinality(Ended') = Cardinality(Ended) - 1
      BY <1>2, <2>1, <3>2, FS_RemoveElement
    <3>4. Len(srcDone') = Len(srcDone) - 1
      BY <1>0, <2>1, <2>2, DequeueFacts
    <3> QED BY <1>0, <1>2, <1>3, <3>1, <3>3, <3>4
  <2>3. CASE SyncSurfaceFail(s)
    <3>1. UNCHANGED srcDone
      BY <1>1, <2>3, DequeueFailFacts
    <3>2. Ended' = Ended /\ UNCHANGED <<waiting, reqState, request, target>>
      BY <2>3 DEF SyncSurfaceFail, Ended, driverVars, history
    <3> QED BY <1>a, <1>c, <3>1, <3>2
  <2>4. CASE SyncCrash(s)
    BY <1>a, <1>c, <2>4 DEF SyncCrash, Ended, queueVars, history
  <2> QED BY <1>10, <2>2, <2>3, <2>4 DEF ClientShow
<1>11. ASSUME NEW s \in Surfaces, ClientDerive(s) PROVE Cardinality(Ended') + Owed' <= Len(srcDone')
  <2>1. call[s] = "none" /\ status[s] # "Rendering"
    BY <1>0, <1>11 DEF ClientDerive, ClientInv, CallStatus
  <2>2. /\ UNCHANGED <<waiting, reqState, request, target, srcDone>>
        /\ call' = [call EXCEPT ![s] = "none"]
    BY <1>11, <2>1 DEF ClientDerive, DeriveImage
  <2>3. Ended' = Ended
    BY <1>0, <2>1, <2>2 DEF Ended
  <2> QED BY <1>a, <1>c, <2>2, <2>3
<1>12. CASE UNCHANGED vars
  BY <1>a, <1>c, <1>12 DEF vars, driverVars, queueVars, history, Ended
<1> QED BY <1>4, <1>5, <1>6, <1>7, <1>8, <1>9, <1>10, <1>11, <1>12 DEF ClientNext

\* A picture that was ended can be synchronised, for any number of surfaces and
\* pictures: other surfaces take buffers that are not theirs, but never the last.
\* Again where no submission fails between its two buffers.
THEOREM EndedHaveBuffers ==
  ASSUME QueuedInPairs
  PROVE  ClientSpec => []EndedCanBeShown
<1>0. ClientSpec => []Inv
  BY Invariant
<1>1. Init => Counted
  <2> SUFFICES ASSUME Init PROVE Cardinality(Ended) + Owed <= Len(srcDone)
    BY DEF Counted
  <2>1. Ended = {} /\ Owed = 0 /\ Len(srcDone) = 0
    BY DEF Init, Ended, Owed, Complete
  <2> QED BY <2>1, FS_EmptySet
<1>2. ClientSpec => []Counted
  BY <1>0, <1>1, CountStep, PTL DEF ClientSpec
<1>3. Inv /\ Counted => EndedCanBeShown
  <2> SUFFICES ASSUME Inv, Counted, media, ~erred, Ended # {}
               PROVE  Good(srcDone) /\ Good(dstDone)
    BY DEF EndedCanBeShown
  <2>0. TypeOK /\ DonePaired /\ NoneMarked
    BY DEF Inv, RequestInv, PairInv
  <2>1. Cardinality(Ended) \in Nat /\ Cardinality(Ended) # 0
    <3>1. Ended \in SUBSET Surfaces
      BY DEF Ended
    <3>2. IsFiniteSet(Ended)
      BY <3>1, FS_Subset, ClientAssumption DEF ClientAssumption
    <3> QED BY <3>2, FS_CardinalityType, FS_EmptySet
  <2>2. Len(srcDone) \in Nat /\ Len(srcDone) >= 1
    BY <2>0, <2>1, Entries DEF Counted, Owed
  <2>3. Surplus = 0 /\ Len(dstDone) = Len(srcDone) /\ ~srcDone[1].err
    BY <2>0, <2>2, Entries DEF NoneMarked, Surplus
  <2>4. srcDone[1] = dstDone[1]
    BY <2>0, <2>2, <2>3 DEF DonePaired
  <2>5. srcDone \in Seq(Done) /\ dstDone \in Seq(Done)
    BY <2>0 DEF TypeOK, KernelTypeOK
  <2> QED BY <2>2, <2>3, <2>4, <2>5 DEF Good
<1> QED BY <1>0, <1>2, <1>3, PTL

-----------------------------------------------------------------------------
(* The client's view: PictureClient implements SurfaceStore. *)

PhaseNow == [s \in Surfaces |-> CASE status[s] = "Rendering"  -> "taken"
                                  [] status[s] = "Displaying" -> "shown"
                                  [] OTHER                    -> "idle"]
ShownNow == [s \in Surfaces |-> IF status[s] = "Rendering" THEN {} ELSE content[s]]

\* The store's steps in these terms.
LEMMA StoreSteps ==
  /\ \A s \in Surfaces :
       /\ PhaseNow[s] # "taken"
       /\ \E p \in {1 + picOf[t] : t \in Surfaces} :
            (\A t \in Surfaces : picOf[t] < p) /\ picOf' = [picOf EXCEPT ![s] = p]
       /\ PhaseNow' = [PhaseNow EXCEPT ![s] = "taken"]
       /\ ShownNow' = [ShownNow EXCEPT ![s] = {}]
       /\ UNCHANGED erred
       => Store!StoreNext
  /\ \A s \in Surfaces :
       /\ PhaseNow[s] = "taken"
       /\ \E ph \in {"shown", "idle"} : PhaseNow' = [PhaseNow EXCEPT ![s] = ph]
       /\ \/ ShownNow' = [ShownNow EXCEPT ![s] = {picOf[s]}]
          \/ erred /\ ShownNow' = [ShownNow EXCEPT ![s] = {}]
       /\ UNCHANGED <<picOf, erred>>
       => Store!StoreNext
  /\ \A s \in Surfaces :
       /\ PhaseNow[s] = "shown"
       /\ PhaseNow' = [PhaseNow EXCEPT ![s] = "idle"]
       /\ UNCHANGED <<picOf, ShownNow, erred>>
       => Store!StoreNext
  /\ erred' = TRUE /\ UNCHANGED <<PhaseNow, picOf, ShownNow>> => Store!StoreNext
  /\ UNCHANGED <<PhaseNow, picOf, ShownNow, erred>> => UNCHANGED Store!storeVars
BY DEF Store!StoreNext, Store!Take, Store!GiveBack, Store!Retire, Store!Damage,
       Store!storeVars, PhaseNow, ShownNow

\* A surface of which neither the status nor the buffer changes looks the same.
LEMMA ViewStays ==
  /\ UNCHANGED status => UNCHANGED PhaseNow
  /\ UNCHANGED <<status, content>> => UNCHANGED ShownNow
BY DEF PhaseNow, ShownNow

\* The view of a surface after its status changed.
LEMMA ViewChanges ==
  ASSUME TypeOK, NEW s \in Surfaces, NEW st \in {"Ready", "Rendering", "Displaying"},
         status' = [status EXCEPT ![s] = st], UNCHANGED content
  PROVE  /\ PhaseNow' = [PhaseNow EXCEPT ![s] = CASE st = "Rendering"  -> "taken"
                                                  [] st = "Displaying" -> "shown"
                                                  [] OTHER             -> "idle"]
         /\ ShownNow' = [ShownNow EXCEPT ![s] = IF st = "Rendering" THEN {} ELSE content[s]]
<1>1. status \in [Surfaces -> {"Ready", "Rendering", "Displaying"}]
  BY DEF TypeOK, DriverTypeOK
<1>2. \A t \in Surfaces : status'[t] = IF t = s THEN st ELSE status[t]
  BY <1>1
<1>3. PhaseNow' = [PhaseNow EXCEPT ![s] = CASE st = "Rendering"  -> "taken"
                                            [] st = "Displaying" -> "shown"
                                            [] OTHER             -> "idle"]
  BY <1>2 DEF PhaseNow
<1>4. ShownNow' = [ShownNow EXCEPT ![s] = IF st = "Rendering" THEN {} ELSE content[s]]
  BY <1>2 DEF ShownNow
<1> QED BY <1>3, <1>4

\* Every step of the client or the device is one of the store, or cannot be seen.
LEMMA StoreStep == Inv /\ [ClientNext]_vars => [Store!StoreNext]_(Store!storeVars)
<1> SUFFICES ASSUME Inv, [ClientNext]_vars
             PROVE  Store!StoreNext \/ UNCHANGED Store!storeVars
  OBVIOUS
<1>0. /\ TypeOK /\ ClientInv /\ RequestInFlight
      /\ status \in [Surfaces -> {"Ready", "Rendering", "Displaying"}]
      /\ pictures \in Nat /\ picOf \in [Surfaces -> Nat]
  BY DEF Inv, RequestInv, TypeOK, DriverTypeOK, HistoryTypeOK, Marks
<1>a. ASSUME UNCHANGED <<status, content, picOf, erred>> PROVE UNCHANGED Store!storeVars
  BY <1>a, ViewStays, StoreSteps
<1>1. ASSUME NEW s \in Surfaces, ClientBegin(s) PROVE Store!StoreNext
  <2>1. /\ status[s] # "Rendering" /\ status' = [status EXCEPT ![s] = "Rendering"]
        /\ picOf' = [picOf EXCEPT ![s] = pictures + 1] /\ UNCHANGED <<content, erred>>
    BY <1>1 DEF ClientBegin, BeginPicture, queueVars
  <2>2. /\ PhaseNow' = [PhaseNow EXCEPT ![s] = "taken"]
        /\ ShownNow' = [ShownNow EXCEPT ![s] = {}]
    BY <1>0, <2>1, ViewChanges
  <2>3. PhaseNow[s] # "taken"
    BY <2>1 DEF PhaseNow
  <2>4. \A t \in Surfaces : picOf[t] \in Nat /\ picOf[t] <= pictures
    BY <1>0 DEF ClientInv, Numbered
  <2>5. PICK t \in Surfaces : picOf[t] = pictures
    BY <1>0, <2>4 DEF ClientInv, Latest
  <2>6. /\ pictures + 1 \in {1 + picOf[u] : u \in Surfaces}
        /\ \A u \in Surfaces : picOf[u] < pictures + 1
    BY <1>0, <2>4, <2>5
  <2> QED BY <2>1, <2>2, <2>3, <2>6, StoreSteps
<1>2. CASE ClientRender
  BY <1>a, <1>2 DEF ClientRender, RenderParameter, RenderSlice, queueVars, history
<1>3. ASSUME NEW s \in Surfaces, ClientEnd(s) PROVE UNCHANGED Store!storeVars
  <2>1. UNCHANGED <<status, content, picOf, erred>>
    BY <1>3
       DEF ClientEnd, EndPicture, EndPictureCrash, EndPictureControlsFail, EndPictureDstFail,
           EndPictureSrcFail, EndPictureRequestFail, EndPictureSubmit, EndPictureQueued,
           queueVars, history
  <2> QED BY <1>a, <2>1
<1>4. CASE WaitCompletion \/ WaitFail
  BY <1>a, <1>4 DEF WaitCompletion, WaitFail, queueVars
<1>5. CASE Decode
  <2>1. PICK err \in BOOLEAN :
          LET b == srcReady[1].buf
          IN /\ 1 \in 1 .. Len(srcReady) /\ b \in Surfaces
             /\ content' = [content EXCEPT ![b] = IF err THEN {} ELSE {picOf[b]}]
             /\ erred' = (erred \/ err)
             /\ UNCHANGED <<status, picOf>>
    BY <1>5, DecodeFacts DEF driverVars
  <2> DEFINE b == srcReady[1].buf
  <2>2. call[b] # "none"
    BY <1>0, <2>1 DEF Inv, PictureInv, EntryOwn, ClientInv, WaitIsOpen
  <2>3. status[b] = "Rendering"
    BY <1>0, <2>1, <2>2 DEF ClientInv, CallStatus
  <2>4. UNCHANGED PhaseNow
    BY <2>1, ViewStays
  <2>5. UNCHANGED ShownNow
    <3>1. \A t \in Surfaces : status[t] # "Rendering" => content'[t] = content[t]
      BY <2>1, <2>3
    <3> QED BY <2>1, <3>1 DEF ShownNow
  <2>6. CASE erred' = TRUE
    BY <2>1, <2>4, <2>5, <2>6, StoreSteps
  <2>7. CASE erred' # TRUE
    <3>1. erred' = erred
      BY <1>0, <2>1, <2>7 DEF TypeOK, HistoryTypeOK
    <3> QED BY <2>1, <2>4, <2>5, <3>1, StoreSteps
  <2> QED BY <2>6, <2>7
<1>6. ASSUME NEW s \in Surfaces, ClientShow(s)
      PROVE  Store!StoreNext \/ UNCHANGED Store!storeVars
  <2>1. MayShow(s) /\ call[s] = "ended"
    BY <1>6 DEF ClientShow, MayShow, Ended
  <2>2. status[s] = "Rendering" /\ picOf[s] # 0
    BY <1>0, <2>1 DEF ClientInv, CallStatus, Numbered
  <2>3. CASE SyncSurface(s) \/ DeriveImage(s)
    <3>1. Right(s)
      BY <2>1, <2>2, <2>3, ShowPicture
    <3>2. PICK st \in {"Ready", "Displaying"} : status' = [status EXCEPT ![s] = st]
      BY <2>3 DEF SyncSurface, DeriveImage
    <3>3. UNCHANGED <<content, picOf, erred>>
      BY <2>3 DEF SyncSurface, DeriveImage
    <3>4. ShownNow' = [ShownNow EXCEPT ![s] = content[s]]
      BY <1>0, <3>2, <3>3, ViewChanges
    <3>5. \E ph \in {"shown", "idle"} : PhaseNow' = [PhaseNow EXCEPT ![s] = ph]
      BY <1>0, <3>2, <3>3, ViewChanges
    <3>6. content[s] = {picOf[s]} \/ (erred /\ content[s] = {})
      BY <3>1 DEF Right
    <3>7. PhaseNow[s] = "taken"
      BY <2>2 DEF PhaseNow
    <3>8. \/ ShownNow' = [ShownNow EXCEPT ![s] = {picOf[s]}]
          \/ erred /\ ShownNow' = [ShownNow EXCEPT ![s] = {}]
      BY <3>4, <3>6
    <3> QED BY <3>3, <3>5, <3>7, <3>8, StoreSteps
  <2>4. CASE SyncSurfaceFail(s) \/ SyncCrash(s)
    BY <1>a, <2>4 DEF SyncSurfaceFail, SyncCrash, driverVars, queueVars, history
  <2> QED BY <1>6, <2>3, <2>4 DEF ClientShow
<1>7. ASSUME NEW s \in Surfaces, ClientDerive(s) PROVE Store!StoreNext
  <2>1. /\ status[s] = "Displaying" /\ status' = [status EXCEPT ![s] = "Ready"]
        /\ UNCHANGED <<content, picOf, erred>>
    BY <1>7 DEF ClientDerive, DeriveImage
  <2>2. /\ PhaseNow' = [PhaseNow EXCEPT ![s] = "idle"]
        /\ ShownNow' = [ShownNow EXCEPT ![s] = content[s]]
    BY <1>0, <2>1, ViewChanges
  <2>3. PhaseNow[s] = "shown"
    BY <2>1 DEF PhaseNow
  <2>4. ShownNow' = ShownNow
    <3>1. ShownNow[s] = content[s]
      BY <2>1 DEF ShownNow
    <3> QED BY <2>2, <3>1 DEF ShownNow
  <2> QED BY <2>1, <2>2, <2>3, <2>4, StoreSteps
<1>8. CASE UNCHANGED vars
  BY <1>a, <1>8 DEF vars, driverVars, queueVars, history
<1> QED BY <1>1, <1>2, <1>3, <1>4, <1>5, <1>6, <1>7, <1>8 DEF ClientNext

\* What the client sees is a store of pictures: surfaces that are taken, given back
\* with their own picture and kept, whatever the requests and the queues do as long
\* as both buffers of a picture are queued or none.
THEOREM ClientImplementsStore ==
  ASSUME QueuedInPairs
  PROVE  ClientSpec => ImplementsStore
<1>0. ClientSpec => []Inv
  BY Invariant
<1>1. Init => Store!StoreInit
  BY DEF Init, Store!StoreInit
<1>2. Inv /\ [ClientNext]_vars => [Store!StoreNext]_(Store!storeVars)
  BY StoreStep
<1> QED BY <1>0, <1>1, <1>2, PTL DEF ClientSpec, ImplementsStore, Store!StoreSpec
=============================================================================

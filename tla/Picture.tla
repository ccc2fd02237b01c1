------------------------------- MODULE Picture -------------------------------
(***************************************************************************)
(* The decode path of the driver: vaBeginPicture, vaRenderPicture,         *)
(* vaEndPicture (picture.cc), vaSyncSurface, vaCreateSurfaces and          *)
(* vaDestroySurfaces (surface.cc), vaDeriveImage (image.cc), the media     *)
(* requests they use (media.cc) and the two V4L2 buffer queues they share  *)
(* with the kernel (v4l2.cc).                                              *)
(*                                                                         *)
(* One context is live, on one device.  Surface s was bound by             *)
(* vaCreateContext to source buffer s and destination buffer s, so a       *)
(* buffer index is a surface id.  One thread calls begin/render/end; the   *)
(* other calls (sync, derive) may come from another thread, also while     *)
(* vaEndPicture waits for the kernel.                                      *)
(*                                                                         *)
(* The bytes of a bitstream are abstracted to the pictures they belong to. *)
(***************************************************************************)
EXTENDS Integers, Sequences

CONSTANTS
  Surfaces,     \* surface ids, 0 .. n - 1, all of them given to the context
  Fds,          \* file descriptors the process can still obtain
  Kinds,        \* kinds of parameter buffer
  Required,     \* the kinds the codec's set_controls dereferences
  SliceNeeds,   \* the kinds its store_buffer dereferences for a slice
  StartCode,    \* store_buffer writes a prefix before it checks the size
  Faults,       \* the ioctls that may fail, see FaultKinds
  MaxPictures   \* bound: pictures begun in a behaviour

FaultKinds == {"alloc", "controls", "qbufDst", "qbufSrc", "queue", "timeout", "reinit", "decode"}

\* Descriptor 0 is taken: destroySurfaces closes a request only if its fd is > 0.
ASSUME PictureAssumption ==
  /\ Surfaces \subseteq Nat
  /\ Fds \subseteq Nat \ {0}
  /\ StartCode \in BOOLEAN
  /\ Required \subseteq Kinds /\ SliceNeeds \subseteq Kinds
  /\ Faults \subseteq FaultKinds
  /\ MaxPictures \in Nat

NoFd == -1              \* request_fd of a surface without a request
Invalid == -1           \* VA_INVALID_ID
Pictures == 1 .. MaxPictures

VARIABLES
  media,      \* the device has a media node (media_fd >= 0), or requests are not used
  \* the driver
  live,       \* keys of DriverData::surfaces
  bound,      \* surfaces whose source_buffer and destination_buffer are set
  status,     \* Surface::status
  params,     \* kinds whose pointer in Surface::params is set
  source,     \* pictures with bytes below Surface::source_size_used
  request,    \* Surface::request_fd
  target,     \* Context::render_surface_id
  waiting,    \* vaEndPicture is in media_request_wait_completion
  crashed,    \* an exception left the library, or a null pointer was followed
  \* the kernel
  reqState,   \* the request behind each descriptor
  srcReady, dstReady,   \* buffers queued to the device, in order
  srcDone, dstDone,     \* buffers the device is done with, in order
  content,    \* the pictures decoded into each destination buffer
  \* history
  pictures,   \* number of pictures begun
  picOf,      \* the last picture begun on each surface
  call,       \* what the client knows of the last picture of each surface
  erred       \* the device failed to decode a picture

driverVars == <<media, live, bound, status, params, source, request, target, waiting, crashed>>
queueVars  == <<srcReady, dstReady, srcDone, dstDone, content>>
history    == <<pictures, picOf, call, erred>>
vars == <<driverVars, reqState, queueVars, history>>

Running == ~crashed

-----------------------------------------------------------------------------
(* Device buffers. *)

\* VIDIOC_QBUF refuses a buffer that the client has not dequeued.
InSrc(s) == \/ \E i \in 1 .. Len(srcReady) : srcReady[i].buf = s
            \/ \E i \in 1 .. Len(srcDone) : srcDone[i].buf = s
InDst(s) == \/ \E i \in 1 .. Len(dstReady) : dstReady[i] = s
            \/ \E i \in 1 .. Len(dstDone) : dstDone[i].buf = s

\* What is copied into a source buffer shows in one the device has not read yet.
Written(s) == [i \in 1 .. Len(srcReady) |->
                 IF srcReady[i].buf = s
                 THEN [srcReady[i] EXCEPT !.data = @ \cup {picOf[s]}]
                 ELSE srcReady[i]]

\* The request a queued source buffer belongs to is gone: the decode goes on.
Orphan(fd) == [i \in 1 .. Len(srcReady) |->
                 IF srcReady[i].fd = fd THEN [srcReady[i] EXCEPT !.fd = NoFd]
                                        ELSE srcReady[i]]

-----------------------------------------------------------------------------
(* vaBeginPicture.  A surface that is Rendering is refused: SURFACE_BUSY. *)

BeginPicture(s) ==
  /\ Running /\ ~waiting
  /\ s \in live
  /\ status[s] # "Rendering"
  /\ pictures < MaxPictures
  /\ status' = [status EXCEPT ![s] = "Rendering"]
  /\ target' = s
  /\ pictures' = pictures + 1
  /\ picOf' = [picOf EXCEPT ![s] = pictures + 1]
  /\ call' = [call EXCEPT ![s] = "open"]
  /\ UNCHANGED <<media, live, bound, params, source, request, waiting, crashed, reqState, queueVars,
                 erred>>

-----------------------------------------------------------------------------
(* vaRenderPicture, one buffer of the list at a time: a buffer that fails  *)
(* ends the call and leaves the earlier ones stored.                       *)

\* A surface created after the context has no source buffer to render to; the
\* prefix of a VP8 slice is made from parameters that must have been given.
RenderCrash ==
  /\ Running /\ ~waiting
  /\ target \in live
  /\ target \notin bound \/ ~(SliceNeeds \subseteq params[target])
  /\ crashed' = TRUE
  /\ UNCHANGED <<media, live, bound, status, params, source, request, target, waiting,
                 reqState, queueVars, history>>

RenderParameter(kind) ==
  /\ Running /\ ~waiting
  /\ target \in live \cap bound
  /\ params' = [params EXCEPT ![target] = @ \cup {kind}]
  /\ UNCHANGED <<media, live, bound, status, source, request, target, waiting, crashed,
                 reqState, queueVars, history>>

\* The slice is copied behind the data already in the source buffer; the
\* device may still be reading that buffer.
RenderSlice ==
  /\ Running /\ ~waiting
  /\ target \in live \cap bound
  /\ SliceNeeds \subseteq params[target]
  /\ source' = [source EXCEPT ![target] = @ \cup {picOf[target]}]
  /\ srcReady' = Written(target)
  /\ UNCHANGED <<media, live, bound, status, params, request, target, waiting, crashed,
                 reqState, dstReady, srcDone, dstDone, content, history>>

\* The slice does not fit: NOT_ENOUGH_BUFFER, but the prefix stays accounted.
RenderSliceRefused ==
  /\ Running /\ ~waiting
  /\ target \in live \cap bound
  /\ SliceNeeds \subseteq params[target]
  /\ source' = [source EXCEPT ![target] = IF StartCode THEN @ \cup {picOf[target]} ELSE @]
  /\ srcReady' = IF StartCode THEN Written(target) ELSE srcReady
  /\ UNCHANGED <<media, live, bound, status, params, request, target, waiting, crashed,
                 reqState, dstReady, srcDone, dstDone, content, history>>

-----------------------------------------------------------------------------
(* vaEndPicture.  Each action below is one way through the handler.        *)

\* std::map::at throws for a render target that is not set or was destroyed;
\* a request that cannot be allocated throws outside of any handler; the codec
\* follows a parameter pointer that was never set; the buffers are not bound.
EndPictureCrash ==
  /\ Running /\ ~waiting
  /\ \/ target \notin live
     \/ target \in live \ bound
     \/ /\ target \in live /\ media /\ request[target] = NoFd
        /\ "alloc" \in Faults \/ \A fd \in Fds : reqState[fd] # "closed"
     \/ target \in live /\ media /\ ~(Required \subseteq params[target])
  /\ crashed' = TRUE
  /\ UNCHANGED <<media, live, bound, status, params, source, request, target, waiting,
                 reqState, queueVars, history>>

\* The request the picture is submitted with: the surface's, or a new one.
RequestFor(s, fd) ==
  IF media /\ request[s] = NoFd
  THEN fd \in Fds /\ reqState[fd] = "closed"
  ELSE fd = request[s]

Ending(s, fd) ==
  /\ Running /\ ~waiting
  /\ target = s /\ s \in live \cap bound
  /\ media => Required \subseteq params[s]
  /\ RequestFor(s, fd)

\* Only an idle request takes controls and buffers.
Accepts(fd) == fd \in Fds => reqState[fd] \in {"closed", "idle"}

KeepRequest(s, fd) ==
  /\ request' = [request EXCEPT ![s] = fd]
  /\ reqState' = [r \in Fds |-> IF r = fd /\ reqState[r] = "closed" THEN "idle" ELSE reqState[r]]

CloseRequest(s, fd) ==
  /\ request' = [request EXCEPT ![s] = NoFd]
  /\ reqState' = [r \in Fds |-> IF r = fd THEN "closed" ELSE reqState[r]]

Failed(s) == call' = [call EXCEPT ![s] = "failed"]

\* Variant: source_size_used is not reset.
FinishPictureKeepsSource(s) ==
  /\ target' = Invalid
  /\ params' = [params EXCEPT ![s] = {}]
  /\ call' = [call EXCEPT ![s] = "ended"]
  /\ UNCHANGED source

\* The handler's last lines, reached only on success.
FinishPicture(s) ==
  /\ source' = [source EXCEPT ![s] = {}]
  /\ target' = Invalid
  /\ params' = [params EXCEPT ![s] = {}]
  /\ call' = [call EXCEPT ![s] = "ended"]

\* VIDIOC_S_EXT_CTRLS fails: the status is returned, nothing is reset.
EndPictureControlsFail(s, fd) ==
  /\ Ending(s, fd) /\ media
  /\ "controls" \in Faults \/ ~Accepts(fd)
  /\ KeepRequest(s, fd) /\ Failed(s)
  /\ UNCHANGED <<media, live, bound, status, params, source, target, waiting, crashed,
                 queueVars, pictures, picOf, erred>>

\* The destination buffer cannot be queued.
EndPictureDstFail(s, fd) ==
  /\ Ending(s, fd) /\ Accepts(fd)
  /\ "qbufDst" \in Faults \/ InDst(s)
  /\ KeepRequest(s, fd) /\ Failed(s)
  /\ UNCHANGED <<media, live, bound, status, params, source, target, waiting, crashed,
                 queueVars, pictures, picOf, erred>>

\* The destination buffer is with the device when the source buffer fails.
EndPictureSrcFail(s, fd) ==
  /\ Ending(s, fd) /\ Accepts(fd)
  /\ ~InDst(s)
  /\ "qbufSrc" \in Faults \/ InSrc(s)
  /\ dstReady' = Append(dstReady, s)
  /\ KeepRequest(s, fd) /\ Failed(s)
  /\ UNCHANGED <<media, live, bound, status, params, source, target, waiting, crashed,
                 srcReady, srcDone, dstDone, content, pictures, picOf, erred>>

\* The request cannot be queued: it is closed, which gives the source buffer
\* back, but not the destination buffer.
EndPictureRequestFail(s, fd) ==
  /\ Ending(s, fd) /\ Accepts(fd) /\ fd # NoFd
  /\ ~InDst(s) /\ ~InSrc(s)
  /\ "queue" \in Faults
  /\ dstReady' = Append(dstReady, s)
  /\ CloseRequest(s, fd) /\ Failed(s)
  /\ UNCHANGED <<media, live, bound, status, params, source, target, waiting, crashed,
                 srcReady, srcDone, dstDone, content, pictures, picOf, erred>>

\* Variant: the error of a destination buffer that is still queued is ignored.
QueueBothAnyway(s, fd) ==
  /\ ~InSrc(s)
  /\ dstReady' = IF InDst(s) THEN dstReady ELSE Append(dstReady, s)
  /\ srcReady' = Append(srcReady, [buf |-> s, fd |-> fd, data |-> source[s]])

\* Variant: the source buffer is not queued.
QueueDestinationOnly(s, fd) ==
  /\ ~InDst(s) /\ ~InSrc(s)
  /\ dstReady' = Append(dstReady, s)
  /\ UNCHANGED srcReady

QueueBoth(s, fd) ==
  /\ ~InDst(s) /\ ~InSrc(s)
  /\ dstReady' = Append(dstReady, s)
  /\ srcReady' = Append(srcReady, [buf |-> s, fd |-> fd, data |-> source[s]])

\* The request is queued and vaEndPicture waits for its completion.
EndPictureSubmit(s, fd) ==
  /\ Ending(s, fd) /\ Accepts(fd) /\ fd # NoFd
  /\ QueueBoth(s, fd)
  /\ request' = [request EXCEPT ![s] = fd]
  /\ reqState' = [reqState EXCEPT ![fd] = "queued"]
  /\ waiting' = TRUE
  /\ UNCHANGED <<media, live, bound, status, params, source, target, crashed,
                 srcDone, dstDone, content, history>>

\* Without a media node there is no request and nothing to wait for.
EndPictureQueued(s) ==
  /\ Ending(s, NoFd)
  /\ QueueBoth(s, NoFd)
  /\ FinishPicture(s)
  /\ UNCHANGED <<media, live, bound, status, request, waiting, crashed,
                 reqState, srcDone, dstDone, content, pictures, picOf, erred>>

\* Variant: a timeout of select() is taken for the completion.
WaitCompletionEarly ==
  /\ Running /\ waiting
  /\ reqState' = [reqState EXCEPT ![request[target]] = "idle"]
  /\ FinishPicture(target)
  /\ waiting' = FALSE
  /\ UNCHANGED <<media, live, bound, status, request, crashed, queueVars, pictures, picOf, erred>>

\* Variant: the surface forgets its request, for a new one with every picture.
WaitCompletionForgets ==
  /\ Running /\ waiting
  /\ reqState[request[target]] = "complete"
  /\ reqState' = [reqState EXCEPT ![request[target]] = "idle"]
  /\ request' = [request EXCEPT ![target] = NoFd]
  /\ FinishPicture(target)
  /\ waiting' = FALSE
  /\ UNCHANGED <<media, live, bound, status, crashed, queueVars, pictures, picOf, erred>>

\* The request completed; it is made idle again for the next picture.
WaitCompletion ==
  /\ Running /\ waiting
  /\ reqState[request[target]] = "complete"
  /\ reqState' = [reqState EXCEPT ![request[target]] = "idle"]
  /\ FinishPicture(target)
  /\ waiting' = FALSE
  /\ UNCHANGED <<media, live, bound, status, request, crashed, queueVars, pictures, picOf, erred>>

\* Variant: the request is kept for the next picture.
WaitFailKeepsRequest ==
  /\ Running /\ waiting
  /\ IF reqState[request[target]] = "complete" THEN "reinit" \in Faults
                                               ELSE "timeout" \in Faults
  /\ Failed(target)
  /\ waiting' = FALSE
  /\ UNCHANGED <<media, live, bound, status, params, source, request, target, crashed,
                 reqState, queueVars, pictures, picOf, erred>>

\* select() times out after 300 ms, or the completed request cannot be made
\* idle: the request is closed, and the device goes on with the buffers.
WaitFail ==
  /\ Running /\ waiting
  /\ IF reqState[request[target]] = "complete" THEN "reinit" \in Faults
                                               ELSE "timeout" \in Faults
  /\ srcReady' = Orphan(request[target])
  /\ CloseRequest(target, request[target]) /\ Failed(target)
  /\ waiting' = FALSE
  /\ UNCHANGED <<media, live, bound, status, params, source, target, crashed,
                 dstReady, srcDone, dstDone, content, pictures, picOf, erred>>

EndPicture(s) ==
  \/ \E fd \in Fds \cup {NoFd} :
       \/ EndPictureControlsFail(s, fd)
       \/ EndPictureDstFail(s, fd)
       \/ EndPictureSrcFail(s, fd)
       \/ EndPictureRequestFail(s, fd)
       \/ EndPictureSubmit(s, fd)
  \/ EndPictureQueued(s)

-----------------------------------------------------------------------------
(* The device takes the oldest source and the oldest destination buffer,   *)
(* whichever surfaces they belong to; one that fails to decode is marked.  *)

Decode ==
  /\ Running
  /\ srcReady # << >> /\ dstReady # << >>
  /\ LET src == Head(srcReady)
         dst == Head(dstReady)
     IN \E err \in IF "decode" \in Faults THEN BOOLEAN ELSE {FALSE} :
          /\ srcDone' = Append(srcDone, [buf |-> src.buf, err |-> err])
          /\ dstDone' = Append(dstDone, [buf |-> dst, err |-> err])
          /\ content' = [content EXCEPT ![dst] = IF err THEN {} ELSE src.data]
          /\ reqState' = [r \in Fds |-> IF r = src.fd THEN "complete" ELSE reqState[r]]
          /\ erred' = (erred \/ err)
  /\ srcReady' = Tail(srcReady)
  /\ dstReady' = Tail(dstReady)
  /\ UNCHANGED <<driverVars, pictures, picOf, call>>

-----------------------------------------------------------------------------
(* vaSyncSurface and vaDeriveImage.  VIDIOC_DQBUF hands out the oldest     *)
(* buffer that is done; a marked one is dequeued and then reported.  The   *)
(* device is opened O_NONBLOCK, so an empty queue is an error too.         *)

Good(done) == done # << >> /\ ~Head(done).err

DequeueSrcFail ==
  /\ ~Good(srcDone)
  /\ srcDone' = IF srcDone = << >> THEN srcDone ELSE Tail(srcDone)
  /\ UNCHANGED dstDone

DequeueDstFail ==
  /\ Good(srcDone) /\ ~Good(dstDone)
  /\ srcDone' = Tail(srcDone)
  /\ dstDone' = IF dstDone = << >> THEN dstDone ELSE Tail(dstDone)

\* Variant: only the source buffer is taken back.
DequeueSourceOnly ==
  /\ Good(srcDone) /\ Good(dstDone)
  /\ srcDone' = Tail(srcDone)
  /\ UNCHANGED dstDone

DequeueBoth ==
  /\ Good(srcDone) /\ Good(dstDone)
  /\ srcDone' = Tail(srcDone)
  /\ dstDone' = Tail(dstDone)

SyncCrash(s) ==
  /\ Running /\ s \in live \ bound /\ status[s] = "Rendering"
  /\ crashed' = TRUE
  /\ UNCHANGED <<media, live, bound, status, params, source, request, target, waiting,
                 reqState, queueVars, history>>

\* OPERATION_FAILED: the surface stays Rendering.  vaDeriveImage returns it too.
SyncSurfaceFail(s) ==
  /\ Running /\ s \in live \cap bound /\ status[s] = "Rendering"
  /\ DequeueSrcFail \/ DequeueDstFail
  /\ UNCHANGED <<driverVars, reqState, srcReady, dstReady, content, history>>

SyncSurface(s) ==
  /\ Running /\ s \in live \cap bound /\ status[s] = "Rendering"
  /\ DequeueBoth
  /\ status' = [status EXCEPT ![s] = "Displaying"]
  /\ call' = [call EXCEPT ![s] = "none"]
  /\ UNCHANGED <<media, live, bound, params, source, request, target, waiting, crashed,
                 reqState, srcReady, dstReady, content, pictures, picOf, erred>>

\* vaDeriveImage synchronises the surface, copies it and makes it Ready.  When
\* the image cannot be created after that, the call is a SyncSurface(s).
DeriveImage(s) ==
  /\ Running /\ s \in live \cap bound
  /\ \/ status[s] = "Rendering" /\ DequeueBoth
     \/ status[s] # "Rendering" /\ UNCHANGED <<srcDone, dstDone>>
  /\ status' = [status EXCEPT ![s] = "Ready"]
  /\ call' = [call EXCEPT ![s] = "none"]
  /\ UNCHANGED <<media, live, bound, params, source, request, target, waiting, crashed,
                 reqState, srcReady, dstReady, content, pictures, picOf, erred>>

-----------------------------------------------------------------------------
(* vaDestroySurfaces and vaCreateSurfaces, one surface of the list at a    *)
(* time.  The device keeps the buffers of a surface that is destroyed.     *)
(* The code checks nothing: that no surface is destroyed while another     *)
(* thread is in vaEndPicture, which would go on with a surface that is     *)
(* gone, is a rule of libva's that the client keeps here.                  *)

\* Variant: the request stays open.
DestroySurfaceLeaks(s) ==
  /\ Running /\ ~waiting /\ s \in live
  /\ live' = live \ {s}
  /\ bound' = bound \ {s}
  /\ call' = [call EXCEPT ![s] = "none"]
  /\ UNCHANGED <<media, status, params, source, request, target, waiting, crashed, reqState,
                 queueVars, pictures, picOf, erred>>

\* Variant: the references to the buffers stay.
DestroySurfaceBound(s) ==
  /\ Running /\ ~waiting /\ s \in live
  /\ live' = live \ {s}
  /\ IF request[s] > 0 THEN CloseRequest(s, request[s]) ELSE UNCHANGED <<request, reqState>>
  /\ call' = [call EXCEPT ![s] = "none"]
  /\ UNCHANGED <<media, bound, status, params, source, target, waiting, crashed, queueVars,
                 pictures, picOf, erred>>

DestroySurface(s) ==
  /\ Running /\ ~waiting /\ s \in live
  /\ live' = live \ {s}
  /\ bound' = bound \ {s}
  /\ IF request[s] > 0 THEN CloseRequest(s, request[s]) ELSE UNCHANGED <<request, reqState>>
  /\ call' = [call EXCEPT ![s] = "none"]
  /\ UNCHANGED <<media, status, params, source, target, waiting, crashed, queueVars, pictures, picOf, erred>>

\* The smallest free id is handed out again; the new surface has no buffers.
CreateSurface(s) ==
  /\ Running /\ s \in Surfaces \ live
  /\ \A t \in Surfaces \ live : s <= t
  /\ live' = live \cup {s}
  /\ status' = [status EXCEPT ![s] = "Ready"]
  /\ params' = [params EXCEPT ![s] = {}]
  /\ source' = [source EXCEPT ![s] = {}]
  /\ request' = [request EXCEPT ![s] = NoFd]
  /\ UNCHANGED <<media, bound, target, waiting, crashed, reqState, queueVars, history>>

-----------------------------------------------------------------------------
Init ==
  /\ media \in BOOLEAN
  /\ live = Surfaces /\ bound = Surfaces
  /\ status = [s \in Surfaces |-> "Ready"]
  /\ params = [s \in Surfaces |-> {}]
  /\ source = [s \in Surfaces |-> {}]
  /\ request = [s \in Surfaces |-> NoFd]
  /\ target = Invalid
  /\ waiting = FALSE /\ crashed = FALSE
  /\ reqState = [fd \in Fds |-> "closed"]
  /\ srcReady = << >> /\ dstReady = << >>
  /\ srcDone = << >> /\ dstDone = << >>
  /\ content = [s \in Surfaces |-> {}]
  /\ pictures = 0
  /\ picOf = [s \in Surfaces |-> 0]
  /\ call = [s \in Surfaces |-> "none"]
  /\ erred = FALSE

Next ==
  \/ \E s \in Surfaces : BeginPicture(s)
  \/ RenderCrash
  \/ \E k \in Kinds : RenderParameter(k)
  \/ RenderSlice
  \/ RenderSliceRefused
  \/ EndPictureCrash
  \/ \E s \in Surfaces : EndPicture(s)
  \/ WaitCompletion
  \/ WaitFail
  \/ Decode
  \/ \E s \in Surfaces : SyncCrash(s)
  \/ \E s \in Surfaces : SyncSurfaceFail(s)
  \/ \E s \in Surfaces : SyncSurface(s)
  \/ \E s \in Surfaces : DeriveImage(s)
  \/ \E s \in Surfaces : DestroySurface(s)
  \/ \E s \in Surfaces : CreateSurface(s)

Spec == Init /\ [][Next]_vars

-----------------------------------------------------------------------------
(* Properties of every behaviour: whatever calls the client makes, whichever *)
(* of the ioctls fail.                                                       *)

Marks == 0 .. MaxPictures
RequestState == {"closed", "idle", "queued", "complete"}
Bitstream == [buf : Surfaces, fd : Fds \cup {NoFd}, data : SUBSET Marks]
Done == [buf : Surfaces, err : BOOLEAN]

DriverTypeOK ==
  /\ live \subseteq Surfaces /\ bound \subseteq live
  /\ status \in [Surfaces -> {"Ready", "Rendering", "Displaying"}]
  /\ params \in [Surfaces -> SUBSET Kinds]
  /\ source \in [Surfaces -> SUBSET Marks]
  /\ request \in [Surfaces -> Fds \cup {NoFd}]
  /\ target \in Surfaces \cup {Invalid}
  /\ media \in BOOLEAN /\ waiting \in BOOLEAN /\ crashed \in BOOLEAN

KernelTypeOK ==
  /\ reqState \in [Fds -> RequestState]
  /\ srcReady \in Seq(Bitstream)
  /\ dstReady \in Seq(Surfaces)
  /\ srcDone \in Seq(Done) /\ dstDone \in Seq(Done)
  /\ content \in [Surfaces -> SUBSET Marks]

HistoryTypeOK ==
  /\ pictures \in Marks
  /\ picOf \in [Surfaces -> Marks]
  /\ call \in [Surfaces -> {"none", "open", "failed", "ended"}]
  /\ erred \in BOOLEAN

\* The variables stay in their domains, and only live surfaces have buffers.
TypeOK == DriverTypeOK /\ KernelTypeOK /\ HistoryTypeOK

\* Request descriptors do not leak and are not shared: the open ones are those
\* of the live surfaces, one each, across failed submissions, timeouts,
\* destroyed surfaces and surface ids that are handed out again.
RequestsOwned ==
  /\ \A fd \in Fds : reqState[fd] # "closed" => \E s \in live : request[s] = fd
  /\ \A s \in live : request[s] # NoFd => reqState[request[s]] # "closed"
  /\ \A s, t \in live : request[s] = request[t] /\ request[s] # NoFd => s = t

WaitsForOwn == waiting => target \in live /\ request[target] # NoFd
HeldWhileWaiting ==
  \A fd \in Fds :
    reqState[fd] \in {"queued", "complete"} <=> waiting /\ request[target] = fd
EntryIsTarget ==
  \A i \in 1 .. Len(srcReady) :
    srcReady[i].fd # NoFd =>
      waiting /\ srcReady[i].fd = request[target] /\ srcReady[i].buf = target
OneEntry ==
  \A i, j \in 1 .. Len(srcReady) :
    srcReady[i].fd # NoFd /\ srcReady[j].fd # NoFd => i = j
EntryUntilComplete ==
  waiting =>
    (reqState[request[target]] = "queued" <=>
       \E i \in 1 .. Len(srcReady) : srcReady[i].fd # NoFd)

\* A request is with the device only while vaEndPicture waits for it, and its
\* completion is owed by exactly one buffer, the one queued with it: what a
\* timed out picture left with the device completes no later request.
RequestInFlight ==
  WaitsForOwn /\ HeldWhileWaiting /\ EntryIsTarget /\ OneEntry /\ EntryUntilComplete

\* The destination is queued first and nothing takes it back, so a bitstream
\* never waits for a buffer to be decoded to, whichever submission failed.
SourceBehindDestination == Len(srcReady) <= Len(dstReady)
=============================================================================

------------------------------- MODULE Contexts -------------------------------
(***************************************************************************)
(* Contexts, surfaces and the buffers that tie them: vaCreateContext and   *)
(* vaDestroyContext (context.cc, createSurfacesDeferred in surface.cc),    *)
(* the life of surfaces, and the two buffer queues of one device (v4l2.cc).*)
(*                                                                         *)
(* A surface refers to elements of the device's capture_buffers and        *)
(* output_buffers.  Those vectors are refilled by every request_buffers,   *)
(* so a reference is written as the generation of the vector it was taken  *)
(* from and an index; it dangles once the vector was refilled.             *)
(*                                                                         *)
(* The calls below hold DriverData::mutex while they change state, so each *)
(* is one action.                                                          *)
(***************************************************************************)
EXTENDS Integers, Sequences, FiniteSets

CONSTANTS
  Surfaces,      \* surface ids, 0 .. n - 1
  ContextIds,    \* context ids, 0 .. n - 1
  Faults,        \* what may fail: steps of context creation, and "destroy"
  Fewer,         \* VIDIOC_REQBUFS may allocate fewer buffers than asked for
  Derived,       \* the capture format is NV12, whose layout is derived; or NV12M
  MaxGeneration  \* bound: refills of a vector in a behaviour

\* What Context::create does, in this order.
Steps == <<"setOutputFormat", "setCaptureFormat", "requestCapture", "mapCapture", "bindCapture",
           "requestOutput", "mapOutput", "bindOutput", "streamCapture", "streamOutput", "codec">>
Success == Len(Steps) + 1

ASSUME ContextsAssumption ==
  /\ IsFiniteSet(Surfaces) /\ Surfaces = 0 .. Cardinality(Surfaces) - 1
  /\ ContextIds \subseteq Nat
  /\ Faults \subseteq {Steps[i] : i \in 1 .. Len(Steps)} \cup {"destroy"}
  /\ Fewer \in BOOLEAN /\ Derived \in BOOLEAN
  /\ MaxGeneration \in Nat

VARIABLES
  \* the driver
  live,         \* keys of DriverData::surfaces
  contexts,     \* DriverData::contexts: the surfaces each context was given
  source,       \* Surface::source_buffer
  destination,  \* Surface::destination_buffer
  planes,       \* size of Surface::logical_destination_layout
  output,       \* V4L2M2MDevice::output_buffers: generation and size
  capture,      \* V4L2M2MDevice::capture_buffers
  \* the kernel
  allocated,    \* buffers of the device, by queue
  streaming,    \* the queues that are streaming
  \* what went wrong
  aborted,      \* the assertion of copy_surface_to_image failed
  crashed,      \* a dangling reference was used, or a destructor threw
  \* history
  orderly       \* since the display was opened, the client kept to the order, and
                \* every failure could be undone

vars == <<live, contexts, source, destination, planes, output, capture,
          allocated, streaming, aborted, crashed, orderly>>

NoBuffer == [gen |-> 0, index |-> 0]
NoContext == << >>
ImagePlanes == 2       \* createImage makes NV12 images only

Alive == ~aborted /\ ~crashed
Open == {c \in ContextIds : contexts[c] # NoContext}
Given(c) == {contexts[c][i] : i \in 1 .. Len(contexts[c])}

Sound(ref, vector) == ref.gen = vector.gen /\ ref.index < vector.len

\* The lists a client may pass: surfaces that exist, none twice.
Lists == {<< >>} \cup
  UNION {{f \in [1 .. n -> live] : \A i, j \in 1 .. n : f[i] = f[j] => i = j} :
           n \in 1 .. Cardinality(live)}

-----------------------------------------------------------------------------
(* Surfaces. *)

SmallestFree(keys, used) ==
  {k \in keys \ used : \A j \in keys \ used : k <= j}

CreateSurface(s) ==
  /\ Alive
  /\ s \in SmallestFree(Surfaces, live)
  /\ live' = live \cup {s}
  /\ source' = [source EXCEPT ![s] = NoBuffer]
  /\ destination' = [destination EXCEPT ![s] = NoBuffer]
  /\ planes' = [planes EXCEPT ![s] = 0]
  /\ UNCHANGED <<contexts, output, capture, allocated, streaming, aborted, crashed, orderly>>

\* An orderly client keeps the surfaces of a context until it is destroyed,
\* and destroys the newest first.
MayDestroySurface(s) == Open = {} /\ \A t \in live : t <= s

DestroySurface(s) ==
  /\ Alive /\ s \in live
  /\ live' = live \ {s}
  /\ orderly' = (orderly /\ MayDestroySurface(s))
  /\ UNCHANGED <<contexts, source, destination, planes, output, capture,
                 allocated, streaming, aborted, crashed>>

\* vaDeriveImage or vaGetImage copies a surface, which follows its destination
\* buffer; vaGetImage does not check that there is one.  A dangling one may end
\* the process, or read whatever is there now.  An orderly client copies surfaces of
\* a live context.
MayCopy(s) == \E c \in Open : s \in Given(c)

CopySurface(s) ==
  /\ Alive /\ s \in live
  /\ orderly' = (orderly /\ MayCopy(s))
  /\ aborted' = (planes[s] # ImagePlanes)
  /\ crashed' \in IF aborted' \/ Sound(destination[s], capture) THEN {FALSE} ELSE BOOLEAN
  /\ UNCHANGED <<live, contexts, source, destination, planes, output, capture,
                 allocated, streaming>>

-----------------------------------------------------------------------------
(* vaCreateContext. *)

\* An orderly client has one context at a time and gives it every surface.
MayCreate(ids) ==
  /\ Open = {}
  /\ live = 0 .. Len(ids) - 1
  /\ \A i \in 1 .. Len(ids) : ids[i] = i - 1

\* Whether a step fails whatever happens: VIDIOC_S_FMT refuses a queue that is in
\* use, a context needs a surface, and the source buffers are bound to the
\* surfaces 0 .. n - 1, whichever were given.
Refused(step, ids) ==
  CASE step = "setOutputFormat"  -> "output" \in streaming \/ allocated.capture > 0
    [] step = "setCaptureFormat" -> ids = << >>
    [] step = "bindOutput"       -> ~(0 .. Len(ids) - 1 \subseteq live)
    [] OTHER                     -> FALSE

CanFail == Faults \ {"bindCapture", "bindOutput", "destroy"}

Position(step) == CHOOSE i \in 1 .. Len(Steps) : Steps[i] = step
Passed(step, k) == k > Position(step)

\* The failures that leave the device as it was.
Undone(k) == k = Success \/ Steps[k] \in {"setOutputFormat", "setCaptureFormat", "requestCapture", "codec"}

\* Creation stops at step k, the first that fails, or succeeds.
StopsAt(k, ids) ==
  /\ \A i \in 1 .. k - 1 : ~Refused(Steps[i], ids)
  /\ k \in 1 .. Len(Steps) => Refused(Steps[k], ids) \/ Steps[k] \in CanFail

\* Buffers asked for, and got.
Granted(n) == IF Fewer THEN {n, n - 1} \cap Nat ELSE {n}

\* map_buffer: how many of n buffers are mapped when creation stops at step k.
Mapped(n, step, k) == IF k = Position(step) THEN 0 .. n - 1 ELSE {n}

\* request_buffers: every buffer of the list is unmapped, and the new ones put in
\* as they are mapped.
Refilled(vector, n) == [gen |-> vector.gen + 1, len |-> n]

\* Variant: the surfaces are numbered from one.
BindCaptureFromOne(ids, gen) ==
  [s \in Surfaces |->
     IF \E i \in 1 .. Len(ids) : ids[i] = s
     THEN [gen |-> gen, index |-> CHOOSE i \in 1 .. Len(ids) : ids[i] = s]
     ELSE destination[s]]

\* Variant: a surface that has a destination buffer keeps it.
BindCaptureOnce(ids, gen) ==
  [s \in Surfaces |->
     IF (\E i \in 1 .. Len(ids) : ids[i] = s) /\ destination[s] = NoBuffer
     THEN [gen |-> gen, index |-> (CHOOSE i \in 1 .. Len(ids) : ids[i] = s) - 1]
     ELSE destination[s]]

\* The i-th surface of the list gets the i-th capture buffer.
BindCapture(ids, gen) ==
  [s \in Surfaces |->
     IF \E i \in 1 .. Len(ids) : ids[i] = s
     THEN [gen |-> gen, index |-> (CHOOSE i \in 1 .. Len(ids) : ids[i] = s) - 1]
     ELSE destination[s]]

\* Variant: the context is entered before the codec's constructor ran.
EnteredEarly(c, ids, k) ==
  IF k = Position("codec") \/ k = Success THEN [contexts EXCEPT ![c] = ids] ELSE contexts

\* The context is entered when all of it was constructed.
Entered(c, ids, k) == IF k = Success THEN [contexts EXCEPT ![c] = ids] ELSE contexts

\* Variant: the layout is appended whatever the format.
NewPlanesAppended(s) == planes[s] + ImagePlanes

\* The layout of an NV12M surface is appended to the one it had before.
NewPlanes(s) == IF Derived THEN ImagePlanes ELSE planes[s] + ImagePlanes

\* The surfaces whose source buffer was bound before the first id was missing.
BoundOutputs(k, n) ==
  IF Passed("bindOutput", k) THEN 0 .. n - 1
  ELSE IF Passed("mapOutput", k) THEN {i \in 0 .. n - 1 : 0 .. i \subseteq live} ELSE {}

\* Variant: the capture buffers stay allocated.
ReleaseStreamsOnly(captureVector, outputCount) ==
  /\ streaming' = {}
  /\ capture' = captureVector
  /\ allocated' = [capture |-> captureVector.len, output |-> outputCount]

\* Variant: the driver keeps its list of the buffers it freed.
ReleaseKeepsList(captureVector, outputCount) ==
  /\ streaming' = {}
  /\ capture' = captureVector
  /\ allocated' = [capture |-> 0, output |-> outputCount]

\* ~Context: the queues are stopped and the capture buffers freed.
Release(captureVector, outputCount) ==
  /\ streaming' = {}
  /\ capture' = Refilled(captureVector, 0)
  /\ allocated' = [capture |-> 0, output |-> outputCount]

\* Context::Context up to step k, when n capture buffers and m output buffers are
\* granted, and i and j of them mapped.
Construct(ids, k, n, m, i, j) ==
  LET filled == IF Passed("requestCapture", k) THEN Refilled(capture, i) ELSE capture
      \* a failed VIDIOC_REQBUFS has freed the buffers that were there
      outputs == IF Passed("requestOutput", k) THEN m
                 ELSE IF k = Position("requestOutput") THEN 0 ELSE allocated.output
  IN /\ IF ~Passed("mapCapture", k) THEN UNCHANGED <<destination, planes>> ELSE
          /\ destination' = BindCapture(ids, filled.gen)
          /\ planes' = [s \in Surfaces |->
                IF \E d \in 1 .. Len(ids) : ids[d] = s THEN NewPlanes(s) ELSE planes[s]]
     /\ output' = IF Passed("requestOutput", k) THEN Refilled(output, j) ELSE output
     /\ source' = [s \in Surfaces |->
          IF s \in BoundOutputs(k, Len(ids))
          THEN [gen |-> output'.gen, index |-> s] ELSE source[s]]
     /\ IF k = Position("codec") THEN Release(filled, outputs)
        ELSE /\ capture' = filled
             /\ allocated' = [capture |-> IF Passed("requestCapture", k) THEN n ELSE allocated.capture,
                              output  |-> outputs]
             /\ streaming' = streaming \cup (IF Passed("streamCapture", k) THEN {"capture"} ELSE {})
                                       \cup (IF Passed("streamOutput", k) THEN {"output"} ELSE {})

CreateContext(c, ids, k) ==
  /\ Alive
  /\ c \in SmallestFree(ContextIds, Open)
  /\ capture.gen < MaxGeneration /\ output.gen < MaxGeneration
  /\ StopsAt(k, ids)
  /\ \E n, m \in Granted(Len(ids)) :
     \E i \in Mapped(n, "mapCapture", k), j \in Mapped(m, "mapOutput", k) :
       /\ Construct(ids, k, n, m, i, j)
       /\ orderly' = (orderly /\ MayCreate(ids) /\ Undone(k) /\ n = Len(ids) /\ m = Len(ids))
  /\ contexts' = Entered(c, ids, k)
  /\ UNCHANGED <<live, aborted, crashed>>

DestroyContext(c) ==
  /\ Alive /\ c \in Open
  /\ contexts' = [contexts EXCEPT ![c] = NoContext]
  /\ Release(capture, allocated.output)
  /\ UNCHANGED <<live, source, destination, planes, output, aborted, crashed, orderly>>

\* An ioctl of the destructor fails: the exception ends the process.
DestroyContextCrash(c) ==
  /\ Alive /\ c \in Open
  /\ "destroy" \in Faults
  /\ crashed' = TRUE /\ orderly' = FALSE
  /\ UNCHANGED <<live, contexts, source, destination, planes, output, capture,
                 allocated, streaming, aborted>>

-----------------------------------------------------------------------------
\* vaTerminate, and vaInitialize after it: what contexts and surfaces are left are
\* destroyed, by erasing them from the map that is iterated over, which is
\* undefined; the device is closed with its buffers, and opened again.
Terminate ==
  /\ Alive
  /\ capture.gen < MaxGeneration /\ output.gen < MaxGeneration
  /\ \/ /\ live' = {}
        /\ contexts' = [c \in ContextIds |-> NoContext]
        /\ Release(capture, 0)
        /\ output' = Refilled(output, 0)
        /\ orderly' = (live = {} /\ Open = {})
        /\ UNCHANGED crashed
     \/ /\ live # {} \/ Open # {}
        /\ crashed' = TRUE /\ orderly' = FALSE
        /\ UNCHANGED <<live, contexts, output, capture, allocated, streaming>>
  /\ UNCHANGED <<source, destination, planes, aborted>>

-----------------------------------------------------------------------------
Init ==
  /\ live = {}
  /\ contexts = [c \in ContextIds |-> NoContext]
  /\ source = [s \in Surfaces |-> NoBuffer]
  /\ destination = [s \in Surfaces |-> NoBuffer]
  /\ planes = [s \in Surfaces |-> 0]
  /\ output = [gen |-> 1, len |-> 0]
  /\ capture = [gen |-> 1, len |-> 0]
  /\ allocated = [capture |-> 0, output |-> 0]
  /\ streaming = {}
  /\ aborted = FALSE /\ crashed = FALSE
  /\ orderly = TRUE

Next ==
  \/ \E s \in Surfaces : CreateSurface(s)
  \/ \E s \in Surfaces : DestroySurface(s)
  \/ \E s \in Surfaces : CopySurface(s)
  \/ \E c \in ContextIds : \E ids \in Lists : \E k \in 1 .. Success : CreateContext(c, ids, k)
  \/ \E c \in ContextIds : DestroyContext(c)
  \/ \E c \in ContextIds : DestroyContextCrash(c)
  \/ Terminate

Spec == Init /\ [][Next]_vars

-----------------------------------------------------------------------------
(* Properties. *)

Ref == [gen : 0 .. MaxGeneration + 1, index : Surfaces]
Vector == [gen : 1 .. MaxGeneration + 1, len : Nat]

\* The variables stay in their domains; no reference has an index that a list of
\* surfaces cannot have.
TypeOK ==
  /\ live \subseteq Surfaces
  /\ contexts \in [ContextIds -> Seq(Surfaces)]
  /\ source \in [Surfaces -> Ref] /\ destination \in [Surfaces -> Ref]
  /\ planes \in [Surfaces -> Nat]
  /\ output \in Vector /\ capture \in Vector
  /\ allocated \in [capture : Nat, output : Nat]
  /\ streaming \subseteq {"capture", "output"}
  /\ aborted \in BOOLEAN /\ crashed \in BOOLEAN /\ orderly \in BOOLEAN

\* A context has its device to itself and both of its queues are running: the
\* driver does not look, a second vaCreateContext fails at its first ioctl.
ContextOwnsDevice ==
  /\ Cardinality(Open) <= 1
  /\ Open # {} => streaming = {"capture", "output"}

\* Whatever failed, the driver's list of capture buffers has none that the kernel
\* freed, and the list of a context that lives has all of the kernel's: a failed
\* mapping leaves a shorter one, and no context.
CaptureIsAllocated ==
  /\ capture.len <= allocated.capture
  /\ Open # {} => capture.len = allocated.capture

\* The surfaces of an orderly client's context have a source and a destination
\* buffer of their own, also when they were in another context before, or in a
\* creation that failed.
RefsSound ==
  orderly =>
    \A c \in Open : \A s \in Given(c) :
      /\ Sound(source[s], output) /\ Sound(destination[s], capture)
      /\ \A t \in Given(c) \ {s} :
           source[s] # source[t] /\ destination[s] # destination[t]

\* After vaDestroyContext, and after a vaCreateContext that failed before there were
\* buffers or in the codec, nothing on the device would refuse the next one.
IdleIsClean == orderly /\ Open = {} => streaming = {} /\ allocated.capture = 0

\* Copying a surface of a live context follows no dangling reference, and the
\* image has the planes of the surface.
CopiesAreSafe == orderly => ~aborted /\ ~crashed

\* image.cc:57: "assert(image->num_planes == surface.logical_destination_layout.size())",
\* for a client that copies surfaces of a live context only.
PlanesMatch == orderly => ~aborted
=============================================================================

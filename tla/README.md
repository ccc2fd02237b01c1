# Verification of libva-v4l2

libva-v4l2 is a back end of libva: it decodes MPEG2, H264, VP8 and VP9 on the
stateless decoders that Linux offers through V4L2. This directory holds TLA+
models of the driver (`src/src/*.cc`), the TLC runs that check them on small
instances, and proofs for TLAPS. Paths below are relative to `src/src/`.

Run in this directory:

    tlc -workers 2 -config MCPicturesAny.cfg MCPicturesAny.tla
    tlapm PictureProofs.tla

`PROJECT.json` lists the runs, the lines every definition models, the hazards
and the mutants: for each property of a passing run, a plausible bug (operators
whose comment starts with "Variant:") under which TLC finds the property violated.

## 1. The system

A client (a player) calls the driver through libva's table of functions, from
any thread. The driver keeps five maps in `DriverData`, with the smallest free
key as the next id, and one mutex that some calls hold while they change a map.
The kernel keeps, per device, a queue of source (bitstream) buffers, one of
destination (picture) buffers, and the media requests that tie controls and a
source buffer together.

| Component | State | Operations | Interacts with |
|---|---|---|---|
| Decode path (`picture.cc`, `media.cc`) | `render_surface_id` of a context; `status`, `params`, `source_size_used`, `request_fd`, `timestamp` of a surface | `beginPicture`, `renderPicture`, `endPicture`; allocate, queue, wait for (300 ms), reinitialise a request | codec (`store_buffer`, `set_controls`), kernel queues, requests |
| Surfaces (`surface.cc`) | map of surfaces; references to the two buffers; layout of planes | create, create deferred (buffers), destroy, sync, query, export | contexts, kernel queues, images |
| Contexts (`context.cc`) | map of contexts, each with a codec | create (eleven steps), destroy, supported profiles | device formats, buffers, streaming; surfaces |
| V4L2 device (`v4l2.cc`) | descriptors, formats, `capture_buffers`, `output_buffers` | scan, probe, open, move, close; set format, request and map buffers, queue, dequeue, stream, controls, export | kernel |
| Configurations (`config.cc`) | map of configurations with their attributes | create, destroy, queries | devices, codecs |
| Buffers (`buffer.cc`) | map of buffers with their memory | create, destroy, resize, map, info | pictures keep pointers into them |
| Images (`image.cc`) | map of images, each owning a buffer | create, derive, get, destroy | buffers, surfaces |
| Formats (`format.cc`) | constant table | look up, derive the layout of NV12 | surfaces, images |
| Codecs (`h264.cc`, `mpeg2.cc`, `vp8.cc`, `vp9.cc`) | H264: the decoded picture buffer; the request and the device hold what was set | `store_buffer`, `set_controls`, supported profiles | surfaces (timestamps of references), controls |
| Entry points (`driver.cc`) | `DriverData` | init, terminate | all |
| Subpictures, logging, kernel headers, media tests | none | stubs, output | |

What is hard here:

- *Ordering.* `VIDIOC_DQBUF` ignores the index it is given and hands out the
  oldest finished buffer. The driver calls it on "the buffer of a surface". That
  it works rests on `endPicture` waiting for its request, or on the client's order.
- *Partial failure.* Nearly every call is a chain of ioctls with a return after
  each; what was done before is seldom undone. Pictures fail in the device as
  well, and come back marked.
- *Timeouts.* `endPicture` gives up a request that the device goes on with.
- *Stale state.* Surfaces keep references into vectors that are refilled,
  pointers into buffers of the client, data and controls of pictures that
  failed. The device keeps controls that a later picture does not set.
- *Atomicity.* The mutex is released inside calls, and lookups come before it.
- *Limits.* Sixteen slots of the H264 table, descriptors, a vector that moves its
  elements when it grows, the list of profiles, the client's arrays.
- *Packing.* Elements of the bitstream are moved between three layouts (VA-API,
  the kernel's structures, the bitstream), with different orders and codes.

What makes each component correct: a surface that was given back holds the
picture it was begun for (decode path); requests do not leak (decode path);
surfaces of a live context refer to live buffers of their own (contexts); the
device can be used again after a failure or a destruction (contexts); the
device is told of exactly the stream's references (H264), finds them by
timestamp, and decodes each picture with its own parameters (all codecs); an
image owns its buffer and holds the samples of its surface (images); devices
keep their descriptors and give them back (V4L2 device); what is advertised or
accepted can be decoded (configurations). `PROJECT.json` lists the hazards with
the properties for them.

## 2. Modules

| Module | Models | Extends |
|---|---|---|
| `Picture` | the decode path, every client, every failure | |
| `SurfaceStore` | what the decode path promises: an abstract specification | |
| `PictureClient` | `Picture` with a client in libva's order, fairness, the refinement | `Picture` |
| `References` | timestamps of references, composed with `PictureClient` | `PictureClient` |
| `H264Dpb` | `h264_dpb`, the table of references | |
| `H264Controls` | the H264 controls: lists, weights, scaling lists, flags, and their order | `H264Dpb` |
| `Mpeg2Controls`, `Vp8Controls`, `Vp9Controls` | the controls of the others, and the structures of the kernel they fill | |
| `Codecs` | every codec with the requests, failures and the device's controls | the four above |
| `Contexts` | contexts, surfaces, both buffer vectors, failures of every step, termination | |
| `ImageCopy` | layouts of planes, the copy of a surface into an image, the export of a surface | |
| `Buffers` | buffers and images of two threads, pointers of pictures, termination | |
| `Devices` | finding, opening, moving and closing the devices of a machine | |
| `Capabilities` | profiles, configurations, choice of device and codec, on the devices found | `Devices` |
| `PictureProofs`, `ContextsProofs`, `BuffersProofs`, `ImageCopyProofs`, `CodecsProofs`, `CapabilitiesProofs` | theorems | the module of their name |
| `PictureClientProofs` | theorems, the refinement among them | `PictureClient`, `PictureProofs` |
| `ReferencesProofs` | theorems | `References`, `PictureClientProofs` |

`MC*` modules hold the constants of the runs. Three compositions bring
components together: `References` (decode path, surfaces and codecs), `Codecs`
(all codecs with requests and device), `Capabilities` (devices, codecs,
configurations, surfaces and contexts).

### Picture

One context with one device, with or without a media node (`media`, chosen once).
Surface `s` has source buffer `s` and destination buffer `s`, as
`Context::Context` binds them (`Contexts` models how). Variables carry the names
of the members they model; `target` is `render_surface_id`, `source` the pictures
whose bytes are below `source_size_used`.

| Action | Code |
|---|---|
| `BeginPicture` | `beginPicture` |
| `RenderParameter`, `RenderSlice`, `RenderSliceRefused`, `RenderCrash` | one buffer of `renderPicture`, through `store_buffer`. `StartCode` says whether the codec writes a prefix before it checks the size (VP8, H264), `SliceNeeds` which parameters it dereferences for a slice (VP8) |
| `EndPictureCrash` | `surfaces.at`, `media_request_alloc` and null parameters in `endPicture` |
| `EndPictureControlsFail`, `...DstFail`, `...SrcFail` | its returns up to `picture.cc:130` |
| `EndPictureRequestFail`, `EndPictureSubmit`, `WaitCompletion`, `WaitFail` | `picture.cc:133-144`; the call waits between `EndPictureSubmit` and `WaitCompletion` or `WaitFail`, where the device and other threads run |
| `EndPictureQueued` | the whole call on a device without a media node |
| `SyncSurface`, `SyncSurfaceFail`, `SyncCrash` | `syncSurface`; a failure may have dequeued the source buffer |
| `DeriveImage` | `deriveImage` as far as the surface and the queues go |
| `DestroySurface`, `CreateSurface` | one id of the lists of `destroySurfaces`, `createSurfaces2` |
| `Decode` | the kernel (external): takes the head of both queues, whichever surfaces they belong to, completes the request of the source buffer, and may mark both as erroneous |

Kernel behaviour that is assumed, from the V4L2 and media request interface:
queues are first in first out; a queued buffer is refused until dequeued; a
request takes controls and buffers only while idle; closing a request does not
stop a decode that was queued. A buffer whose request could not be queued is
given back. `Faults` names the ioctls that may fail.

`PictureClient` restricts the calls to a client that ends a picture before it
begins the next, gives each parameter once, synchronises only what it ended,
without requests in the order of decoding, and gives up a surface after a
failure. `Picture` itself has none of this: its client does anything.

`SurfaceStore` has three kinds of steps: a surface is taken for the next
picture, given back with that picture and no other, and retired. After the
device failed to decode a picture (`Damage`) a surface may be given back with
nothing; it never holds another picture.

`References`: `stamp` is `Surface::timestamp`, written before anything can fail
(`picture.cc:113`); `sent` is what was queued with the source buffer; `mark` is
what the device copied to the destination buffer. The operators `Mpeg2Reference`
... `H264Reference` say what each codec sends for a reference. The clock of the
model never goes back; calls of `endPicture` see different times.

### Codecs

`H264Dpb`: one `set_controls` finds or takes a slot, clears and reserves it,
updates the references, describes the table to the device, and inserts the
picture if the controls were set. Field flags and picture order counts are left
out. `zeroed` is FALSE where the context was put in memory that is not zero,
since the constructor does not initialise the table; `gaps` is TRUE for a stream
that refers to pictures it did not decode.

`H264Controls` adds the slice: in which order the seven controls are set, which
of the lists and weights belong to the slice, and the slot an index of a list
leads to in the table that the device is sent. The other codecs' modules hold
the records that the driver fills (`struct v4l2_ctrl_*` of
`include/linux/v4l2-controls.h`), with the codes and bits of every element that
is converted; an element that is copied unchanged is the number `n` of the picture
it comes from. `Vp8Controls` writes the frame tag byte by byte, as `vp8.cc` does,
and parses it again as a device would. `Vp9Controls` has the state of GStreamer's
parser, which the driver makes new for every picture.

In `Codecs` a submission is one picture with the outcome of its calls. `request`
holds the controls a surface's request was given, `device` those the device has:
a control that is not set keeps its value. A submission that fails leaves data,
parameters and controls behind (`Leave`), one that succeeds clears them (`Clear`).

### Contexts, buffers, images

`Contexts`: a reference to a buffer is the generation of its vector and an
index; it is sound while the vector was not refilled. `CreateContext(c, ids, k)`
stops at step `k` of `Context::Context` or the codec's constructor; the two steps
that map buffers may stop in the middle of the list. `Terminate` is
`vaTerminate` and a new `vaInitialize`; what is left in the maps is erased while
they are iterated, which is undefined: it ends the process or goes on.
The client does anything; the history variable `orderly` holds while it gave all
of its surfaces, numbered from 0, to one context at a time, and no creation failed
in a way the constructor does not undo (`Undone`). Some properties are conditional
on it.

`ImageCopy` uses the numbers of the code: widths, heights, pitches, offsets, for
NV12 and for NV12M, whose planes have a buffer each.

`Buffers`: `step` is the part of `createImage` or `destroyImage` that a thread
has behind it when it released the mutex. Memory is a set of allocations, so
that a pointer to freed memory is one that is not in the set. `stale` names the
pointers that a failed `endPicture` left, to buffers the client destroys next, and
`emptied` the buffers that `bufferSetNumElements` left without memory (a count of
zero, or an allocation that failed) while reporting success. A picture that is given
one crashes, `EndPictureCrash` where `set_controls` follows a parameter
(`mpeg2.cc:108`), `RenderDataCrash` where `store_buffer` copies a slice. `Terminate`
ends the behaviour. The look-ups that take no lock (`image.cc:126`, `buffer.cc:136`,
`picture.cc:88`) are atomic in the model.

### Devices and capabilities

`Devices`: a machine is the media devices that udev lists, each with nodes that
say what they can do, whether they open, and which formats they have. The
driver scans (`ScanMedia`), probes (`Probe`), takes what the environment names
instead (`Override`), and opens (`OpenDevice`). A media device or a node may fail to
open, or open and fail to answer a query; then the exception leaves its descriptor
open. `fds` is the process's table of
descriptors, handed out smallest first; `Grow` is the vector that moves its
elements and destroys the moved ones. `Throw` is an exception that leaves
`vaDriverInit`.

`Capabilities` uses the devices that were opened. A profile is its number in the
enumeration, which orders the sets; an attribute is its type and value.

## 3. Runs

| Run | Bounds | Shows |
|---|---|---|
| `pictures_any` | 2 surfaces, 2 descriptors, 2 pictures, all faults, with and without a media node | `TypeOK`, `RequestsOwned`, `RequestInFlight`, `SourceBehindDestination` under any client |
| `picture_client` | 3 surfaces, 3 descriptors, 4 pictures; controls, timeout, reinit, decode fail; with and without a media node | `OwnPicture`, `EndedCanBeShown`, `NoCrash`, `OnlyEarlySyncFails`, `ReferencesFound`, `MissingFindsNothing`, `ImplementsStore`, `EveryPictureShown` |
| `codecs` | H264: 5 surfaces, 4 slots, 2 references, 5 pictures (2 on a table that is not zero, or with gaps), ages up to 7; others: 3 to 4 kinds of pictures, 3 submissions; every failure | `SlotsSuffice`, `ActiveAreRefs`, `ReferencesStay`, `SliceControlsOwn` of H264; `ControlsOwn`, `MatricesReach`, `ElementsReadBack`, `Vp9HeadersOwn` |
| `codecs_scaling` | the same | violates `ScalingListsInOrder` |
| `codecs_deltas` | the same | violates `Vp9DeltasLast` |
| `contexts_any` | 2 surfaces, 2 contexts, 5 refills, every failure, fewer buffers, NV12 | `ContextOwnsDevice`, `CaptureIsAllocated`; `RefsSound`, `IdleIsClean`, `CopiesAreSafe` for an orderly client |
| `contexts_planes` | the same with NV12M, no failures | violates `PlanesMatch` |
| `image_copy` | even sizes up to 12, blocks of 1, 4, 8, both formats | `ImageFilled`; `ReadsInside` of NV12; `ExportedRowsFound` of NV12 and the first plane of NV12M |
| `image_rows` | the same | violates `RowsMatch` |
| `buffers` | 2 threads, 3 buffers, 2 images, 4 allocations that may fail, failing `endPicture`, termination | `ImagesOwnBuffers`, `NothingLeft`, `FollowsLiveMemory` |
| `capabilities` | every machine with one device; pairs of devices; machines with three nodes of which one is odd, with every override; 1 configuration; 2 attributes | `DescriptorsHeld`, `ClosedAtEnd`, `CapableDevices`, `ConfigsUsable`, `ContextDecodesProfile`, `FormatFound` |
| `capabilities_offered` | the two decoders of an RK3399 | violates `AdvertisesAll` |

Why the bounds are enough. Three surfaces are the first number where a surface
can take the buffers of a second while a third is queued, and four pictures let
a surface be used again after any of these. Two surfaces and two pictures
suffice for any client because every kind of failure can hit the first picture
and be met by the second; the theorems of section 4 lift the bound for the
invariants of that run. Four slots are the two that a picture needs beside its
references plus two references; five pictures fill them and take one away.
Three submissions are a picture that fails, one that is decoded after it, and
one that finds what both left. Five refills of each list are two contexts one
after the other and a creation that fails before, between or after. The sizes of
images cover widths and heights that are and are not multiples of every block.
Three nodes make the vector of devices grow twice, once with room to spare, and
the odd one comes first, in the middle or last. The bounds are constants in the
guards (`MaxPictures`, `MaxSubmitted`, `MaxGeneration`, `MaxAllocations`,
`MaxSize`), so that no state is cut off by a constraint.

Symmetry is used for the surfaces of `Codecs` (model values there; its action
property is invariant under permutation) and for the threads of `Buffers`.
Surfaces of the other modules are numbers, since ids are handed out smallest first.

Deadlock is not checked where the model really stops: after the bound, after a
crash or the end of the process, or when every surface was given up.

Fairness (`PictureClient`, and the same in `References`) is weak fairness of the
device (it decodes what it has when it has a buffer of both kinds), of
`WaitCompletion` (select() returns when the request completed) and of the client's
rendering, ending and showing of a picture it began. No fairness is asked of
beginning pictures or of failures. `EveryPictureShown` says that a picture leaves
`Rendering` or its client was told of a failure: after one, a surface does stay
`Rendering`, since no path of the code resets it. One surface's failure never
keeps another one's picture. On a device without requests no submission fails, and
a synchronisation that came too early takes nothing and can be repeated
(`OnlyEarlySyncFails`), so every picture is shown there. A buffer that the device marked is an exception
(`erred`): the queues are not in pairs any more.

### Disagreements found

1. `contexts_planes`: `createSurfacesDeferred` appends the planes of NV12M to a
   layout it never clears. In its second context a surface has four planes and
   `assert(image->num_planes == surface.logical_destination_layout.size())`
   (`image.cc:57`) fails.
2. `image_rows`: "Image planes may be smaller than buffer due to decoding blocks"
   (`image.cc:65`), but each plane is copied as one run of bytes, so that rows
   are skewed when the device rounded the width up.
3. `capabilities_offered`: the driver is "advertising all of their capabilities"
   (`README.md:24`), but the list of profiles ends after `V4L2_MAX_PROFILES`; a
   machine with all codecs has twelve.
4. `codecs_scaling`: "Expected list order is Intra Y, Inter Y" and then the lists
   of Cb and Cr (`v4l2-controls.h:1400`), but the second 8x8 list is put at index
   3 (`h264.cc:328`).
5. `codecs_deltas`: a delta of the VP9 loop filter that is not in the bitstream
   should be passed with "its last value" (`v4l2-controls.h:2493`), but the parser
   that would know it is made anew for every picture (`vp9.cc:51`).

Hazards that the models show and nothing promises against are no findings; their
notes in `PROJECT.json` say what happens. Examples: the offset at which the second plane of NV12M is exported, beyond its
object (`surface.cc:118`), the null pointer that a buffer resized to nothing leaves
(`buffer.cc:143`), descriptors of media devices that fail a query
(`v4l2.cc:107`), slice types 5 to 9 of H264,
the slot that a full table takes away, the first partition's size of VP8 with
several partitions, devices that a failed context creation keeps busy. Smaller
ones are only noted here: descriptor 0 is never closed (`surface.cc:146`), a
destructor that throws ends the process (`context.cc:124`), a clock that is set
back gives two pictures one timestamp (`picture.cc:113`), the constrained
baseline profile is sent as `profile_idc` 0 (`h264.cc:86`), `fields` of a
reference to a frame is 0 (`h264.cc:153`), the start code is written before the
capacity is checked (`h264.cc:431`), the exception for a device without the
capabilities is not thrown (`v4l2.cc:288`), and vaGetImage compares its rectangle
with the image only (`image.cc:213`).

## 4. Proofs

The theorems hold for every value of the constants: any number of surfaces,
descriptors, contexts, threads, buffers, pictures and sizes, every set of
failures. Each component's assumption on its constants is in its module, named
`...Assumption`. Each proof has one inductive invariant, shown of the first state
and of each action in turn.

### PictureProofs

- `TypeCorrect`: `Spec => []TypeOK`.
- `RequestsNeverLeak`: `Spec => []RequestsOwned`.
- `CompletionIsOwn`: `Spec => []RequestInFlight`.
- `DestinationsSuffice`: `Spec => []SourceBehindDestination`.

Assumed is that ids are natural numbers, that descriptor 0 is not handed out
(`destroySurfaces` leaks it, `surface.cc:146`), and that the sets of parameter
kinds are as the codecs have them.

Neither `RequestsOwned` nor `RequestInFlight` is inductive alone. When the device
completes a request, `RequestsOwned` needs to know that the request of the entry
it took is still open, which is the part `EntryIsTarget` of `RequestInFlight`:
an entry with a request belongs to the picture that is waited for. And when a
request is submitted, `RequestInFlight` needs `RequestsOwned` to know that no
other surface has it. So the inductive invariant is `RequestInv`, the type
invariant with both, proved action by action (`RequestsOwnedStep`,
`RequestInFlightStep`). `WaitFail` is the heart of it: closing the request
orphans its entry (`OrphanSeq`), so that the late decode completes nothing.
`SourceBehindDestination` is inductive with the type invariant.

### PictureClientProofs

- `SurfacesHoldTheirPicture` (`OwnPicture`), `EndedHaveBuffers`
  (`EndedCanBeShown`), `ClientImplementsStore` (`ImplementsStore`, the refinement
  of `SurfaceStore`).
- `OnlyEarlySyncsFail` (`OnlyEarlySyncFails`) where no free destination buffer is
  refused (`"qbufDst" \notin Faults`): a submission that is refused for no reason
  does fail. A vaSyncSurface that comes before the device is done fails too, as the
  device is opened with O_NONBLOCK; the theorem says that it then leaves both queues
  as they are.
- `NoneCrashes` (`NoCrash`) where there is a descriptor for each surface and
  `media_request_alloc` does not fail for want of anything else
  (`EnoughDescriptors`).

Assumed, besides `PictureAssumption`, is that there are finitely many surfaces
(`ClientAssumption`). All of these theorems, and those of `References`, have the
hypothesis `QueuedInPairs`: neither queueing a free source buffer (`picture.cc:128`)
nor queueing a request (`picture.cc:138`) fails. Each of the two leaves a destination buffer with the device that
no bitstream belongs to. The next bitstream is decoded to it, and `OwnPicture` is false
then, with requests and without. The run `picture_client` has neither fault either.

`OwnPicture` needs to know three things of every surface, and none of them alone
is inductive. `ClientInv`: where the client is with it, that is, how its calls,
its status and the number of its picture go together. `PairInv`: which buffers lie
opposite each other, in the queues of what is to be decoded and of what is
done; only a picture that the device marked leaves them shifted (`Surplus`).
`PictureInv`: a bitstream with the device is that of its surface's picture, and a
surface that may be shown has its own (`Decoded`). Without requests that needs
the order too (`ReadyInOrder`, `DoneInOrder`, `DoneBeforeReady`): a surface is
synchronised by whichever buffer is done first, and when the oldest picture is
taken, the picture that is shown has been decoded (`ShownIsDecoded`).

`EndedCanBeShown` is a matter of counting (`Counted`): buffers that are done are
not those of the pictures that were ended, but are as many, and one more when the
picture that is waited for is complete. So is `NoCrash`: each open request has a
surface of its own, so a surface without one leaves a descriptor
(`DescriptorLeft`).

The refinement is shown step by step (`StoreStep`). The client's view of the
surfaces stays as it is (`ViewStays`) in all steps but those that begin a picture,
give one back or give one up (`ViewChanges`), and in the device's, which may only
change a surface that is not shown, and may damage one when it marks it.

### ReferencesProofs

- `ReferencesLead` (`ReferencesFound`), `MissingLeadNowhere`
  (`MissingFindsNothing`).

The invariant adds the stamps to that of `PictureClient`. No two surfaces have one
stamp (`StampsDiffer`); a bitstream with the device carries the stamp its surface
still has (`SentIsStamp`), so that a late decode of a picture that was given up
marks a buffer with the stamp of its own surface; and a buffer has the stamp of no
other surface (`MarkIsOwn`). `MarkedInTime` says that the buffer of a picture that
was ended has been marked.

### ContextsProofs

- `TypeCorrect`, `DeviceOwned` (`ContextOwnsDevice`), `CaptureListSound`
  (`CaptureIsAllocated`), `ReferencesSound` (`RefsSound`), `NothingHeld`
  (`IdleIsClean`); `SafeCopies` (`CopiesAreSafe`) where the format is NV12. For
  NV12M it is false, which is the first disagreement.

That there is one context rests on what the kernel refuses, not on the driver:
an open context's queues stream (`OpenRuns`), so the first step of another is
refused (`Refused`). The other parts of the invariant follow the surfaces of a
context: they are live while an orderly client has it (`GivenLive`), so none is
created anew with its references reset; their layouts have two planes
(`GivenPlanes`). `Constructed` says what any creation does, `Completed` what one
that succeeds does, and `CreatingContext` splits on the two. Besides, the
invariant has `ListSound`: the list of capture buffers is never longer than the
kernel's, in the middle of a failed mapping too.

### BuffersProofs

- `TypeCorrect`, `ImagesHaveBuffers` (`ImagesOwnBuffers`), `MapsAccounted`
  (`NothingLeft`), `PointersLive` (`FollowsLiveMemory`), `TerminationDefined`
  (`TerminateDefined`).

The invariant says who holds what between two critical sections. `Held`: no two
clients, images or threads hold on to one buffer or image, and what is held is
there. `Accounted`: what is there is held. `Blocks`: two entries never share
memory, so that freeing one leaves the other. `Pointers`: a pointer that no
failed picture left is that of the buffer the client gave last and keeps until the
picture's end. `HasMemory`: a buffer of the client's without memory was emptied by
vaBufferSetNumElements. Together they leave one way for `FollowsNull`.

### ImageCopyProofs

- `NoReadBeyond` (`ReadsInside`), `ImageWritten` (`ImageFilled`), `SamplesHeld`
  (`PlanesHoldSamples`, for even sizes), `RowsExported` (`ExportedRowsFound`, where
  sizes or blocks are even), `SecondPlaneBeyond`.

The invariant says which calls the surface, the image, the copies and the
descriptor came from; the rest is arithmetic about products, halves and rounding
up (`Products`, `Halves`, `Rounded`, `Pairs`, `HalfRows`), which lifts the bound
of 12 on the sizes. `ExportedRowsFound` speaks of every row of both planes of NV12
and of the first plane of NV12M, not of the second: `createSurfacesDeferred` adds up
the sizes of the planes (`surface.cc:118`) as if they shared a buffer, and
`SecondPlaneBeyond` shows that the offset exported for it lies outside of its object.
Where heights and blocks are odd, the last chroma row of NV12 does not fit either. For odd sizes `PlanesHoldSamples` is false: the chroma plane
of `nv12_derive_layout` is rounded down.

### CapabilitiesProofs

- `DevicesKeepDescriptors` (`DescriptorsHeld`), `DevicesClosed` (`ClosedAtEnd`),
  `DevicesFound` (`CapableDevices`), `ConfigsDecode` (`ConfigsUsable`),
  `ContextsDecode` (`ContextDecodesProfile`), `FormatsFound` (`FormatFound`), for
  any machine: any number of media devices and nodes, any formats, any names in the
  environment, any order of the codecs' nodes.

`DevicesInv` follows the descriptors. Each device has those that were opened for
it (`DeviceHeld`), no two devices share one (`NoneShared`), and one that no device
has is a probe's (`Attributed`), until an exception leaves the one that was opened
last (`ThrownOpening`); `Attributed` is what makes `ClosedAtEnd` inductive,
for an exception closes what the devices have. It rests on two facts. A file that
is opened takes no descriptor of another (`Opened`): there always is a free one
among the first, by counting (`NextFdIsFree`). And when the vector grows, the
elements it destroys have been moved from, so nothing is closed (`GrownSame`).

For configurations, `WhileUp` says that one that was created has a profile some
device still supports, which holds since the devices are the same until
`vaTerminate` (`DevicesOnly`). `FirstChoiceDecodes` is where `Context::create`
takes the first pair of a device and a codec: there is a least one (`LeastPair`).

`DevicesFound` follows the search (`FoundInv`). While it lasts, a capable node of a
media device that was scanned is among the paths, or still to be probed
(`Scanning`); later it is opened, or is a path to be opened (`OpeningFound`). Both
lists are in the machine's order, and all of the first comes before all of the
second, so that moving the first element over keeps the order (`FrontMoves`). What
`enumerate_video_devices` lists of one media device is its video nodes, each once
and in order (`InterfacesSelected`).

### CodecsProofs

- Of H264: `ReferencesTold` (`ActiveAreRefs`), `SlotsEnough` (`SlotsSuffice`) and
  `ReferencesKept` (`ReferencesStay`) where the table is `Roomy`,
  `SliceControlsCorrect` (`SliceControlsOwn`).
- Of the other codecs: `ControlsCorrect` (`ControlsOwn`), `MatricesCorrect`
  (`MatricesReach`), `HeadersCorrect` (`Vp9HeadersOwn`).
- Of all: `TypeCorrect` (`TypeOK`), `PackingLossless` (`ElementsReadBack`), and
  `Invariance`, the invariant all of these rest on.

They hold for any number of surfaces, slots, references and submissions, and for
any pictures that `DpbAssumption`, `SlicesAssumption` and `CodecsAssumption` allow:
those say which values the fields of a picture can have.

`Roomy` has two parts. The table has two slots more than the stream has
references: one for the picture that was decoded last, which stays used until the
next `dpb_update`, and one for the picture that looks for a slot before it. This is
tight. With `MaxRefs = Size - 1` TLC finds the crash of `SlotsSuffice`: references
and last picture use all slots, `dpb_find_entry` returns null, and `h264.cc:475`
follows it. The table has 16 slots (`H264_DPB_SIZE`) and H264 allows 16 references,
so the two theorems are about streams of up to 14, in a context whose memory was
zero. The other part is that the count of pictures (an `unsigned int`, `MaxAge` in
the model) does not overflow. After that old entries look new, and neither property
is claimed.

`IInv` has three parts. `H264Inv`: the table has its type and no picture twice
(`Sound`), `ActiveAreRefs` and `SlotsSuffice`; and, for a table that started
zeroed, `Aged`: exactly the last picture and its references are used, they have the
age of the last submission, and all others are older. Without `Aged`,
`SlotsSuffice` is not inductive, since it does not say which slots are free; and
`ReferencesStay` needs it to know that the oldest unused entry is no reference.
The heart is what a loop over references does to a table (`dpb_update`), by
induction over its rounds. It needs no bound on the age, so that `ActiveAreRefs`
holds of any memory the table was put in.

`RequestsInv`: what a request holds has its types, and a surface on which no
picture failed holds nothing. `DeviceInv`: `ControlsOwn`, `MatricesReach`,
`Vp9HeadersOwn` and the packing. For `ControlsOwn` it matters that each submission
sets every control but the two it excepts, over whatever a failed one left in the
request. `PackingLossless` is arithmetic about digits, and sets of flags that no two
names share.

### Only model-checked

`EveryPictureShown`: liveness under fairness is beyond the prover. Every invariant
and every action property that a passing run checks is proved. Some hold under a
hypothesis that the run meets but not every driver does; they are the ones named
above: `Roomy`, `EnoughDescriptors`, `QueuedInPairs`, no `"qbufDst"` among the faults,
`EvenOnly`, NV12, and the assumptions on constants.

The prover cannot instantiate a theorem on induction over data. Where a proof
needs one (the loops over references, over the sets of controls and over the
interfaces of a media device), the numbers for which a fact holds are collected
in a set, and the least number outside of it is refuted (`LeastNumber`, `UpTo`).
For that these loops are recursive functions in the modules, not folds.

## 5. What is not modelled

- Subpictures, display attributes, `putSurface`, handles of buffers: stubs that
  return UNIMPLEMENTED. Logging and environment variables other than the two
  that name devices.
- `vaQuerySurfaceStatus`, `vaQuerySurfaceAttributes`, `vaQueryConfigEntrypoints`
  and the like: they read, or return constants.
- Which addresses are mapped; mappings and exported descriptors that a failure
  leaks.
- Syntax elements that the codecs copy unchanged (they are one number in the
  records); `fields`, picture order counts and long term marks of H264; the
  sizes of slices and of source buffers; odd values of table lookups without
  state, such as `profile_idc` (see the hazards).
- The parts of the kernel's headers that the driver does not use: other codecs,
  tuners, cameras, radio. They are declarations.
- Clients that race calls on one surface or destroy what another thread uses,
  except for buffers and images. What such a client reads is undefined
  (`context.cc:140`), no property of the driver can hold of it.
- The codec of a context and its decode path are in two models: `Codecs` takes
  from `Picture` that a submission ends in one of five ways, and which of them
  leave the surface as it is.
- Machines with several devices whose capture formats differ: `CreateContext` of
  `Capabilities` may crash there, and `FormatFound` promises nothing.
- Odd sizes and the second plane of NV12M in `image_copy`: the chroma plane is
  too small for the first; the copy of the second reads past its buffer, and its
  exported offset is that of another object. None of it is excluded by the code,
  nor mentioned in it.
- Devices that appear or vanish while the driver is initialised, and padding of
  rows other than the rounded width (`bytesperline`, which the driver ignores).

## 6. What could come next

1. Lookups before the mutex (`context.cc:140`, `buffer.cc:112`, `picture.cc:55`)
   against calls that erase, for clients whose threads share surfaces.
2. A composition of `H264Dpb` with `PictureClient`, where one failed submission
   is seen by both.

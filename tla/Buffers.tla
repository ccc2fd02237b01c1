------------------------------- MODULE Buffers -------------------------------
(***************************************************************************)
(* The buffers and images of a VA display (buffer.cc, image.cc), and the   *)
(* pointers into buffers that vaRenderPicture leaves in a surface.         *)
(*                                                                         *)
(* DriverData::mutex protects single calls of createBuffer, destroyBuffer  *)
(* and the update of the image map; vaCreateImage and vaDestroyImage       *)
(* release it between their two parts, where other threads run.  The other *)
(* look-ups in the maps (image.cc:126, buffer.cc:136, picture.cc:88) take  *)
(* no lock: that a map may be read while another thread changes it is a    *)
(* data race that is not modelled, a look-up is atomic here.               *)
(*                                                                         *)
(* The device has a media node: without one vaEndPicture reads no          *)
(* parameter.                                                              *)
(*                                                                         *)
(* A block of memory is known by the number of its allocation.             *)
(***************************************************************************)
EXTENDS Integers

CONSTANTS
  BufferIds, ImageIds,   \* ids, 0 .. n - 1: bounds of the maps
  Threads,
  Kinds,                 \* kinds of parameter buffer, by the pointer they set
  Required,              \* the kinds every picture is given
  AllocFails,            \* calloc and reallocarray may return NULL
  MaxAllocations         \* bound: allocations in a behaviour

ASSUME BuffersAssumption ==
  /\ BufferIds \subseteq Nat /\ ImageIds \subseteq Nat
  /\ Required \subseteq Kinds
  /\ AllocFails \in BOOLEAN
  /\ MaxAllocations \in Nat

VARIABLES
  buffers,     \* DriverData::buffers: the block of each id that is there
  images,      \* DriverData::images: VAImage::buf of each id that is there
  params,      \* Surface::params: the block each pointer points into
  step,        \* what each thread is in the middle of
  \* the allocator
  memory,      \* the blocks that are allocated
  allocations, \* their number so far
  \* the client
  owned,       \* ids of the buffers it created and did not destroy
  ownedImages, \* ids of its images
  rendered,    \* the id of the buffer of each kind it gave to the picture
  emptied,     \* whether vaBufferSetNumElements left a buffer of its without memory: "no",
               \* with a count of "zero", or because the allocation "failed"
  \* history
  stale,       \* kinds whose pointer was left by a vaEndPicture that failed
  dangled,     \* vaEndPicture has read freed memory through another pointer
  ended        \* vaTerminate was called: "no", "yes", or "crashed" in it; or a
               \* null pointer was followed before: "null"

vars == <<buffers, images, params, step, memory, allocations, owned, ownedImages, rendered,
          emptied, stale, dangled, ended>>

Null == 0
Absent == -1
Idle == [op |-> "none"]

Keys(map) == {k \in DOMAIN map : map[k] # Absent}
Free(map) == DOMAIN map \ Keys(map)

\* The buffers of the picture.
Given == {rendered[kind] : kind \in Keys(rendered)}

\* smallest_free_key
SmallestFreeKey(map) == {k \in Free(map) : \A j \in Free(map) : k <= j}

\* calloc: a new block, or none.
Allocated(block) ==
  \/ /\ block = allocations + 1 /\ block <= MaxAllocations
     /\ allocations' = block
  \/ /\ AllocFails /\ block = Null
     /\ UNCHANGED allocations

\* createBuffer: the entry stays when there is no memory for it.
AddBuffer(b, block) ==
  /\ b \in SmallestFreeKey(buffers)
  /\ Allocated(block)
  /\ buffers' = [buffers EXCEPT ![b] = block]
  /\ memory' = memory \cup ({block} \ {Null})

\* Variant: the memory is freed, the entry stays.
RemoveBufferKeepsEntry(b) ==
  /\ memory' = memory \ {buffers[b]}
  /\ UNCHANGED buffers

RemoveBuffer(b) ==
  /\ buffers' = [buffers EXCEPT ![b] = Absent]
  /\ memory' = memory \ {buffers[b]}

-----------------------------------------------------------------------------
(* Buffers.  The client destroys what it created, once, and what it gave to *)
(* a picture after vaEndPicture.                                            *)

CreateBuffer(t) ==
  /\ step[t] = Idle
  /\ \E b \in BufferIds, block \in 0 .. MaxAllocations :
       /\ AddBuffer(b, block)
       /\ owned' = IF block = Null THEN owned ELSE owned \cup {b}
  /\ UNCHANGED <<images, params, step, ownedImages, rendered, emptied, stale, dangled>>

DestroyBuffer(t, b) ==
  /\ step[t] = Idle
  /\ b \in owned \ Given /\ buffers[b] # Absent
  /\ RemoveBuffer(b)
  /\ owned' = owned \ {b} /\ emptied' = [emptied EXCEPT ![b] = "no"]
  /\ UNCHANGED <<images, params, step, allocations, ownedImages, rendered, stale, dangled>>

\* reallocarray may move the block, or fail, which loses the old one.  A count of
\* zero frees it.  SUCCESS all the same.
BufferSetNumElements(t, b) ==
  /\ step[t] = Idle
  /\ b \in owned \ Given /\ buffers[b] # Absent
  /\ \/ \E block \in 1 .. MaxAllocations :
          /\ Allocated(block)
          /\ buffers' = [buffers EXCEPT ![b] = block]
          /\ memory' = (memory \ {buffers[b]}) \cup {block}
          /\ emptied' = [emptied EXCEPT ![b] = "no"]
     \/ /\ buffers' = [buffers EXCEPT ![b] = Null]
        /\ \/ AllocFails /\ memory' = memory /\ emptied' = [emptied EXCEPT ![b] = "failed"]
           \/ memory' = memory \ {buffers[b]} /\ emptied' = [emptied EXCEPT ![b] = "zero"]
        /\ UNCHANGED allocations
  /\ UNCHANGED <<images, params, step, owned, ownedImages, rendered, stale, dangled>>

-----------------------------------------------------------------------------
(* One picture after the other, on one surface. *)

\* store_buffer keeps a pointer into a parameter buffer; the next buffer of its kind
\* takes its place.
RenderPicture(t, b, kind) ==
  /\ step[t] = Idle
  /\ b \in owned \ Given /\ buffers[b] # Absent
  /\ params' = [params EXCEPT ![kind] = buffers[b]]
  /\ rendered' = [rendered EXCEPT ![kind] = b]
  /\ stale' = stale \ {kind}
  /\ UNCHANGED <<buffers, images, step, memory, allocations, owned, ownedImages, emptied, dangled>>

\* store_buffer copies the data of a slice at once: no byte when the count is zero.
RenderDataCrash(t, b) ==
  /\ step[t] = Idle
  /\ b \in owned \ Given /\ buffers[b] = Null /\ emptied[b] # "zero"
  /\ ended' = "null"
  /\ UNCHANGED <<buffers, images, params, step, memory, allocations, owned, ownedImages, rendered,
                 emptied, stale, dangled>>

\* The client gives what every picture needs.
Complete == \A kind \in Required : rendered[kind] # Absent

\* set_controls looks at no pointer of these kinds before it follows it.
FollowsNull == \E kind \in Required : params[kind] = Null

\* set_controls follows every pointer, the others if they are set.
Follow ==
  /\ Complete /\ ~FollowsNull
  /\ dangled' = ~({params[kind] : kind \in Kinds \ stale} \subseteq memory \cup {Null})

EndPictureCrash(t) ==
  /\ step[t] = Idle
  /\ Complete /\ FollowsNull
  /\ ended' = "null"
  /\ UNCHANGED <<buffers, images, params, step, memory, allocations, owned, ownedImages, rendered,
                 emptied, stale, dangled>>

NothingRendered == [kind \in Kinds |-> Absent]

\* Variant: the pointers are kept.
EndPictureKeepsParams(t) ==
  /\ step[t] = Idle
  /\ Follow
  /\ stale' = {}
  /\ rendered' = NothingRendered
  /\ UNCHANGED <<buffers, images, params, step, memory, allocations, owned, ownedImages, emptied>>

\* The pointers are cleared when the call succeeds.  When it fails, by a timeout,
\* they stay, and the surface can be synchronised and used again.
EndPicture(t) ==
  /\ step[t] = Idle
  /\ Follow
  /\ \/ params' = [kind \in Kinds |-> Null] /\ stale' = {}
     \/ UNCHANGED params /\ stale' = {kind \in Kinds : params[kind] # Null}
  /\ rendered' = NothingRendered
  /\ UNCHANGED <<buffers, images, step, memory, allocations, owned, ownedImages, emptied>>

-----------------------------------------------------------------------------
(* Images. *)

\* vaCreateImage: first the buffer, ...
CreateImageBuffer(t) ==
  /\ step[t] = Idle
  /\ \E b \in BufferIds, block \in 0 .. MaxAllocations :
       /\ AddBuffer(b, block)
       /\ step' = [step EXCEPT ![t] = IF block = Null THEN Idle ELSE [op |-> "create", buf |-> b]]
  /\ UNCHANGED <<images, params, owned, ownedImages, rendered, emptied, stale,
                 dangled>>

\* ... then the image.
CreateImage(t) ==
  /\ step[t].op = "create"
  /\ \E i \in SmallestFreeKey(images) :
       /\ images' = [images EXCEPT ![i] = step[t].buf]
       /\ ownedImages' = ownedImages \cup {i}
  /\ step' = [step EXCEPT ![t] = Idle]
  /\ UNCHANGED <<buffers, params, memory, allocations, owned, rendered, emptied, stale,
                 dangled>>

\* vaDestroyImage: first the buffer, ...
DestroyImageBuffer(t, i) ==
  /\ step[t] = Idle
  /\ i \in ownedImages /\ images[i] # Absent
  /\ ownedImages' = ownedImages \ {i}
  /\ IF buffers[images[i]] = Absent
     THEN UNCHANGED <<buffers, memory, step>>
     ELSE /\ RemoveBuffer(images[i])
          /\ step' = [step EXCEPT ![t] = [op |-> "destroy", image |-> i]]
  /\ UNCHANGED <<images, params, allocations, owned, rendered, emptied, stale,
                 dangled>>

\* Variant: the buffer is destroyed with the image, not before.
DestroyImageTwice(t) ==
  /\ step[t].op = "destroy"
  /\ buffers' = [buffers EXCEPT ![images[step[t].image]] = Absent]
  /\ memory' = memory \ {buffers[images[step[t].image]]}
  /\ images' = [images EXCEPT ![step[t].image] = Absent]
  /\ step' = [step EXCEPT ![t] = Idle]
  /\ UNCHANGED <<params, allocations, owned, ownedImages, rendered, emptied, stale,
                 dangled>>

\* Variant: only the buffer is destroyed.
DestroyImageForgets(t) ==
  /\ step[t].op = "destroy"
  /\ step' = [step EXCEPT ![t] = Idle]
  /\ UNCHANGED <<buffers, images, params, memory, allocations, owned, ownedImages, rendered,
                 emptied, stale, dangled>>

\* ... then the image.
DestroyImage(t) ==
  /\ step[t].op = "destroy"
  /\ images' = [images EXCEPT ![step[t].image] = Absent]
  /\ step' = [step EXCEPT ![t] = Idle]
  /\ UNCHANGED <<buffers, params, memory, allocations, owned, ownedImages, rendered, emptied, stale,
                 dangled>>

-----------------------------------------------------------------------------
(* The end. *)

\* terminate: it erases buffers from the map it iterates over, which is undefined
\* when there is one: it crashes, or goes on.  No image is destroyed, their
\* buffers are gone before; DriverData frees what is left.
Terminate ==
  /\ \A t \in Threads : step[t] = Idle
  /\ \/ /\ ended' = "yes"
        /\ memory' = {}
        /\ buffers' = [b \in BufferIds |-> Absent]
        /\ images' = [i \in ImageIds |-> Absent]
        /\ params' = [kind \in Kinds |-> Null]
        /\ owned' = {} /\ ownedImages' = {} /\ rendered' = NothingRendered
        /\ emptied' = [b \in BufferIds |-> "no"]
     \/ /\ Keys(buffers) # {}
        /\ ended' = "crashed"
        /\ UNCHANGED <<buffers, images, params, memory, owned, ownedImages, rendered, emptied>>
  /\ UNCHANGED <<step, allocations, stale, dangled>>

-----------------------------------------------------------------------------
Init ==
  /\ buffers = [b \in BufferIds |-> Absent]
  /\ images = [i \in ImageIds |-> Absent]
  /\ params = [kind \in Kinds |-> Null]
  /\ step = [t \in Threads |-> Idle]
  /\ memory = {} /\ allocations = 0
  /\ owned = {} /\ ownedImages = {} /\ rendered = NothingRendered
  /\ emptied = [b \in BufferIds |-> "no"]
  /\ stale = {} /\ dangled = FALSE /\ ended = "no"

Operation ==
  \E t \in Threads :
    \/ CreateBuffer(t)
    \/ \E b \in BufferIds : DestroyBuffer(t, b)
    \/ \E b \in BufferIds : BufferSetNumElements(t, b)
    \/ \E b \in BufferIds, kind \in Kinds : RenderPicture(t, b, kind)
    \/ EndPicture(t)
    \/ CreateImageBuffer(t)
    \/ CreateImage(t)
    \/ \E i \in ImageIds : DestroyImageBuffer(t, i)
    \/ DestroyImage(t)

Crash ==
  \E t \in Threads :
    \/ \E b \in BufferIds : RenderDataCrash(t, b)
    \/ EndPictureCrash(t)

\* The client makes no call on a display that was terminated.
Next ==
  \/ ended = "no" /\ Operation /\ UNCHANGED ended
  \/ ended = "no" /\ Crash
  \/ ended = "no" /\ Terminate

Spec == Init /\ [][Next]_vars

-----------------------------------------------------------------------------
(* Properties. *)

\* The variables stay in their domains, and no entry points to freed memory.
TypeOK ==
  /\ buffers \in [BufferIds -> {Absent} \cup 0 .. MaxAllocations]
  /\ images \in [ImageIds -> {Absent} \cup BufferIds]
  /\ params \in [Kinds -> 0 .. MaxAllocations]
  /\ memory \subseteq 1 .. allocations
  /\ \A b \in Keys(buffers) : buffers[b] \in memory \cup {Null}
  /\ stale \subseteq Kinds /\ dangled \in BOOLEAN /\ ended \in {"no", "yes", "crashed", "null"}
  /\ owned \subseteq BufferIds /\ ownedImages \subseteq ImageIds
  /\ rendered \in [Kinds -> {Absent} \cup owned]
  /\ emptied \in [BufferIds -> {"no", "zero", "failed"}]

\* The buffers that images and threads hold on to.
ImageBuffers == {images[i] : i \in ownedImages} \cup {step[t].buf : t \in {u \in Threads : step[u].op = "create"}}

\* An image has a buffer of its own, whatever the threads destroy meanwhile: an
\* id that was handed out again in the middle of vaDestroyImage is not hit.
ImagesOwnBuffers ==
  /\ \A i \in ownedImages : images[i] # Absent /\ buffers[images[i]] # Absent
  /\ \A i, j \in ownedImages : images[i] = images[j] => i = j
  /\ ImageBuffers \cap owned = {}
  /\ \A b \in owned : buffers[b] # Absent

\* Nothing stays in the maps without an owner, between and after the calls, but
\* the entries without memory of createBuffer calls that failed.
NothingLeft ==
  /\ {b \in Keys(buffers) : buffers[b] # Null} \subseteq owned \cup ImageBuffers
  /\ Keys(images) = ownedImages \cup {step[t].image : t \in {u \in Threads : step[u].op = "destroy"}}

\* vaEndPicture reads no freed memory, although a surface outlives the buffers of its
\* pictures: what the picture was given is still allocated, and the pointers of the
\* pictures before are gone, those excepted that a failed vaEndPicture left.  A null
\* pointer is followed only when the client has a buffer that vaBufferSetNumElements
\* left without memory, reporting success; vaCreateBuffer hands out none.
FollowsLiveMemory ==
  /\ ~dangled
  /\ ended = "null" => \E b \in owned : emptied[b] # "no"

\* A client that destroyed its buffers and images can terminate: the maps that
\* terminate would erase from are empty then, whatever the threads did before,
\* but for the entries of createBuffer calls that failed.
TerminateDefined ==
  ended = "crashed" => owned # {} \/ ownedImages # {} \/ \E b \in BufferIds : buffers[b] = Null
=============================================================================

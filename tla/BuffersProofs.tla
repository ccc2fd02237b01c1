----------------------------- MODULE BuffersProofs -----------------------------
(***************************************************************************)
(* Proofs about Buffers, for any number of threads, ids and allocations.   *)
(***************************************************************************)
EXTENDS Buffers, TLAPS

Creating(t) == step[t].op = "create"
Destroying(t) == step[t].op = "destroy"

StepType == {Idle} \cup [op : {"create"}, buf : BufferIds] \cup [op : {"destroy"}, image : ImageIds]

Types ==
  /\ TypeOK
  /\ step \in [Threads -> StepType]
  /\ allocations \in 0 .. MaxAllocations

\* Blocks of memory are in one entry each.
Blocks ==
  \A b, c \in BufferIds : buffers[b] = buffers[c] /\ buffers[b] \notin {Absent, Null} => b = c

\* Whoever holds on to a buffer or an image, another does not, and it is there.
Held ==
  /\ \A b \in owned : buffers[b] # Absent
  /\ \A i \in ownedImages :
       images[i] # Absent /\ buffers[images[i]] # Absent /\ images[i] \notin owned
  /\ \A i, j \in ownedImages : images[i] = images[j] => i = j
  /\ \A t \in Threads : Creating(t) =>
       /\ buffers[step[t].buf] # Absent /\ step[t].buf \notin owned
       /\ \A i \in ownedImages : images[i] # step[t].buf
  /\ \A t, u \in Threads : Creating(t) /\ Creating(u) /\ step[t].buf = step[u].buf => t = u
  /\ \A t \in Threads : Destroying(t) =>
       images[step[t].image] # Absent /\ step[t].image \notin ownedImages
  /\ \A t, u \in Threads :
       Destroying(t) /\ Destroying(u) /\ step[t].image = step[u].image => t = u

\* What is there, somebody holds on to.
Accounted ==
  /\ \A b \in BufferIds : buffers[b] \notin {Absent, Null} =>
       \/ b \in owned
       \/ \E i \in ownedImages : images[i] = b
       \/ \E t \in Threads : Creating(t) /\ step[t].buf = b
  /\ \A i \in ImageIds : images[i] # Absent =>
       i \in ownedImages \/ \E t \in Threads : Destroying(t) /\ step[t].image = i

\* The pointers are into the buffers of the picture, or were left by a failed one.
Pointers ==
  \A kind \in Kinds :
    /\ rendered[kind] # Absent => params[kind] = buffers[rendered[kind]]
    /\ rendered[kind] = Absent /\ kind \notin stale => params[kind] = Null

\* A buffer of the client's has memory, but where vaBufferSetNumElements took it.
HasMemory == \A b \in owned : buffers[b] = Null => emptied[b] # "no"

Inv ==
  /\ Types /\ Blocks /\ Held /\ Accounted /\ Pointers /\ HasMemory
  /\ FollowsLiveMemory /\ TerminateDefined

-----------------------------------------------------------------------------
(* The first state, and the operations. *)

LEMMA Initially == Init => Inv
<1> SUFFICES ASSUME Init PROVE Inv
  OBVIOUS
<1>1. \A t \in Threads : step[t] = Idle /\ Idle \in StepType /\ ~Creating(t) /\ ~Destroying(t)
  BY DEF Init, Idle, StepType, Creating, Destroying
<1>2. Types
  <2>1. /\ buffers \in [BufferIds -> {Absent} \cup 0 .. MaxAllocations]
        /\ images \in [ImageIds -> {Absent} \cup BufferIds]
        /\ Keys(buffers) = {}
    BY DEF Init, Keys
  <2>2. params \in [Kinds -> 0 .. MaxAllocations] /\ allocations \in 0 .. MaxAllocations
    BY BuffersAssumption DEF Init, Null
  <2>3. step \in [Threads -> StepType]
    BY <1>1 DEF Init
  <2>4. QED
    BY <2>1, <2>2, <2>3 DEF Init, NothingRendered, Types, TypeOK
<1>3. Blocks /\ Held /\ Accounted /\ Pointers /\ HasMemory
  BY <1>1 DEF Init, NothingRendered, Blocks, Held, Accounted, Pointers, HasMemory, Absent, Null
<1>4. FollowsLiveMemory /\ TerminateDefined
  BY DEF Init, FollowsLiveMemory, TerminateDefined
<1>5. QED
  BY <1>2, <1>3, <1>4 DEF Inv

\* The kinds of steps exclude each other.
LEMMA StepKinds ==
  ASSUME Types, NEW t \in Threads
  PROVE  /\ step[t] = Idle => ~Creating(t) /\ ~Destroying(t)
         /\ Creating(t) => step[t].buf \in BufferIds /\ ~Destroying(t)
         /\ Destroying(t) => step[t].image \in ImageIds /\ ~Creating(t)
BY DEF Types, StepType, Creating, Destroying, Idle

\* A new entry is nobody's, and its block is new.
LEMMA Added ==
  ASSUME Types, Blocks, NEW b \in BufferIds, NEW block \in 0 .. MaxAllocations, AddBuffer(b, block)
  PROVE  /\ buffers[b] = Absent /\ buffers'[b] = block
         /\ \A c \in BufferIds \ {b} : buffers'[c] = buffers[c]
         /\ buffers' \in [BufferIds -> {Absent} \cup 0 .. MaxAllocations]
         /\ memory' \subseteq 1 .. allocations' /\ allocations' \in 0 .. MaxAllocations
         /\ \A c \in Keys(buffers') : buffers'[c] \in memory' \cup {Null}
         /\ memory \subseteq memory'
         /\ Blocks'
<1>1. buffers[b] = Absent /\ buffers' = [buffers EXCEPT ![b] = block]
  BY DEF AddBuffer, SmallestFreeKey, Free, Keys, Types, TypeOK
<1>2. memory' = memory \cup ({block} \ {Null}) /\ Allocated(block)
  BY DEF AddBuffer
<1>3. allocations' \in 0 .. MaxAllocations /\ memory' \subseteq 1 .. allocations'
  BY <1>2, BuffersAssumption DEF Allocated, Types, TypeOK, Null
<1>4. block = Null \/ block = allocations + 1
  BY <1>2 DEF Allocated
<1>5. \A c \in BufferIds : buffers[c] \in {Absent, Null} \cup 1 .. allocations
  BY DEF Types, TypeOK, Keys
<1>6. Blocks'
  BY <1>1, <1>4, <1>5 DEF Blocks, Types, TypeOK, Absent, Null
<1>7. \A c \in Keys(buffers') : buffers'[c] \in memory' \cup {Null}
  BY <1>1, <1>2 DEF Keys, Types, TypeOK
<1>8. QED
  BY <1>1, <1>2, <1>3, <1>6, <1>7 DEF Types, TypeOK

\* The other entries keep their blocks.
LEMMA Removed ==
  ASSUME Types, Blocks, NEW b \in BufferIds, RemoveBuffer(b), UNCHANGED allocations
  PROVE  /\ buffers'[b] = Absent
         /\ \A c \in BufferIds \ {b} : buffers'[c] = buffers[c]
         /\ buffers' \in [BufferIds -> {Absent} \cup 0 .. MaxAllocations]
         /\ memory' \subseteq 1 .. allocations'
         /\ \A c \in Keys(buffers') : buffers'[c] \in memory' \cup {Null}
         /\ Blocks'
<1>1. buffers' = [buffers EXCEPT ![b] = Absent] /\ memory' = memory \ {buffers[b]}
  BY DEF RemoveBuffer
<1>2. Blocks'
  BY <1>1 DEF Blocks, Types, TypeOK
<1>3. \A c \in Keys(buffers') : buffers'[c] \in memory' \cup {Null}
  BY <1>1 DEF Keys, Types, TypeOK, Blocks
<1>4. QED
  BY <1>1, <1>2, <1>3 DEF Types, TypeOK

\* A thread that goes on with a step changes no other thread.
LEMMA Stepping ==
  ASSUME Types, NEW t \in Threads, NEW k \in StepType, step' = [step EXCEPT ![t] = k]
  PROVE  /\ step' \in [Threads -> StepType]
         /\ step'[t] = k
         /\ \A u \in Threads \ {t} : step'[u] = step[u]
         /\ \A u \in Threads \ {t} : (Creating(u)' <=> Creating(u)) /\ (Destroying(u)' <=> Destroying(u))
BY DEF Types, Creating, Destroying

-----------------------------------------------------------------------------
(* The operations on buffers. *)

\* A buffer that is created is the client's, or has no memory.
LEMMA CreatingBuffer ==
  ASSUME Inv, NEW t \in Threads, CreateBuffer(t), UNCHANGED ended
  PROVE  Inv'
<1>1. PICK b \in BufferIds, block \in 0 .. MaxAllocations :
        /\ AddBuffer(b, block)
        /\ owned' = IF block = Null THEN owned ELSE owned \cup {b}
  BY DEF CreateBuffer
<1>2. UNCHANGED <<images, params, step, ownedImages, rendered, emptied, stale, dangled, ended>>
  BY DEF CreateBuffer
<1>3. /\ buffers[b] = Absent /\ buffers'[b] = block
      /\ \A c \in BufferIds \ {b} : buffers'[c] = buffers[c]
      /\ buffers' \in [BufferIds -> {Absent} \cup 0 .. MaxAllocations]
      /\ memory' \subseteq 1 .. allocations' /\ allocations' \in 0 .. MaxAllocations
      /\ \A c \in Keys(buffers') : buffers'[c] \in memory' \cup {Null}
      /\ Blocks'
  BY <1>1, Added DEF Inv
<1>4. block # Absent
  BY DEF Absent
<1>5. Types'
  BY <1>1, <1>2, <1>3 DEF Inv, Types, TypeOK
<1>6. \A c \in BufferIds : buffers[c] # Absent => buffers'[c] = buffers[c] /\ c # b
  BY <1>3
<1>7. b \notin owned /\ \A i \in ownedImages : images[i] \in BufferIds /\ images[i] # b
  BY <1>3 DEF Inv, Held, Types, TypeOK
<1>8. \A u \in Threads : Creating(u) => step[u].buf \in BufferIds /\ step[u].buf # b
  BY <1>3, StepKinds DEF Inv, Held
<1>9. Held'
  BY <1>1, <1>2, <1>3, <1>4, <1>6, <1>7, <1>8 DEF Inv, Held, Creating, Destroying, Types, TypeOK
<1>10. Accounted'
  BY <1>1, <1>2, <1>3, <1>6 DEF Inv, Accounted, Creating, Destroying
<1>11. Pointers'
  <2>1. \A kind \in Kinds : rendered[kind] # Absent =>
          rendered[kind] \in BufferIds /\ buffers'[rendered[kind]] = buffers[rendered[kind]]
    BY <1>3, <1>7 DEF Inv, Types, TypeOK
  <2>2. QED
    BY <1>2, <2>1 DEF Inv, Pointers
<1>12. FollowsLiveMemory' /\ TerminateDefined'
  BY <1>1, <1>2, <1>3, <1>6 DEF Inv, FollowsLiveMemory, TerminateDefined, Null, Absent
<1>14. HasMemory'
  BY <1>1, <1>2, <1>3, <1>7 DEF Inv, HasMemory, Types, TypeOK
<1> QED
  BY <1>3, <1>5, <1>9, <1>10, <1>11, <1>12, <1>14 DEF Inv

\* A buffer that is destroyed was the client's alone, and no pointer of a picture
\* is into it.
LEMMA DestroyingBuffer ==
  ASSUME Inv, NEW t \in Threads, NEW b \in BufferIds, DestroyBuffer(t, b), ended = "no", UNCHANGED ended
  PROVE  Inv'
<1>1. /\ RemoveBuffer(b) /\ owned' = owned \ {b} /\ b \in owned /\ b \notin Given
      /\ emptied' = [emptied EXCEPT ![b] = "no"]
      /\ UNCHANGED <<images, params, step, allocations, ownedImages, rendered, stale, dangled, ended>>
  BY DEF DestroyBuffer
<1>2. /\ buffers'[b] = Absent
      /\ \A c \in BufferIds \ {b} : buffers'[c] = buffers[c]
      /\ buffers' \in [BufferIds -> {Absent} \cup 0 .. MaxAllocations]
      /\ memory' \subseteq 1 .. allocations'
      /\ \A c \in Keys(buffers') : buffers'[c] \in memory' \cup {Null}
      /\ Blocks'
  BY <1>1, Removed DEF Inv
<1>a. \A kind \in Kinds : rendered[kind] # b
  BY <1>1, BuffersAssumption DEF Absent, Given, Keys, Inv, Types, TypeOK
<1>3. Types'
  <2>1. rendered' \in [Kinds -> {Absent} \cup owned']
    BY <1>1, <1>a DEF Inv, Types, TypeOK
  <2>2. QED
    BY <1>1, <1>2, <2>1 DEF Inv, Types, TypeOK
<1>4. \A i \in ownedImages : images[i] \in BufferIds /\ images[i] # b
  BY <1>1 DEF Inv, Held, Types, TypeOK
<1>5. \A u \in Threads : Creating(u) => step[u].buf \in BufferIds /\ step[u].buf # b
  BY <1>1, StepKinds DEF Inv, Held
<1>6. Held'
  BY <1>1, <1>2, <1>4, <1>5 DEF Inv, Held, Creating, Destroying, Types, TypeOK
<1>7. Accounted'
  BY <1>1, <1>2, <1>4, <1>5 DEF Inv, Accounted, Creating, Destroying
<1>8. Pointers'
  <2>1. \A kind \in Kinds : rendered[kind] # Absent =>
          rendered[kind] \in BufferIds /\ buffers'[rendered[kind]] = buffers[rendered[kind]]
    BY <1>1, <1>2, <1>a DEF Inv, Types, TypeOK
  <2>2. QED
    BY <1>1, <2>1 DEF Inv, Pointers
<1>9. FollowsLiveMemory' /\ TerminateDefined'
  BY <1>1 DEF Inv, FollowsLiveMemory, TerminateDefined
<1>11. HasMemory'
  BY <1>1, <1>2 DEF Inv, HasMemory, Types, TypeOK
<1> QED
  BY <1>2, <1>3, <1>6, <1>7, <1>8, <1>9, <1>11 DEF Inv

\* A buffer that is resized gets a new block or none, and no pointer was into it.
LEMMA Resizing ==
  ASSUME Inv, NEW t \in Threads, NEW b \in BufferIds, BufferSetNumElements(t, b), ended = "no",
         UNCHANGED ended
  PROVE  Inv'
<1>1. /\ b \in owned /\ b \notin Given /\ buffers[b] # Absent
      /\ UNCHANGED <<images, params, step, owned, ownedImages, rendered, stale, dangled, ended>>
  BY DEF BufferSetNumElements
<1>a. PICK how \in {"no", "zero", "failed"} :
        /\ emptied' = [emptied EXCEPT ![b] = how]
        /\ buffers'[b] = Null => how # "no"
  <2>1. CASE \E block \in 1 .. MaxAllocations :
          /\ Allocated(block)
          /\ buffers' = [buffers EXCEPT ![b] = block]
          /\ emptied' = [emptied EXCEPT ![b] = "no"]
    BY <1>1, <2>1 DEF Null, Inv, Types, TypeOK
  <2>2. CASE \E reason \in {"zero", "failed"} : emptied' = [emptied EXCEPT ![b] = reason]
    BY <2>2
  <2> QED BY <2>1, <2>2 DEF BufferSetNumElements
<1>2. PICK block \in 0 .. MaxAllocations :
        /\ buffers' = [buffers EXCEPT ![b] = block]
        /\ \/ /\ block = allocations + 1 /\ allocations' = block
              /\ memory' = (memory \ {buffers[b]}) \cup {block}
           \/ /\ block = Null /\ allocations' = allocations
              /\ memory' \in {memory, memory \ {buffers[b]}}
  <2>1. Null \in 0 .. MaxAllocations
    BY BuffersAssumption DEF Null
  <2>2. CASE \E block \in 1 .. MaxAllocations :
          /\ Allocated(block)
          /\ buffers' = [buffers EXCEPT ![b] = block]
          /\ memory' = (memory \ {buffers[b]}) \cup {block}
    <3>1. PICK block \in 1 .. MaxAllocations :
            /\ Allocated(block)
            /\ buffers' = [buffers EXCEPT ![b] = block]
            /\ memory' = (memory \ {buffers[b]}) \cup {block}
      BY <2>2
    <3>2. block = allocations + 1 /\ allocations' = block
      BY <3>1 DEF Allocated, Null
    <3>3. block \in 0 .. MaxAllocations
      BY <3>1
    <3>4. QED
      BY <3>1, <3>2, <3>3
  <2>3. CASE buffers' = [buffers EXCEPT ![b] = Null] /\ UNCHANGED allocations
             /\ memory' \in {memory, memory \ {buffers[b]}}
    BY <2>1, <2>3
  <2>4. QED
    BY <2>2, <2>3 DEF BufferSetNumElements
<1>b. \A kind \in Kinds : rendered[kind] # b
  BY <1>1, BuffersAssumption DEF Absent, Given, Keys, Inv, Types, TypeOK
<1>3. /\ buffers' \in [BufferIds -> {Absent} \cup 0 .. MaxAllocations]
      /\ buffers'[b] = block /\ block # Absent
      /\ \A c \in BufferIds \ {b} : buffers'[c] = buffers[c]
  BY <1>2 DEF Inv, Types, TypeOK, Absent
<1>4. \A c \in BufferIds : buffers[c] \in {Absent, Null} \cup 1 .. allocations
  BY DEF Inv, Types, TypeOK, Keys
<1>5. allocations' \in 0 .. MaxAllocations /\ memory' \subseteq 1 .. allocations'
  <2>1. memory \subseteq 1 .. allocations /\ allocations \in Nat
    BY DEF Inv, Types, TypeOK
  <2>2. block \in Nat
    OBVIOUS
  <2>3. CASE block = allocations + 1 /\ allocations' = block
             /\ memory' = (memory \ {buffers[b]}) \cup {block}
    <3>1. \A m \in memory : m \in 1 .. block
      BY <2>1, <2>3
    <3>2. block \in 1 .. block /\ block \in 0 .. MaxAllocations
      BY <2>1, <2>3
    <3>3. memory' \subseteq 1 .. block
      BY <2>3, <3>1, <3>2
    <3>4. QED
      BY <2>3, <3>2, <3>3
  <2>4. CASE block = Null /\ allocations' = allocations
             /\ memory' \in {memory, memory \ {buffers[b]}}
    BY <2>1, <2>4 DEF Inv, Types
  <2>5. QED
    BY <1>2, <2>3, <2>4
<1>6. Blocks'
  BY <1>2, <1>3, <1>4 DEF Inv, Blocks, Types, TypeOK, Absent, Null
<1>7. \A c \in Keys(buffers') : buffers'[c] \in memory' \cup {Null}
  <2> SUFFICES ASSUME NEW c \in Keys(buffers') PROVE buffers'[c] \in memory' \cup {Null}
    OBVIOUS
  <2>1. CASE c = b
    BY <1>2, <1>3, <2>1
  <2>2. CASE c # b
    <3>1. c \in BufferIds /\ buffers'[c] = buffers[c] /\ buffers[c] # Absent
      BY <1>3, <2>2 DEF Keys
    <3>2. buffers[c] \in memory \cup {Null}
      BY <3>1 DEF Inv, Types, TypeOK, Keys
    <3>3. buffers[c] = Null \/ buffers[c] # buffers[b]
      BY <2>2, <3>1 DEF Inv, Blocks
    <3>4. QED
      BY <1>2, <3>1, <3>2, <3>3
  <2>3. QED
    BY <2>1, <2>2
<1>8. Types'
  BY <1>1, <1>a, <1>3, <1>5, <1>7 DEF Inv, Types, TypeOK
<1>9. \A c \in BufferIds : buffers'[c] # Absent <=> buffers[c] # Absent
  BY <1>1, <1>3
<1>10. Held'
  <2>1. \A i \in ownedImages : images[i] \in {Absent} \cup BufferIds
    BY DEF Inv, Types, TypeOK
  <2>2. \A u \in Threads : Creating(u) => step[u].buf \in BufferIds
    BY StepKinds DEF Inv
  <2>3. owned \subseteq BufferIds
    BY DEF Inv, Types, TypeOK
  <2>4. QED
    BY <1>1, <1>9, <2>1, <2>2, <2>3 DEF Inv, Held, Creating, Destroying
<1>11. Accounted'
  BY <1>1, <1>3 DEF Inv, Accounted, Creating, Destroying
<1>12. Pointers'
  <2>1. \A kind \in Kinds : rendered[kind] # Absent =>
          rendered[kind] \in BufferIds /\ buffers'[rendered[kind]] = buffers[rendered[kind]]
    BY <1>1, <1>b, <1>3 DEF Inv, Types, TypeOK
  <2>2. QED
    BY <1>1, <2>1 DEF Inv, Pointers
<1>13. FollowsLiveMemory' /\ TerminateDefined'
  BY <1>1 DEF Inv, FollowsLiveMemory, TerminateDefined
<1>15. HasMemory'
  BY <1>1, <1>a, <1>3 DEF Inv, HasMemory, Types, TypeOK
<1> QED
  BY <1>6, <1>8, <1>10, <1>11, <1>12, <1>13, <1>15 DEF Inv

-----------------------------------------------------------------------------
(* Pictures. *)

\* The pointer is into the buffer that is given, and in nobody's way before.
LEMMA Rendering ==
  ASSUME Inv, NEW t \in Threads, NEW b \in BufferIds, NEW kind \in Kinds,
         RenderPicture(t, b, kind), UNCHANGED ended
  PROVE  Inv'
<1>1. /\ b \in owned /\ buffers[b] # Absent
      /\ params' = [params EXCEPT ![kind] = buffers[b]]
      /\ rendered' = [rendered EXCEPT ![kind] = b] /\ stale' = stale \ {kind}
      /\ UNCHANGED <<buffers, images, step, memory, allocations, owned, ownedImages, emptied, dangled,
                     ended>>
  BY DEF RenderPicture
<1>2. buffers[b] \in 0 .. MaxAllocations
  BY <1>1 DEF Inv, Types, TypeOK
<1>3. Types'
  <2>1. params' \in [Kinds -> 0 .. MaxAllocations] /\ rendered' \in [Kinds -> {Absent} \cup owned']
    BY <1>1, <1>2 DEF Inv, Types, TypeOK
  <2>2. Keys(buffers') = Keys(buffers)
    BY <1>1 DEF Keys
  <2>3. stale' \subseteq Kinds
    BY <1>1 DEF Inv, Types, TypeOK
  <2>4. QED
    BY <1>1, <2>1, <2>2, <2>3 DEF Inv, Types, TypeOK
<1>4. Blocks' /\ Held' /\ Accounted' /\ HasMemory'
  BY <1>1 DEF Inv, Blocks, Held, Accounted, HasMemory, Creating, Destroying
<1>5. Pointers'
  <2>1. b # Absent
    BY BuffersAssumption DEF Absent
  <2>2. QED
    BY <1>1, <2>1 DEF Inv, Pointers, Types, TypeOK
<1>6. FollowsLiveMemory' /\ TerminateDefined'
  BY <1>1 DEF Inv, FollowsLiveMemory, TerminateDefined
<1>7. QED
  BY <1>3, <1>4, <1>5, <1>6 DEF Inv

\* The pointers that no failed picture left are into the picture's own buffers.
LEMMA Ending ==
  ASSUME Inv, NEW t \in Threads, EndPicture(t), UNCHANGED ended
  PROVE  Inv'
<1>1. /\ UNCHANGED <<buffers, images, step, memory, allocations, owned, ownedImages, emptied, ended>>
      /\ rendered' = NothingRendered
      /\ \/ params' = [kind \in Kinds |-> Null] /\ stale' = {}
         \/ UNCHANGED params /\ stale' = {kind \in Kinds : params[kind] # Null}
      /\ dangled' = ~({params[kind] : kind \in Kinds \ stale} \subseteq memory \cup {Null})
  BY DEF EndPicture, Follow
<1>2. \A kind \in Kinds \ stale : params[kind] \in memory \cup {Null}
  <2>1. \A kind \in Kinds : rendered[kind] # Absent => buffers[rendered[kind]] \in memory \cup {Null}
    BY DEF Inv, Held, Types, TypeOK, Keys
  <2>2. QED
    BY <2>1 DEF Inv, Pointers
<1>3. dangled' = FALSE
  BY <1>1, <1>2
<1>4. Types'
  <2>1. params' \in [Kinds -> 0 .. MaxAllocations]
    BY <1>1, BuffersAssumption DEF Inv, Types, TypeOK, Null
  <2>2. Keys(buffers') = Keys(buffers)
    BY <1>1 DEF Keys
  <2>3. stale' \subseteq Kinds /\ rendered' \in [Kinds -> {Absent} \cup owned']
    BY <1>1 DEF NothingRendered
  <2>4. QED
    BY <1>1, <1>3, <2>1, <2>2, <2>3 DEF Inv, Types, TypeOK
<1>5. Blocks' /\ Held' /\ Accounted' /\ HasMemory'
  BY <1>1 DEF Inv, Blocks, Held, Accounted, HasMemory, Creating, Destroying
<1>6. Pointers'
  BY <1>1 DEF NothingRendered, Inv, Pointers, Types, TypeOK
<1>7. FollowsLiveMemory' /\ TerminateDefined'
  BY <1>1, <1>3 DEF Inv, FollowsLiveMemory, TerminateDefined
<1>8. QED
  BY <1>4, <1>5, <1>6, <1>7 DEF Inv

\* A null pointer that is followed comes from a buffer that the client emptied.
LEMMA Crashing ==
  ASSUME Inv, Crash, ended = "no"
  PROVE  Inv'
<1>1. /\ ended' = "null"
      /\ UNCHANGED <<buffers, images, params, step, memory, allocations, owned, ownedImages, rendered,
                     emptied, stale, dangled>>
  BY DEF Crash, RenderDataCrash, EndPictureCrash
<1>2. PICK b \in owned : buffers[b] = Null
  <2>1. CASE \E t \in Threads, b \in BufferIds : RenderDataCrash(t, b)
    BY <2>1 DEF RenderDataCrash
  <2>2. CASE \E t \in Threads : EndPictureCrash(t)
    <3>1. PICK kind \in Kinds : params[kind] = Null /\ rendered[kind] # Absent
      BY <2>2, BuffersAssumption DEF EndPictureCrash, FollowsNull, Complete
    <3>2. rendered[kind] \in owned
      BY <3>1 DEF Inv, Types, TypeOK
    <3>3. params[kind] = buffers[rendered[kind]]
      BY <3>1 DEF Inv, Pointers
    <3>4. QED
      BY <3>1, <3>2, <3>3
  <2>3. QED
    BY <2>1, <2>2 DEF Crash
<1>3. emptied[b] # "no"
  BY <1>2 DEF Inv, HasMemory
<1>4. Types'
  <2>1. Keys(buffers') = Keys(buffers)
    BY <1>1 DEF Keys
  <2>2. QED
    BY <1>1, <2>1 DEF Inv, Types, TypeOK
<1>5. Blocks' /\ Held' /\ Accounted' /\ Pointers' /\ HasMemory'
  BY <1>1 DEF Inv, Blocks, Held, Accounted, Pointers, HasMemory, Creating, Destroying
<1>6. FollowsLiveMemory' /\ TerminateDefined'
  BY <1>1, <1>2, <1>3 DEF Inv, FollowsLiveMemory, TerminateDefined
<1>7. QED
  BY <1>4, <1>5, <1>6 DEF Inv

-----------------------------------------------------------------------------
(* Images. *)

\* The buffer of an image to be is held by its thread.
LEMMA CreatingImageBuffer ==
  ASSUME Inv, NEW t \in Threads, CreateImageBuffer(t), UNCHANGED ended
  PROVE  Inv'
<1>1. PICK b \in BufferIds, block \in 0 .. MaxAllocations :
        /\ AddBuffer(b, block)
        /\ step' = [step EXCEPT ![t] = IF block = Null THEN Idle ELSE [op |-> "create", buf |-> b]]
  BY DEF CreateImageBuffer
<1>2. /\ step[t] = Idle
      /\ UNCHANGED <<images, params, owned, ownedImages, rendered, emptied, stale, dangled, ended>>
  BY DEF CreateImageBuffer
<1>3. /\ buffers[b] = Absent /\ buffers'[b] = block
      /\ \A c \in BufferIds \ {b} : buffers'[c] = buffers[c]
      /\ buffers' \in [BufferIds -> {Absent} \cup 0 .. MaxAllocations]
      /\ memory' \subseteq 1 .. allocations' /\ allocations' \in 0 .. MaxAllocations
      /\ \A c \in Keys(buffers') : buffers'[c] \in memory' \cup {Null}
      /\ Blocks'
  BY <1>1, Added DEF Inv
<1>4. block # Absent
  BY DEF Absent
<1>5. DEFINE k == IF block = Null THEN Idle ELSE [op |-> "create", buf |-> b]
<1>6. k \in StepType
  BY DEF StepType
<1>7. /\ step' \in [Threads -> StepType] /\ step'[t] = k
      /\ \A u \in Threads \ {t} : step'[u] = step[u]
      /\ \A u \in Threads \ {t} : (Creating(u)' <=> Creating(u)) /\ (Destroying(u)' <=> Destroying(u))
  BY <1>1, <1>6, Stepping DEF Inv
<1>8. ~Destroying(t)' /\ ~Destroying(t) /\ ~Creating(t)
  BY <1>2, <1>7 DEF Creating, Destroying, Idle
<1>9. Creating(t)' => block # Null /\ step'[t].buf = b
  BY <1>7 DEF Creating, Idle
<1>10. Types'
  BY <1>2, <1>3, <1>7 DEF Inv, Types, TypeOK
<1>11. \A c \in BufferIds : buffers[c] # Absent => buffers'[c] = buffers[c] /\ c # b
  BY <1>3
<1>12. b \notin owned /\ \A i \in ownedImages : images[i] \in BufferIds /\ images[i] # b
  BY <1>3 DEF Inv, Held, Types, TypeOK
<1>13. \A u \in Threads : Creating(u) => step[u].buf \in BufferIds /\ step[u].buf # b
  BY <1>3, StepKinds DEF Inv, Held
<1>14. Held'
  <2>1. /\ \A c \in owned' : buffers'[c] # Absent
        /\ \A i \in ownedImages' :
             images'[i] # Absent /\ buffers'[images'[i]] # Absent /\ images'[i] \notin owned'
        /\ \A i, j \in ownedImages' : images'[i] = images'[j] => i = j
    BY <1>2, <1>11, <1>12 DEF Inv, Held, Types, TypeOK
  <2>2. \A u \in Threads : Creating(u)' =>
          /\ buffers'[step'[u].buf] # Absent /\ step'[u].buf \notin owned'
          /\ \A i \in ownedImages' : images'[i] # step'[u].buf
    <3>1. ASSUME NEW u \in Threads \ {t}, Creating(u)'
          PROVE  /\ buffers'[step'[u].buf] # Absent /\ step'[u].buf \notin owned'
                 /\ \A i \in ownedImages' : images'[i] # step'[u].buf
      BY <1>2, <1>7, <1>11, <1>13, <3>1 DEF Inv, Held
    <3>2. QED
      BY <1>2, <1>3, <1>4, <1>9, <1>12, <3>1
  <2>3. \A u, v \in Threads : Creating(u)' /\ Creating(v)' /\ step'[u].buf = step'[v].buf => u = v
    BY <1>7, <1>9, <1>13 DEF Inv, Held
  <2>4. \A u \in Threads : Destroying(u)' =>
          images'[step'[u].image] # Absent /\ step'[u].image \notin ownedImages'
    BY <1>2, <1>7, <1>8 DEF Inv, Held
  <2>5. \A u, v \in Threads :
          Destroying(u)' /\ Destroying(v)' /\ step'[u].image = step'[v].image => u = v
    BY <1>7, <1>8 DEF Inv, Held
  <2>6. QED
    BY <2>1, <2>2, <2>3, <2>4, <2>5 DEF Held
<1>15. Accounted'
  <2>1. \A c \in BufferIds : buffers'[c] \notin {Absent, Null} =>
          \/ c \in owned'
          \/ \E i \in ownedImages' : images'[i] = c
          \/ \E u \in Threads : Creating(u)' /\ step'[u].buf = c
    <3>1. ASSUME NEW c \in BufferIds \ {b}, buffers'[c] \notin {Absent, Null}
          PROVE  \/ c \in owned'
                 \/ \E i \in ownedImages' : images'[i] = c
                 \/ \E u \in Threads : Creating(u)' /\ step'[u].buf = c
      BY <1>2, <1>3, <1>7, <1>8, <3>1 DEF Inv, Accounted
    <3>2. block # Null => Creating(t)' /\ step'[t].buf = b
      BY <1>7 DEF Creating
    <3>3. QED
      BY <1>3, <3>1, <3>2
  <2>2. \A i \in ImageIds : images'[i] # Absent =>
          i \in ownedImages' \/ \E u \in Threads : Destroying(u)' /\ step'[u].image = i
    BY <1>2, <1>7, <1>8 DEF Inv, Accounted
  <2>3. QED
    BY <2>1, <2>2 DEF Accounted
<1>16. Pointers'
  <2>1. \A kind \in Kinds : rendered[kind] # Absent =>
          rendered[kind] \in BufferIds /\ buffers'[rendered[kind]] = buffers[rendered[kind]]
    BY <1>3, <1>12 DEF Inv, Types, TypeOK
  <2>2. QED
    BY <1>2, <2>1 DEF Inv, Pointers
<1>17. FollowsLiveMemory' /\ TerminateDefined'
  BY <1>2, <1>3, <1>11 DEF Inv, FollowsLiveMemory, TerminateDefined, Null, Absent
<1>19. HasMemory'
  BY <1>2, <1>3 DEF Inv, HasMemory, Held, Types, TypeOK
<1> QED
  BY <1>3, <1>10, <1>14, <1>15, <1>16, <1>17, <1>19 DEF Inv

\* The image gets the buffer that its thread held; its id was nobody's.
LEMMA CreatingImage ==
  ASSUME Inv, NEW t \in Threads, CreateImage(t), UNCHANGED ended
  PROVE  Inv'
<1>1. /\ Creating(t)
      /\ step' = [step EXCEPT ![t] = Idle]
      /\ UNCHANGED <<buffers, params, memory, allocations, owned, rendered, emptied, stale, dangled, ended>>
  BY DEF CreateImage, Creating
<1>2. PICK i \in ImageIds :
        /\ images[i] = Absent
        /\ images' = [images EXCEPT ![i] = step[t].buf]
        /\ ownedImages' = ownedImages \cup {i}
  BY DEF CreateImage, SmallestFreeKey, Free, Keys, Inv, Types, TypeOK
<1>3. DEFINE b == step[t].buf
<1>4. /\ b \in BufferIds /\ buffers[b] # Absent /\ b \notin owned
      /\ \A j \in ownedImages : images[j] # b
      /\ ~Destroying(t)
  BY <1>1, StepKinds DEF Inv, Held
<1>5. images'[i] = b /\ \A j \in ImageIds \ {i} : images'[j] = images[j]
  BY <1>2 DEF Inv, Types, TypeOK
<1>6. /\ step' \in [Threads -> StepType] /\ step'[t] = Idle
      /\ \A u \in Threads \ {t} : step'[u] = step[u]
      /\ \A u \in Threads \ {t} : (Creating(u)' <=> Creating(u)) /\ (Destroying(u)' <=> Destroying(u))
  BY <1>1, Stepping DEF Inv, StepType
<1>7. ~Creating(t)' /\ ~Destroying(t)'
  BY <1>6 DEF Creating, Destroying, Idle
<1>8. i \notin ownedImages /\ \A j \in ownedImages : j \in ImageIds /\ images'[j] = images[j]
  BY <1>2, <1>5 DEF Inv, Held, Types, TypeOK
<1>9. \A u \in Threads : Destroying(u) => step[u].image \in ImageIds \ {i}
  BY <1>2, StepKinds DEF Inv, Held
<1>10. b # Absent
  BY <1>4, BuffersAssumption DEF Absent
<1>11. Types'
  <2>1. images' \in [ImageIds -> {Absent} \cup BufferIds]
    BY <1>2, <1>4 DEF Inv, Types, TypeOK
  <2>2. Keys(buffers') = Keys(buffers)
    BY <1>1 DEF Keys
  <2>3. QED
    BY <1>1, <1>2, <1>6, <2>1, <2>2 DEF Inv, Types, TypeOK
<1>12. Blocks' /\ Pointers' /\ HasMemory'
  BY <1>1 DEF Inv, Blocks, Pointers, HasMemory
<1>13. Held'
  <2>1. /\ \A c \in owned' : buffers'[c] # Absent
        /\ \A j \in ownedImages' :
             images'[j] # Absent /\ buffers'[images'[j]] # Absent /\ images'[j] \notin owned'
        /\ \A j, l \in ownedImages' : images'[j] = images'[l] => j = l
    BY <1>1, <1>2, <1>4, <1>5, <1>8, <1>10 DEF Inv, Held
  <2>2. \A u \in Threads : Creating(u)' =>
          /\ buffers'[step'[u].buf] # Absent /\ step'[u].buf \notin owned'
          /\ \A j \in ownedImages' : images'[j] # step'[u].buf
    <3>1. ASSUME NEW u \in Threads, Creating(u)'
          PROVE  /\ buffers'[step'[u].buf] # Absent /\ step'[u].buf \notin owned'
                 /\ \A j \in ownedImages' : images'[j] # step'[u].buf
      <4>1. u # t /\ Creating(u) /\ step'[u].buf = step[u].buf
        BY <1>6, <1>7, <3>1
      <4>2. step[u].buf # b
        BY <1>1, <4>1 DEF Inv, Held
      <4>3. QED
        BY <1>1, <1>2, <1>5, <1>8, <4>1, <4>2 DEF Inv, Held
    <3>2. QED
      BY <3>1
  <2>3. \A u, v \in Threads : Creating(u)' /\ Creating(v)' /\ step'[u].buf = step'[v].buf => u = v
    BY <1>6, <1>7 DEF Inv, Held
  <2>4. \A u \in Threads : Destroying(u)' =>
          images'[step'[u].image] # Absent /\ step'[u].image \notin ownedImages'
    BY <1>2, <1>5, <1>6, <1>7, <1>9 DEF Inv, Held
  <2>5. \A u, v \in Threads :
          Destroying(u)' /\ Destroying(v)' /\ step'[u].image = step'[v].image => u = v
    BY <1>6, <1>7 DEF Inv, Held
  <2>6. QED
    BY <2>1, <2>2, <2>3, <2>4, <2>5 DEF Held
<1>14. Accounted'
  <2>1. ASSUME NEW c \in BufferIds, buffers'[c] \notin {Absent, Null}
        PROVE  \/ c \in owned'
               \/ \E j \in ownedImages' : images'[j] = c
               \/ \E u \in Threads : Creating(u)' /\ step'[u].buf = c
    <3>1. \/ c \in owned
          \/ \E j \in ownedImages : images[j] = c
          \/ \E u \in Threads : Creating(u) /\ step[u].buf = c
      BY <1>1, <2>1 DEF Inv, Accounted
    <3>2. QED
      BY <1>1, <1>2, <1>5, <1>6, <1>8, <3>1
  <2>2. \A j \in ImageIds : images'[j] # Absent =>
          j \in ownedImages' \/ \E u \in Threads : Destroying(u)' /\ step'[u].image = j
    BY <1>2, <1>4, <1>5, <1>6 DEF Inv, Accounted
  <2>3. QED
    BY <2>1, <2>2 DEF Accounted
<1>15. FollowsLiveMemory' /\ TerminateDefined'
  BY <1>1, <1>2 DEF Inv, FollowsLiveMemory, TerminateDefined
<1>16. QED
  BY <1>11, <1>12, <1>13, <1>14, <1>15 DEF Inv

\* The image that is destroyed had its buffer to itself, and its id is held until
\* it is gone.
LEMMA DestroyingImageBuffer ==
  ASSUME Inv, NEW t \in Threads, NEW i \in ImageIds, DestroyImageBuffer(t, i), ended = "no",
         UNCHANGED ended
  PROVE  Inv'
<1>1. DEFINE b == images[i]
<1>2. b \in BufferIds /\ buffers[b] # Absent /\ b \notin owned /\ i \in ownedImages
  BY DEF DestroyImageBuffer, Inv, Held, Types, TypeOK
<1>3. /\ step[t] = Idle /\ RemoveBuffer(b)
      /\ step' = [step EXCEPT ![t] = [op |-> "destroy", image |-> i]]
      /\ ownedImages' = ownedImages \ {i}
      /\ UNCHANGED <<images, params, allocations, owned, rendered, emptied, stale, dangled, ended>>
  BY <1>2 DEF DestroyImageBuffer
<1>4. /\ buffers'[b] = Absent
      /\ \A c \in BufferIds \ {b} : buffers'[c] = buffers[c]
      /\ buffers' \in [BufferIds -> {Absent} \cup 0 .. MaxAllocations]
      /\ memory' \subseteq 1 .. allocations'
      /\ \A c \in Keys(buffers') : buffers'[c] \in memory' \cup {Null}
      /\ Blocks'
  BY <1>2, <1>3, Removed DEF Inv
<1>5. /\ step' \in [Threads -> StepType] /\ step'[t] = [op |-> "destroy", image |-> i]
      /\ \A u \in Threads \ {t} : step'[u] = step[u]
      /\ \A u \in Threads \ {t} : (Creating(u)' <=> Creating(u)) /\ (Destroying(u)' <=> Destroying(u))
  BY <1>3, Stepping DEF Inv, StepType
<1>6. ~Creating(t)' /\ Destroying(t)' /\ step'[t].image = i
  BY <1>5 DEF Creating, Destroying
<1>7. ~Creating(t) /\ ~Destroying(t)
  BY <1>3 DEF Creating, Destroying, Idle
<1>8. \A j \in ownedImages : j # i => images[j] \in BufferIds /\ images[j] # b
  BY <1>2 DEF Inv, Held, Types, TypeOK
<1>9. \A u \in Threads : Creating(u) => step[u].buf \in BufferIds /\ step[u].buf # b
  BY <1>2, StepKinds DEF Inv, Held
<1>10. Types'
  BY <1>3, <1>4, <1>5 DEF Inv, Types, TypeOK
<1>11. Held'
  <2>1. \A c \in owned' : c \in BufferIds /\ buffers'[c] = buffers[c] /\ buffers[c] # Absent
    BY <1>2, <1>3, <1>4 DEF Inv, Held, Types, TypeOK
  <2>2. /\ \A j \in ownedImages' :
             images'[j] # Absent /\ buffers'[images'[j]] # Absent /\ images'[j] \notin owned'
        /\ \A j, l \in ownedImages' : images'[j] = images'[l] => j = l
    BY <1>3, <1>4, <1>8 DEF Inv, Held
  <2>3. \A u \in Threads : Creating(u)' =>
          /\ buffers'[step'[u].buf] # Absent /\ step'[u].buf \notin owned'
          /\ \A j \in ownedImages' : images'[j] # step'[u].buf
    BY <1>3, <1>4, <1>5, <1>6, <1>9 DEF Inv, Held
  <2>4. \A u, v \in Threads : Creating(u)' /\ Creating(v)' /\ step'[u].buf = step'[v].buf => u = v
    BY <1>5, <1>6 DEF Inv, Held
  <2>5. \A u \in Threads : Destroying(u) => step[u].image # i
    BY <1>2 DEF Inv, Held
  <2>6. \A u \in Threads : Destroying(u)' =>
          images'[step'[u].image] # Absent /\ step'[u].image \notin ownedImages'
    <3>1. images[i] # Absent
      BY <1>2 DEF Inv, Held
    <3>2. QED
      BY <1>3, <1>5, <1>6, <3>1 DEF Inv, Held
  <2>7. \A u, v \in Threads :
          Destroying(u)' /\ Destroying(v)' /\ step'[u].image = step'[v].image => u = v
    BY <1>5, <1>6, <2>5 DEF Inv, Held
  <2>8. QED
    BY <2>1, <2>2, <2>3, <2>4, <2>6, <2>7 DEF Held
<1>12. Accounted'
  <2>1. ASSUME NEW c \in BufferIds, buffers'[c] \notin {Absent, Null}
        PROVE  \/ c \in owned'
               \/ \E j \in ownedImages' : images'[j] = c
               \/ \E u \in Threads : Creating(u)' /\ step'[u].buf = c
    <3>1. c # b /\ buffers[c] \notin {Absent, Null}
      BY <1>4, <2>1
    <3>2. \/ c \in owned
          \/ \E j \in ownedImages : images[j] = c
          \/ \E u \in Threads : Creating(u) /\ step[u].buf = c
      BY <3>1 DEF Inv, Accounted
    <3>3. QED
      BY <1>3, <1>5, <1>7, <3>1, <3>2
  <2>2. \A j \in ImageIds : images'[j] # Absent =>
          j \in ownedImages' \/ \E u \in Threads : Destroying(u)' /\ step'[u].image = j
    BY <1>3, <1>5, <1>6, <1>7 DEF Inv, Accounted
  <2>3. QED
    BY <2>1, <2>2 DEF Accounted
<1>13. Pointers'
  <2>1. \A kind \in Kinds : rendered[kind] # Absent =>
          rendered[kind] \in BufferIds /\ buffers'[rendered[kind]] = buffers[rendered[kind]]
    BY <1>2, <1>4 DEF Inv, Types, TypeOK
  <2>2. QED
    BY <1>3, <2>1 DEF Inv, Pointers
<1>14. FollowsLiveMemory' /\ TerminateDefined'
  BY <1>3 DEF Inv, FollowsLiveMemory, TerminateDefined
<1>16. HasMemory'
  BY <1>2, <1>3, <1>4 DEF Inv, HasMemory, Held, Types, TypeOK
<1> QED
  BY <1>4, <1>10, <1>11, <1>12, <1>13, <1>14, <1>16 DEF Inv

\* The image goes, and its buffer went before: whoever has the buffer's id now is
\* not concerned.
LEMMA DestroyingImage ==
  ASSUME Inv, NEW t \in Threads, DestroyImage(t), UNCHANGED ended
  PROVE  Inv'
<1>1. /\ Destroying(t)
      /\ images' = [images EXCEPT ![step[t].image] = Absent]
      /\ step' = [step EXCEPT ![t] = Idle]
      /\ UNCHANGED <<buffers, params, memory, allocations, owned, ownedImages, rendered, emptied, stale,
                     dangled, ended>>
  BY DEF DestroyImage, Destroying
<1>2. DEFINE i == step[t].image
<1>3. i \in ImageIds /\ i \notin ownedImages /\ ~Creating(t)
  BY <1>1, StepKinds DEF Inv, Held
<1>4. images'[i] = Absent /\ \A j \in ImageIds \ {i} : images'[j] = images[j]
  BY <1>1, <1>3 DEF Inv, Types, TypeOK
<1>5. /\ step' \in [Threads -> StepType] /\ step'[t] = Idle
      /\ \A u \in Threads \ {t} : step'[u] = step[u]
      /\ \A u \in Threads \ {t} : (Creating(u)' <=> Creating(u)) /\ (Destroying(u)' <=> Destroying(u))
  BY <1>1, Stepping DEF Inv, StepType
<1>6. ~Creating(t)' /\ ~Destroying(t)'
  BY <1>5 DEF Creating, Destroying, Idle
<1>7. \A j \in ownedImages : j \in ImageIds /\ images'[j] = images[j]
  BY <1>3, <1>4 DEF Inv, Types, TypeOK
<1>8. \A u \in Threads \ {t} : Destroying(u) => step[u].image \in ImageIds \ {i}
  BY <1>1, StepKinds DEF Inv, Held
<1>9. Types'
  <2>1. images' \in [ImageIds -> {Absent} \cup BufferIds]
    BY <1>1 DEF Inv, Types, TypeOK
  <2>2. Keys(buffers') = Keys(buffers)
    BY <1>1 DEF Keys
  <2>3. QED
    BY <1>1, <1>5, <2>1, <2>2 DEF Inv, Types, TypeOK
<1>10. Blocks' /\ Pointers' /\ HasMemory'
  BY <1>1 DEF Inv, Blocks, Pointers, HasMemory
<1>11. Held'
  <2>1. /\ \A c \in owned' : buffers'[c] # Absent
        /\ \A j \in ownedImages' :
             images'[j] # Absent /\ buffers'[images'[j]] # Absent /\ images'[j] \notin owned'
        /\ \A j, l \in ownedImages' : images'[j] = images'[l] => j = l
    BY <1>1, <1>7 DEF Inv, Held
  <2>2. \A u \in Threads : Creating(u)' =>
          /\ buffers'[step'[u].buf] # Absent /\ step'[u].buf \notin owned'
          /\ \A j \in ownedImages' : images'[j] # step'[u].buf
    BY <1>1, <1>5, <1>6, <1>7 DEF Inv, Held
  <2>3. \A u, v \in Threads : Creating(u)' /\ Creating(v)' /\ step'[u].buf = step'[v].buf => u = v
    BY <1>5, <1>6 DEF Inv, Held
  <2>4. \A u \in Threads : Destroying(u)' =>
          images'[step'[u].image] # Absent /\ step'[u].image \notin ownedImages'
    BY <1>1, <1>4, <1>5, <1>6, <1>8 DEF Inv, Held
  <2>5. \A u, v \in Threads :
          Destroying(u)' /\ Destroying(v)' /\ step'[u].image = step'[v].image => u = v
    BY <1>5, <1>6 DEF Inv, Held
  <2>6. QED
    BY <2>1, <2>2, <2>3, <2>4, <2>5 DEF Held
<1>12. Accounted'
  <2>1. ASSUME NEW c \in BufferIds, buffers'[c] \notin {Absent, Null}
        PROVE  \/ c \in owned'
               \/ \E j \in ownedImages' : images'[j] = c
               \/ \E u \in Threads : Creating(u)' /\ step'[u].buf = c
    <3>1. \/ c \in owned
          \/ \E j \in ownedImages : images[j] = c
          \/ \E u \in Threads : Creating(u) /\ step[u].buf = c
      BY <1>1, <2>1 DEF Inv, Accounted
    <3>2. QED
      BY <1>1, <1>3, <1>5, <1>7, <3>1
  <2>2. \A j \in ImageIds : images'[j] # Absent =>
          j \in ownedImages' \/ \E u \in Threads : Destroying(u)' /\ step'[u].image = j
    BY <1>1, <1>4, <1>5 DEF Inv, Accounted
  <2>3. QED
    BY <2>1, <2>2 DEF Accounted
<1>13. FollowsLiveMemory' /\ TerminateDefined'
  BY <1>1 DEF Inv, FollowsLiveMemory, TerminateDefined
<1>14. QED
  BY <1>9, <1>10, <1>11, <1>12, <1>13 DEF Inv

-----------------------------------------------------------------------------
(* The invariant. *)

\* Without threads in the middle of an image, what is in the map of buffers has
\* an owner or no memory.
LEMMA Terminating ==
  ASSUME Inv, Terminate
  PROVE  Inv'
<1>1. \A t \in Threads : ~Creating(t) /\ ~Destroying(t)
  BY StepKinds DEF Terminate, Inv
<1>2. UNCHANGED <<step, allocations, stale, dangled>>
  BY DEF Terminate
<1>3. CASE /\ ended' = "yes" /\ memory' = {}
           /\ buffers' = [b \in BufferIds |-> Absent]
           /\ images' = [i \in ImageIds |-> Absent]
           /\ params' = [kind \in Kinds |-> Null]
           /\ owned' = {} /\ ownedImages' = {} /\ rendered' = NothingRendered
           /\ emptied' = [b \in BufferIds |-> "no"]
  <2>1. Types'
    <3>1. Keys(buffers') = {}
      BY <1>3 DEF Keys
    <3>2. params' \in [Kinds -> 0 .. MaxAllocations]
      BY <1>3, BuffersAssumption DEF Null
    <3>3. /\ buffers' \in [BufferIds -> {Absent} \cup 0 .. MaxAllocations]
          /\ images' \in [ImageIds -> {Absent} \cup BufferIds]
      BY <1>3
    <3>4. QED
      BY <1>2, <1>3, <3>1, <3>2, <3>3 DEF NothingRendered, Inv, Types, TypeOK
  <2>2. Blocks' /\ Held' /\ Accounted' /\ Pointers' /\ HasMemory'
    BY <1>1, <1>2, <1>3 DEF Blocks, Held, Accounted, Pointers, HasMemory, NothingRendered, Creating,
       Destroying
  <2>3. FollowsLiveMemory' /\ TerminateDefined'
    BY <1>2, <1>3 DEF Inv, FollowsLiveMemory, TerminateDefined
  <2>4. QED
    BY <2>1, <2>2, <2>3 DEF Inv
<1>4. CASE /\ Keys(buffers) # {} /\ ended' = "crashed"
           /\ UNCHANGED <<buffers, images, params, memory, owned, ownedImages, rendered, emptied>>
  <2>1. Types'
    <3>1. Keys(buffers') = Keys(buffers)
      BY <1>4 DEF Keys
    <3>2. QED
      BY <1>2, <1>4, <3>1 DEF Inv, Types, TypeOK
  <2>2. Blocks' /\ Held' /\ Accounted' /\ Pointers' /\ HasMemory'
    BY <1>2, <1>4 DEF Inv, Blocks, Held, Accounted, Pointers, HasMemory, Creating, Destroying
  <2>3. TerminateDefined'
    <3>1. PICK b \in BufferIds : buffers[b] # Absent
      BY <1>4 DEF Keys, Inv, Types, TypeOK
    <3>2. buffers[b] = Null \/ b \in owned \/ ownedImages # {}
      BY <1>1, <3>1 DEF Inv, Accounted
    <3>3. QED
      BY <1>4, <3>2 DEF TerminateDefined
  <2>4. FollowsLiveMemory'
    BY <1>2, <1>4 DEF Inv, FollowsLiveMemory
  <2>5. QED
    BY <2>1, <2>2, <2>3, <2>4 DEF Inv
<1>5. QED
  BY <1>3, <1>4 DEF Terminate

\* A step of the specification that changes nothing.
LEMMA Stuttering ==
  ASSUME Inv, UNCHANGED vars
  PROVE  Inv'
<1>1. Keys(buffers') = Keys(buffers)
  BY DEF vars, Keys
<1>2. QED
  BY <1>1 DEF vars, Inv, Types, TypeOK, Blocks, Held, Accounted, Pointers, HasMemory,
     FollowsLiveMemory, TerminateDefined, Creating, Destroying

\* The conjunction that is inductive: every entry of the two maps is held by
\* exactly one of the client, an image and a thread between two critical sections.
THEOREM Invariance == Spec => []Inv
<1>1. Init => Inv
  BY Initially
<1>2. Inv /\ [Next]_vars => Inv'
  <2> SUFFICES ASSUME Inv, [Next]_vars PROVE Inv'
    OBVIOUS
  <2>1. CASE ended = "no" /\ Operation /\ UNCHANGED ended
    <3>1. PICK t \in Threads :
            \/ CreateBuffer(t)
            \/ \E b \in BufferIds : DestroyBuffer(t, b)
            \/ \E b \in BufferIds : BufferSetNumElements(t, b)
            \/ \E b \in BufferIds, kind \in Kinds : RenderPicture(t, b, kind)
            \/ EndPicture(t)
            \/ CreateImageBuffer(t)
            \/ CreateImage(t)
            \/ \E i \in ImageIds : DestroyImageBuffer(t, i)
            \/ DestroyImage(t)
      BY <2>1 DEF Operation
    <3>2. CASE CreateBuffer(t)
      BY <2>1, <3>2, CreatingBuffer
    <3>3. CASE \E b \in BufferIds : DestroyBuffer(t, b)
      BY <2>1, <3>3, DestroyingBuffer
    <3>4. CASE \E b \in BufferIds : BufferSetNumElements(t, b)
      BY <2>1, <3>4, Resizing
    <3>5. CASE \E b \in BufferIds, kind \in Kinds : RenderPicture(t, b, kind)
      BY <2>1, <3>5, Rendering
    <3>6. CASE EndPicture(t)
      BY <2>1, <3>6, Ending
    <3>7. CASE CreateImageBuffer(t)
      BY <2>1, <3>7, CreatingImageBuffer
    <3>8. CASE CreateImage(t)
      BY <2>1, <3>8, CreatingImage
    <3>9. CASE \E i \in ImageIds : DestroyImageBuffer(t, i)
      BY <2>1, <3>9, DestroyingImageBuffer
    <3>10. CASE DestroyImage(t)
      BY <2>1, <3>10, DestroyingImage
    <3>11. QED
      BY <3>1, <3>2, <3>3, <3>4, <3>5, <3>6, <3>7, <3>8, <3>9, <3>10
  <2>5. CASE ended = "no" /\ Crash
    BY <2>5, Crashing
  <2>2. CASE Terminate
    BY <2>2, Terminating
  <2>3. CASE UNCHANGED vars
    BY <2>3, Stuttering
  <2>4. QED
    BY <2>1, <2>2, <2>3, <2>5 DEF Next
<1>3. QED
  BY <1>1, <1>2, PTL DEF Spec

-----------------------------------------------------------------------------
(* What the run checks of two threads, for any number. *)

\* The variables stay in their domains, and no entry points to freed memory.
THEOREM TypeCorrect == Spec => []TypeOK
<1>1. Inv => TypeOK
  BY DEF Inv, Types
<1>2. QED
  BY <1>1, Invariance, PTL

\* Whatever other threads create and destroy between the two critical sections of
\* vaCreateImage and vaDestroyImage, an image has a buffer of its own.
THEOREM ImagesHaveBuffers == Spec => []ImagesOwnBuffers
<1>1. Inv => ImagesOwnBuffers
  <2> SUFFICES ASSUME Inv PROVE ImagesOwnBuffers
    OBVIOUS
  <2>1. \A b \in ImageBuffers : b \notin owned
    BY DEF Inv, Held, ImageBuffers, Creating
  <2>2. QED
    BY <2>1 DEF Inv, Held, ImagesOwnBuffers
<1>2. QED
  BY <1>1, Invariance, PTL

\* The maps keep nothing that has no owner, but entries without memory.
THEOREM MapsAccounted == Spec => []NothingLeft
<1>1. Inv => NothingLeft
  <2> SUFFICES ASSUME Inv PROVE NothingLeft
    OBVIOUS
  <2>1. DOMAIN buffers = BufferIds /\ DOMAIN images = ImageIds /\ ownedImages \subseteq ImageIds
    BY DEF Inv, Types, TypeOK
  <2>2. {b \in Keys(buffers) : buffers[b] # Null} \subseteq owned \cup ImageBuffers
    BY <2>1 DEF Inv, Accounted, Keys, ImageBuffers, Creating
  <2>3. Keys(images) \subseteq
          ownedImages \cup {step[t].image : t \in {u \in Threads : step[u].op = "destroy"}}
    BY <2>1 DEF Inv, Accounted, Keys, Destroying
  <2>4. \A t \in Threads : Destroying(t) => step[t].image \in Keys(images)
    BY <2>1, StepKinds DEF Inv, Held, Keys
  <2>5. ownedImages \subseteq Keys(images)
    BY <2>1 DEF Inv, Held, Keys
  <2>6. QED
    BY <2>2, <2>3, <2>4, <2>5 DEF NothingLeft, Destroying
<1>2. QED
  BY <1>1, Invariance, PTL

\* vaEndPicture reads parameters in memory that is allocated, but through pointers
\* that a failed vaEndPicture left; and where it follows a null pointer the client
\* has a buffer that vaBufferSetNumElements left without memory.
THEOREM PointersLive == Spec => []FollowsLiveMemory
<1>1. Inv => FollowsLiveMemory
  BY DEF Inv
<1>2. QED
  BY <1>1, Invariance, PTL

\* vaTerminate does nothing undefined when the client has nothing left and no
\* vaCreateBuffer ran out of memory.
THEOREM TerminationDefined == Spec => []TerminateDefined
<1>1. Inv => TerminateDefined
  BY DEF Inv
<1>2. QED
  BY <1>1, Invariance, PTL
=============================================================================

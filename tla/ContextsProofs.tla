---------------------------- MODULE ContextsProofs ----------------------------
(***************************************************************************)
(* Proofs about Contexts, for any number of surfaces and contexts,         *)
(* whatever fails and however many buffers the kernel grants.              *)
(***************************************************************************)
EXTENDS Contexts, FiniteSetTheorems, TLAPS

\* At most one context is open, and its device runs with all of its buffers.
OneContext == \A c, d \in Open : c = d
OpenRuns ==
  Open # {} =>
    /\ streaming = {"capture", "output"} /\ capture.len = allocated.capture
    /\ capture.gen <= MaxGeneration
ListSound == capture.len <= allocated.capture

\* The surfaces of an orderly client's context are there, with their planes.
GivenLive == orderly => \A c \in Open : Given(c) \subseteq live
GivenPlanes == orderly /\ Derived => \A c \in Open : \A s \in Given(c) : planes[s] = ImagePlanes
Safe == Derived => CopiesAreSafe

Inv ==
  /\ TypeOK
  /\ OneContext /\ OpenRuns /\ ListSound
  /\ GivenLive /\ GivenPlanes
  /\ RefsSound /\ IdleIsClean /\ Safe

-----------------------------------------------------------------------------
(* Steps and lists. *)

\* Every step has its place.
LEMMA Positions ==
  /\ Success = 12 /\ Len(Steps) = 11
  /\ Position("requestCapture") = 3 /\ Position("mapCapture") = 4
  /\ Position("requestOutput") = 6 /\ Position("mapOutput") = 7
  /\ Position("bindOutput") = 8 /\ Position("streamCapture") = 9
  /\ Position("streamOutput") = 10 /\ Position("codec") = 11
  /\ Steps[1] = "setOutputFormat"
<1>1. Len(Steps) = 11 /\ Success = 12 /\ Steps[1] = "setOutputFormat"
  BY DEF Steps, Success
<1>2. \A i \in 1 .. 11 :
        /\ Steps[i] = "requestCapture" <=> i = 3
        /\ Steps[i] = "mapCapture" <=> i = 4
        /\ Steps[i] = "requestOutput" <=> i = 6
        /\ Steps[i] = "mapOutput" <=> i = 7
        /\ Steps[i] = "bindOutput" <=> i = 8
        /\ Steps[i] = "streamCapture" <=> i = 9
        /\ Steps[i] = "streamOutput" <=> i = 10
        /\ Steps[i] = "codec" <=> i = 11
  BY DEF Steps
<1>3. QED
  BY <1>1, <1>2 DEF Position

\* A list a client passes has no more surfaces than there are, all live.
LEMMA ListFacts ==
  ASSUME TypeOK, NEW ids \in Lists
  PROVE  /\ ids \in Seq(Surfaces) /\ Len(ids) \in Nat /\ Len(ids) <= Cardinality(Surfaces)
         /\ \A i \in 1 .. Len(ids) : ids[i] \in live
         /\ \A i, j \in 1 .. Len(ids) : ids[i] = ids[j] => i = j
<1>1. IsFiniteSet(live) /\ Cardinality(live) \in Nat /\ Cardinality(live) <= Cardinality(Surfaces)
  BY FS_Subset, FS_CardinalityType, ContextsAssumption DEF TypeOK
<1>2. Cardinality(Surfaces) \in Nat
  BY FS_CardinalityType, ContextsAssumption
<1>3. CASE ids = << >>
  BY <1>2, <1>3
<1>4. CASE ids # << >>
  <2>1. PICK n \in 1 .. Cardinality(live) :
          ids \in [1 .. n -> live] /\ \A i, j \in 1 .. n : ids[i] = ids[j] => i = j
    BY <1>4 DEF Lists
  <2>2. n \in Nat /\ n <= Cardinality(Surfaces)
    BY <1>1, <1>2, <2>1
  <2>3. ids \in [1 .. n -> Surfaces]
    BY <2>1 DEF TypeOK
  <2>4. ids \in Seq(Surfaces) /\ Len(ids) = n
    BY <2>2, <2>3
  <2>5. QED
    BY <2>1, <2>2, <2>4
<1>5. QED
  BY <1>3, <1>4

\* What the kernel grants and the process maps are numbers of buffers; all of them

\* are mapped unless the creation stops there.
LEMMA GrantFacts ==
  ASSUME NEW len \in Nat, NEW k \in 1 .. Success,
         NEW n \in Granted(len), NEW m \in Granted(len),
         NEW i \in Mapped(n, "mapCapture", k), NEW j \in Mapped(m, "mapOutput", k)
  PROVE  /\ n \in Nat /\ m \in Nat
         /\ i \in 0 .. n /\ j \in 0 .. m
         /\ k # 4 => i = n
         /\ k # 7 => j = m
<1>1. n \in Nat /\ m \in Nat
  BY DEF Granted
<1>2. /\ IF k = 4 THEN i \in 0 .. n - 1 ELSE i = n
      /\ IF k = 7 THEN j \in 0 .. m - 1 ELSE j = m
  BY Positions DEF Mapped
<1>3. QED
  BY <1>1, <1>2

\* A surface gets a reference that could be one into the new vector.
LEMMA BindFacts ==
  ASSUME TypeOK, NEW ids \in Lists, NEW gen \in 0 .. MaxGeneration + 1
  PROVE  /\ BindCapture(ids, gen) \in [Surfaces -> Ref]
         /\ \A i \in 1 .. Len(ids) :
              BindCapture(ids, gen)[ids[i]] = [gen |-> gen, index |-> i - 1]
<1>1. /\ ids \in Seq(Surfaces) /\ Len(ids) \in Nat /\ Len(ids) <= Cardinality(Surfaces)
      /\ \A i \in 1 .. Len(ids) : ids[i] \in Surfaces
      /\ \A i, j \in 1 .. Len(ids) : ids[i] = ids[j] => i = j
  BY ListFacts DEF TypeOK
<1>2. Cardinality(Surfaces) \in Nat /\ Surfaces = 0 .. Cardinality(Surfaces) - 1
  BY FS_CardinalityType, ContextsAssumption
<1>3. \A i \in 1 .. Len(ids) : i - 1 \in Surfaces
  BY <1>1, <1>2
<1>4. ASSUME NEW s \in Surfaces
      PROVE  BindCapture(ids, gen)[s] \in Ref
  <2>1. CASE \E i \in 1 .. Len(ids) : ids[i] = s
    <3>1. (CHOOSE i \in 1 .. Len(ids) : ids[i] = s) \in 1 .. Len(ids)
      BY <2>1
    <3>2. QED
      BY <1>3, <2>1, <3>1 DEF BindCapture, Ref
  <2>2. CASE ~\E i \in 1 .. Len(ids) : ids[i] = s
    BY <2>2 DEF BindCapture, TypeOK
  <2>3. QED
    BY <2>1, <2>2
<1>5. ASSUME NEW i \in 1 .. Len(ids)
      PROVE  BindCapture(ids, gen)[ids[i]] = [gen |-> gen, index |-> i - 1]
  <2>1. (CHOOSE d \in 1 .. Len(ids) : ids[d] = ids[i]) = i
    BY <1>1
  <2>2. QED
    BY <1>1, <2>1 DEF BindCapture
<1>6. QED
  BY <1>4, <1>5 DEF BindCapture

-----------------------------------------------------------------------------
(* Creating a context. *)

\* What the steps leave is in its domains, and sound, wherever they stop.
LEMMA Constructed ==
  ASSUME TypeOK, ListSound, NEW ids \in Lists, NEW k \in 1 .. Success,
         NEW n \in Granted(Len(ids)), NEW m \in Granted(Len(ids)),
         NEW i \in Mapped(n, "mapCapture", k), NEW j \in Mapped(m, "mapOutput", k),
         capture.gen < MaxGeneration, output.gen < MaxGeneration,
         Construct(ids, k, n, m, i, j)
  PROVE  /\ source' \in [Surfaces -> Ref] /\ destination' \in [Surfaces -> Ref]
         /\ planes' \in [Surfaces -> Nat]
         /\ output' \in Vector /\ capture' \in Vector
         /\ allocated' \in [capture : Nat, output : Nat]
         /\ streaming' \subseteq {"capture", "output"}
         /\ ListSound'
<1>1. /\ Len(ids) \in Nat
      /\ n \in Nat /\ m \in Nat /\ i \in Nat /\ j \in Nat /\ i <= n
  BY ListFacts, GrantFacts
<1>2. /\ capture.gen \in 1 .. MaxGeneration /\ capture.len \in Nat
      /\ output.gen \in 1 .. MaxGeneration /\ output.len \in Nat
      /\ allocated.capture \in Nat /\ allocated.output \in Nat
      /\ capture \in Vector /\ output \in Vector
  BY ContextsAssumption DEF TypeOK, Vector
<1> DEFINE filled == IF Passed("requestCapture", k) THEN Refilled(capture, i) ELSE capture
           outputs == IF Passed("requestOutput", k) THEN m
                      ELSE IF k = Position("requestOutput") THEN 0 ELSE allocated.output
<1>3. /\ filled \in Vector /\ filled.gen \in 0 .. MaxGeneration
      /\ Passed("requestCapture", k) => filled.len <= n
      /\ ~Passed("requestCapture", k) => filled.len <= allocated.capture
  <2>1. CASE Passed("requestCapture", k)
    <3>1. filled = [gen |-> capture.gen + 1, len |-> i]
      BY <2>1 DEF Refilled
    <3>2. capture.gen + 1 \in 1 .. MaxGeneration
      BY <1>2, ContextsAssumption
    <3>3. filled.gen = capture.gen + 1 /\ filled.len = i
      BY <3>1
    <3>4. filled \in Vector
      BY <1>1, <3>1, <3>2, ContextsAssumption DEF Vector
    <3>5. QED
      BY <1>1, <2>1, <3>2, <3>3, <3>4, ContextsAssumption
  <2>2. CASE ~Passed("requestCapture", k)
    BY <1>2, <2>2, ContextsAssumption DEF ListSound
  <2>3. QED
    BY <2>1, <2>2
<1>4. outputs \in Nat
  BY <1>1, <1>2
<1>5. output' \in Vector /\ output'.gen \in 0 .. MaxGeneration + 1
  <2>1. output' = IF Passed("requestOutput", k) THEN [gen |-> output.gen + 1, len |-> j] ELSE output
    BY DEF Construct, Refilled
  <2>2. output.gen + 1 \in 1 .. MaxGeneration + 1
    BY <1>2, ContextsAssumption
  <2>3. QED
    BY <1>1, <1>2, <2>1, <2>2, ContextsAssumption DEF Vector
<1>6. source' \in [Surfaces -> Ref]
  BY <1>5 DEF Construct, TypeOK, Ref
<1>7. destination' \in [Surfaces -> Ref] /\ planes' \in [Surfaces -> Nat]
  <2>1. CASE ~Passed("mapCapture", k)
    BY <2>1 DEF Construct, TypeOK
  <2>2. CASE Passed("mapCapture", k)
    <3>1. destination' = BindCapture(ids, filled.gen)
      BY <2>2 DEF Construct
    <3>2. \A s \in Surfaces : planes[s] \in Nat /\ NewPlanes(s) \in Nat
      BY DEF TypeOK, NewPlanes, ImagePlanes
    <3>3. planes' \in [Surfaces -> Nat]
      BY <2>2, <3>2 DEF Construct
    <3>4. filled.gen \in 0 .. MaxGeneration + 1
      BY <1>3, ContextsAssumption
    <3>5. BindCapture(ids, filled.gen) \in [Surfaces -> Ref]
      BY <3>4, BindFacts
    <3>6. QED
      BY <3>1, <3>3, <3>5
  <2>3. QED
    BY <2>1, <2>2
<1>8. /\ capture' \in Vector /\ allocated' \in [capture : Nat, output : Nat]
      /\ streaming' \subseteq {"capture", "output"} /\ ListSound'
  <2>1. CASE k = Position("codec")
    <3>1. Release(filled, outputs)
      BY <2>1 DEF Construct
    <3>2. /\ capture' = [gen |-> filled.gen + 1, len |-> 0]
          /\ allocated' = [capture |-> 0, output |-> outputs]
          /\ streaming' = {}
      BY <3>1 DEF Release, Refilled
    <3>3. filled.gen \in Nat /\ filled.gen + 1 \in 1 .. MaxGeneration + 1
      BY <1>3, ContextsAssumption
    <3>4. QED
      BY <1>4, <3>2, <3>3 DEF Vector, ListSound
  <2>2. CASE k # Position("codec")
    <3>1. /\ capture' = filled
          /\ allocated' = [capture |-> IF Passed("requestCapture", k) THEN n ELSE allocated.capture,
                           output  |-> outputs]
          /\ streaming' = streaming \cup (IF Passed("streamCapture", k) THEN {"capture"} ELSE {})
                                    \cup (IF Passed("streamOutput", k) THEN {"output"} ELSE {})
      BY <2>2 DEF Construct
    <3>2. streaming' \subseteq {"capture", "output"}
      BY <3>1 DEF TypeOK
    <3>3. QED
      BY <1>1, <1>2, <1>3, <1>4, <3>1, <3>2 DEF ListSound
  <2>3. QED
    BY <2>1, <2>2
<1>9. QED
  BY <1>5, <1>6, <1>7, <1>8

\* A creation that stops at its first step changes nothing.
LEMMA Unchanged ==
  ASSUME TypeOK, NEW ids \in Lists, NEW n, NEW m, NEW i, NEW j, Construct(ids, 1, n, m, i, j)
  PROVE  UNCHANGED <<source, destination, planes, capture, streaming>> /\ allocated'.capture = allocated.capture
<1>1. BoundOutputs(1, Len(ids)) = {}
  BY Positions DEF BoundOutputs, Passed
<1>2. source' = [s \in Surfaces |-> source[s]]
  BY <1>1 DEF Construct
<1>3. source' = source
  BY <1>2 DEF TypeOK
<1>4. /\ ~Passed("mapCapture", 1) /\ ~Passed("requestCapture", 1)
      /\ ~Passed("streamCapture", 1) /\ ~Passed("streamOutput", 1) /\ 1 # Position("codec")
  BY Positions DEF Passed
<1>5. UNCHANGED <<destination, planes>>
  BY <1>4 DEF Construct
<1>6. capture' = capture /\ allocated'.capture = allocated.capture
  BY <1>4 DEF Construct
<1>7. streaming' = streaming
  BY <1>4 DEF Construct
<1>8. QED
  BY <1>3, <1>5, <1>6, <1>7

\* A creation that stops in the codec's constructor leaves no buffers and no queue
\* that runs.
LEMMA Released ==
  ASSUME NEW ids, NEW n, NEW m, NEW i, NEW j, Construct(ids, 11, n, m, i, j)
  PROVE  streaming' = {} /\ allocated'.capture = 0
<1>1. 11 = Position("codec")
  BY Positions
<1>2. QED
  BY <1>1 DEF Construct, Release

\* A creation that stops before there are buffers changes neither the queues nor

\* the capture buffers.
LEMMA Untouched ==
  ASSUME NEW ids, NEW k \in 1 .. 3, NEW n, NEW m, NEW i, NEW j, Construct(ids, k, n, m, i, j)
  PROVE  streaming' = streaming /\ allocated'.capture = allocated.capture
<1>1. /\ ~Passed("requestCapture", k)
      /\ ~Passed("streamCapture", k) /\ ~Passed("streamOutput", k) /\ k # Position("codec")
  BY Positions DEF Passed
<1>2. allocated'.capture = allocated.capture
  BY <1>1 DEF Construct
<1>3. streaming' = streaming \cup (IF Passed("streamCapture", k) THEN {"capture"} ELSE {})
                           \cup (IF Passed("streamOutput", k) THEN {"output"} ELSE {})
  BY <1>1 DEF Construct
<1>4. QED
  BY <1>1, <1>2, <1>3

\* A creation that succeeds: both queues run, the driver's list is the kernel's,

\* and the surfaces of an orderly client refer to buffers of their own.
LEMMA Completed ==
  ASSUME TypeOK, NEW ids \in Lists,
         NEW n \in Granted(Len(ids)), NEW m \in Granted(Len(ids)),
         NEW i \in Mapped(n, "mapCapture", Success), NEW j \in Mapped(m, "mapOutput", Success),
         capture.gen < MaxGeneration, output.gen < MaxGeneration,
         Construct(ids, Success, n, m, i, j)
  PROVE  /\ streaming' = {"capture", "output"}
         /\ capture' = [gen |-> capture.gen + 1, len |-> n] /\ allocated'.capture = n
         /\ output' = [gen |-> output.gen + 1, len |-> m]
         /\ \A d \in 1 .. Len(ids) :
              /\ destination'[ids[d]] = [gen |-> capture.gen + 1, index |-> d - 1]
              /\ Derived => planes'[ids[d]] = ImagePlanes
         /\ \A s \in Surfaces \cap (0 .. Len(ids) - 1) :
              source'[s] = [gen |-> output.gen + 1, index |-> s]
<1>1. /\ Passed("requestCapture", Success) /\ Passed("mapCapture", Success)
      /\ Passed("requestOutput", Success) /\ Passed("bindOutput", Success)
      /\ Passed("streamCapture", Success) /\ Passed("streamOutput", Success)
      /\ Success # Position("codec")
  BY Positions DEF Passed
<1>2. i = n /\ j = m
  BY Positions DEF Mapped
<1>3. /\ capture' = [gen |-> capture.gen + 1, len |-> n] /\ allocated'.capture = n
      /\ output' = [gen |-> output.gen + 1, len |-> m]
  BY <1>1, <1>2 DEF Construct, Refilled
<1>4. streaming' = {"capture", "output"}
  <2>1. streaming' = streaming \cup {"capture"} \cup {"output"}
    BY <1>1 DEF Construct
  <2>2. QED
    BY <2>1 DEF TypeOK
<1>5. capture.gen + 1 \in 0 .. MaxGeneration + 1
  BY ContextsAssumption DEF TypeOK, Vector
<1>6. destination' = BindCapture(ids, capture.gen + 1)
  BY <1>1 DEF Construct, Refilled
<1>7. planes' = [s \in Surfaces |-> IF \E d \in 1 .. Len(ids) : ids[d] = s THEN NewPlanes(s) ELSE planes[s]]
  BY <1>1 DEF Construct
<1>8. ASSUME NEW d \in 1 .. Len(ids)
      PROVE  /\ destination'[ids[d]] = [gen |-> capture.gen + 1, index |-> d - 1]
             /\ Derived => planes'[ids[d]] = ImagePlanes
  <2>1. ids[d] \in Surfaces
    BY ListFacts DEF TypeOK
  <2>2. planes'[ids[d]] = NewPlanes(ids[d])
    BY <1>7, <2>1
  <2>3. QED
    BY <1>5, <1>6, <2>2, BindFacts DEF NewPlanes
<1>9. ASSUME NEW s \in Surfaces \cap (0 .. Len(ids) - 1)
      PROVE  source'[s] = [gen |-> output.gen + 1, index |-> s]
  <2>1. s \in BoundOutputs(Success, Len(ids))
    BY <1>1 DEF BoundOutputs
  <2>2. QED
    BY <1>3, <2>1 DEF Construct
<1>10. QED
  BY <1>3, <1>4, <1>8, <1>9

-----------------------------------------------------------------------------
(* The invariant. *)

\* Nothing is open, no buffers are there and nothing was done at first.
LEMMA Initially == Init => Inv
<1> SUFFICES ASSUME Init PROVE Inv
  OBVIOUS
<1>1. Open = {}
  BY DEF Init, Open
<1>2. contexts \in [ContextIds -> Seq(Surfaces)]
  BY DEF Init, NoContext
<1>3. \A s \in Surfaces : NoBuffer \in Ref
  <2>1. \A s \in Surfaces : 0 \in Surfaces
    BY ContextsAssumption, FS_CardinalityType
  <2>2. 0 \in 0 .. MaxGeneration + 1
    BY ContextsAssumption
  <2>3. QED
    BY <2>1, <2>2 DEF NoBuffer, Ref
<1>4. source \in [Surfaces -> Ref] /\ destination \in [Surfaces -> Ref]
  <2>1. /\ source = [s \in Surfaces |-> NoBuffer]
        /\ destination = [s \in Surfaces |-> NoBuffer]
    BY DEF Init
  <2>2. QED
    BY <1>3, <2>1
<1>5. TypeOK
  <2>1. output \in Vector /\ capture \in Vector
    <3>1. 1 \in 1 .. MaxGeneration + 1
      BY ContextsAssumption
    <3>2. QED
      BY <3>1 DEF Init, Vector
  <2>2. allocated \in [capture : Nat, output : Nat] /\ planes \in [Surfaces -> Nat]
    BY DEF Init
  <2>3. live \subseteq Surfaces /\ streaming \subseteq {"capture", "output"}
    BY DEF Init
  <2>4. aborted \in BOOLEAN /\ crashed \in BOOLEAN /\ orderly \in BOOLEAN
    BY DEF Init
  <2>5. QED
    BY <1>2, <1>4, <2>1, <2>2, <2>3, <2>4 DEF TypeOK
<1>6. QED
  BY <1>1, <1>5 DEF Init, Inv, OneContext, OpenRuns, ListSound, GivenLive, GivenPlanes,
     RefsSound, IdleIsClean, Safe, CopiesAreSafe

\* Freed and stopped, whoever was open: with none open the invariant needs no more.
LEMMA NoneOpen ==
  ASSUME TypeOK', Open' = {}, ListSound', IdleIsClean', Safe'
  PROVE  Inv'
BY DEF Inv, OneContext, OpenRuns, GivenLive, GivenPlanes, RefsSound

\* A new surface has no buffer yet and belongs to no context.
LEMMA CreatingSurface ==
  ASSUME Inv, NEW s \in Surfaces, CreateSurface(s)
  PROVE  Inv'
<1>1. s \notin live /\ 0 \in Surfaces
  BY ContextsAssumption, FS_CardinalityType DEF CreateSurface, SmallestFree
<1>2. Open' = Open /\ \A c \in ContextIds : Given(c)' = Given(c)
  BY DEF CreateSurface, Open, Given
<1>3. NoBuffer \in Ref
  BY <1>1, ContextsAssumption DEF NoBuffer, Ref
<1>4. TypeOK'
  BY <1>3 DEF Inv, TypeOK, CreateSurface
<1>5. OneContext' /\ OpenRuns' /\ ListSound'
  BY <1>2 DEF Inv, OneContext, OpenRuns, ListSound, CreateSurface
<1>6. GivenLive'
  BY <1>2 DEF Inv, GivenLive, CreateSurface, Open
<1>7. orderly => \A c \in Open : \A t \in Given(c) : t # s /\ t \in Surfaces
  BY <1>1 DEF Inv, GivenLive, TypeOK
<1>8. \A t \in Surfaces \ {s} : source'[t] = source[t] /\ destination'[t] = destination[t] /\ planes'[t] = planes[t]
  BY DEF CreateSurface, Inv, TypeOK
<1>9. orderly' = orderly /\ capture' = capture /\ output' = output
  BY DEF CreateSurface
<1>10. GivenPlanes'
  BY <1>2, <1>7, <1>8, <1>9 DEF Inv, GivenPlanes, Open
<1>11. RefsSound'
  <2> SUFFICES ASSUME orderly', NEW c \in Open', NEW t \in Given(c)'
               PROVE  /\ Sound(source'[t], output') /\ Sound(destination'[t], capture')
                      /\ \A u \in Given(c)' \ {t} :
                           source'[t] # source'[u] /\ destination'[t] # destination'[u]
    BY DEF RefsSound, Sound
  <2>1. c \in Open /\ Given(c)' = Given(c) /\ orderly
    BY <1>2, <1>9 DEF Open
  <2>2. /\ Sound(source[t], output) /\ Sound(destination[t], capture)
        /\ \A u \in Given(c) \ {t} : source[t] # source[u] /\ destination[t] # destination[u]
    BY <2>1 DEF Inv, RefsSound
  <2>3. \A u \in Given(c) : source'[u] = source[u] /\ destination'[u] = destination[u]
    BY <1>7, <1>8, <2>1
  <2>4. QED
    BY <1>9, <2>1, <2>2, <2>3
<1>12. IdleIsClean' /\ Safe'
  BY <1>2 DEF Inv, IdleIsClean, Safe, CopiesAreSafe, CreateSurface
<1>13. QED
  BY <1>4, <1>5, <1>6, <1>10, <1>11, <1>12 DEF Inv

\* An orderly client destroys a surface only when no context is open.
LEMMA DestroyingSurface ==
  ASSUME Inv, NEW s \in Surfaces, DestroySurface(s)
  PROVE  Inv'
<1>1. Open' = Open /\ \A c \in ContextIds : Given(c)' = Given(c)
  BY DEF DestroySurface, Open, Given
<1>2. TypeOK'
  BY DEF Inv, TypeOK, DestroySurface, MayDestroySurface
<1>3. OneContext' /\ OpenRuns' /\ ListSound'
  BY <1>1 DEF Inv, OneContext, OpenRuns, ListSound, DestroySurface
<1>4. orderly' => orderly /\ Open = {}
  BY DEF DestroySurface, MayDestroySurface
<1>5. GivenLive' /\ GivenPlanes' /\ RefsSound'
  BY <1>1, <1>4 DEF GivenLive, GivenPlanes, RefsSound
<1>6. IdleIsClean' /\ Safe'
  BY <1>1, <1>4 DEF Inv, IdleIsClean, Safe, CopiesAreSafe, DestroySurface
<1>7. QED
  BY <1>2, <1>3, <1>5, <1>6 DEF Inv

\* The surface an orderly client copies has its planes and a sound reference.
LEMMA CopyingSurface ==
  ASSUME Inv, NEW s \in Surfaces, CopySurface(s)
  PROVE  Inv'
<1>1. Open' = Open /\ \A c \in ContextIds : Given(c)' = Given(c)
  BY DEF CopySurface, Open, Given
<1>2. UNCHANGED <<live, contexts, source, destination, planes, output, capture, allocated, streaming>>
  BY DEF CopySurface
<1>3. orderly' => orderly /\ \E c \in Open : s \in Given(c)
  BY DEF CopySurface, MayCopy
<1>4. TypeOK'
  <2>1. aborted' \in BOOLEAN /\ crashed' \in BOOLEAN
    BY DEF CopySurface
  <2>2. orderly' \in BOOLEAN
    BY DEF CopySurface, MayCopy
  <2>3. QED
    BY <1>2, <2>1, <2>2 DEF Inv, TypeOK, Vector, Ref
<1>5. OneContext' /\ OpenRuns' /\ ListSound'
  BY <1>1, <1>2 DEF Inv, OneContext, OpenRuns, ListSound
<1>6. GivenLive' /\ GivenPlanes'
  BY <1>1, <1>2, <1>3 DEF Inv, GivenLive, GivenPlanes, Open
<1>7. RefsSound'
  <2> SUFFICES ASSUME orderly' PROVE RefsSound'
    BY DEF RefsSound
  <2>1. RefsSound /\ orderly
    BY <1>3 DEF Inv
  <2>2. QED
    BY <1>1, <1>2, <2>1 DEF RefsSound, Sound, Open
<1>8. IdleIsClean'
  BY <1>1, <1>2, <1>3 DEF Inv, IdleIsClean
<1>9. Safe'
  <2> SUFFICES ASSUME orderly', Derived PROVE ~aborted' /\ ~crashed'
    BY DEF Safe, CopiesAreSafe
  <2>1. PICK c \in Open : s \in Given(c)
    BY <1>3
  <2>2. planes[s] = ImagePlanes
    BY <1>3, <2>1 DEF Inv, GivenPlanes
  <2>3. Sound(destination[s], capture)
    BY <1>3, <2>1 DEF Inv, RefsSound
  <2>4. QED
    BY <2>2, <2>3 DEF CopySurface
<1>10. QED
  BY <1>4, <1>5, <1>6, <1>7, <1>8, <1>9 DEF Inv

\* The destructor of the one context leaves nothing that runs.
LEMMA DestroyingContext ==
  ASSUME Inv, NEW c \in ContextIds, DestroyContext(c)
  PROVE  Inv'
<1>1. c \in Open /\ Open = {c}
  BY DEF Inv, OneContext, DestroyContext, Open
<1>2. Open' = {}
  BY <1>1 DEF DestroyContext, Open, Inv, TypeOK
<1>3. /\ capture' = [gen |-> capture.gen + 1, len |-> 0]
      /\ allocated' = [capture |-> 0, output |-> allocated.output]
      /\ streaming' = {}
  BY DEF DestroyContext, Release, Refilled
<1>4. capture.gen + 1 \in 1 .. MaxGeneration + 1
  BY <1>1, ContextsAssumption DEF Inv, OpenRuns, TypeOK, Vector
<1>5. contexts' \in [ContextIds -> Seq(Surfaces)]
  BY DEF DestroyContext, NoContext, Inv, TypeOK
<1>6. capture' \in Vector /\ allocated' \in [capture : Nat, output : Nat]
  BY <1>3, <1>4 DEF Vector, Inv, TypeOK
<1>7. TypeOK'
  BY <1>3, <1>5, <1>6 DEF DestroyContext, Inv, TypeOK
<1>8. ListSound' /\ IdleIsClean' /\ Safe'
  BY <1>3 DEF ListSound, IdleIsClean, Safe, CopiesAreSafe, DestroyContext, Inv
<1>9. QED
  BY <1>2, <1>7, <1>8, NoneOpen

\* A destructor that throws ends the process, and what it leaves is nobody's.
LEMMA DestroyingContextCrash ==
  ASSUME Inv, NEW c \in ContextIds, DestroyContextCrash(c)
  PROVE  Inv'
<1>1. ~orderly'
  BY DEF DestroyContextCrash
<1>2. UNCHANGED <<live, contexts, source, destination, planes, output, capture, allocated, streaming>>
  BY DEF DestroyContextCrash
<1>3. TypeOK'
  BY <1>2 DEF DestroyContextCrash, Inv, TypeOK, Vector, Ref
<1>4. OneContext' /\ OpenRuns' /\ ListSound'
  BY <1>2 DEF Inv, OneContext, OpenRuns, ListSound, Open
<1>5. QED
  BY <1>1, <1>3, <1>4 DEF Inv, GivenLive, GivenPlanes, RefsSound, IdleIsClean, Safe, CopiesAreSafe

\* The device is opened again, or the process has ended.
LEMMA Terminating ==
  ASSUME Inv, Terminate
  PROVE  Inv'
<1>1. capture.gen + 1 \in 1 .. MaxGeneration + 1 /\ output.gen + 1 \in 1 .. MaxGeneration + 1
  BY ContextsAssumption DEF Terminate, Inv, TypeOK, Vector
<1>2. CASE UNCHANGED crashed /\ live' = {} /\ contexts' = [c \in ContextIds |-> NoContext]
           /\ Release(capture, 0) /\ output' = Refilled(output, 0) /\ orderly' = (live = {} /\ Open = {})
  <2>1. Open' = {}
    BY <1>2 DEF Open
  <2>2. contexts' \in [ContextIds -> Seq(Surfaces)]
    BY <1>2 DEF NoContext
  <2>3. /\ capture' \in Vector /\ output' \in Vector /\ allocated' \in [capture : Nat, output : Nat]
        /\ capture'.len = 0 /\ allocated'.capture = 0 /\ streaming' = {}
    BY <1>1, <1>2 DEF Release, Refilled, Vector
  <2>4. TypeOK'
    BY <1>2, <2>2, <2>3 DEF Terminate, Inv, TypeOK
  <2>5. ListSound' /\ IdleIsClean'
    BY <2>3 DEF ListSound, IdleIsClean
  <2>6. ~aborted' /\ ~crashed'
    BY <1>2 DEF Terminate, Alive
  <2>7. QED
    BY <2>1, <2>4, <2>5, <2>6, NoneOpen DEF Safe, CopiesAreSafe
<1>3. CASE ~orderly' /\ crashed' /\ UNCHANGED <<live, contexts, output, capture, allocated, streaming>>
  <2>1. TypeOK'
    BY <1>3 DEF Terminate, Inv, TypeOK, Vector, Ref
  <2>2. OneContext' /\ OpenRuns' /\ ListSound'
    BY <1>3 DEF Inv, OneContext, OpenRuns, ListSound, Open
  <2>3. QED
    BY <1>3, <2>1, <2>2 DEF Inv, GivenLive, GivenPlanes, RefsSound, IdleIsClean, Safe, CopiesAreSafe
<1>4. QED
  BY <1>2, <1>3 DEF Terminate

\* Only a creation that succeeds opens a context; it needs a device whose queues
\* do not run, so that no context was open.
LEMMA CreatingContext ==
  ASSUME Inv, NEW c \in ContextIds, NEW ids \in Lists, NEW k \in 1 .. Success,
         CreateContext(c, ids, k)
  PROVE  Inv'
<1>1. PICK n \in Granted(Len(ids)), m \in Granted(Len(ids)) :
        \E i \in Mapped(n, "mapCapture", k), j \in Mapped(m, "mapOutput", k) :
          /\ Construct(ids, k, n, m, i, j)
          /\ orderly' = (orderly /\ MayCreate(ids) /\ Undone(k) /\ n = Len(ids) /\ m = Len(ids))
  BY DEF CreateContext
<1>2. PICK i \in Mapped(n, "mapCapture", k), j \in Mapped(m, "mapOutput", k) :
          /\ Construct(ids, k, n, m, i, j)
          /\ orderly' = (orderly /\ MayCreate(ids) /\ Undone(k) /\ n = Len(ids) /\ m = Len(ids))
  BY <1>1
<1>3. /\ capture.gen < MaxGeneration /\ output.gen < MaxGeneration
      /\ c \in ContextIds \ Open
      /\ contexts' = Entered(c, ids, k)
      /\ live' = live /\ aborted' = aborted /\ crashed' = crashed
      /\ ~aborted /\ ~crashed
  BY DEF CreateContext, SmallestFree, Alive
<1>4. TypeOK /\ ListSound
  BY DEF Inv
<1>5. /\ ids \in Seq(Surfaces) /\ Len(ids) \in Nat
      /\ \A d \in 1 .. Len(ids) : ids[d] \in live /\ ids[d] \in Surfaces
      /\ \A d, e \in 1 .. Len(ids) : ids[d] = ids[e] => d = e
  BY <1>4, ListFacts DEF TypeOK
<1>6. contexts' \in [ContextIds -> Seq(Surfaces)]
  BY <1>3, <1>4, <1>5 DEF Entered, TypeOK
<1>7. TypeOK' /\ ListSound'
  <2>1. /\ source' \in [Surfaces -> Ref] /\ destination' \in [Surfaces -> Ref]
        /\ planes' \in [Surfaces -> Nat]
        /\ output' \in Vector /\ capture' \in Vector
        /\ allocated' \in [capture : Nat, output : Nat]
        /\ streaming' \subseteq {"capture", "output"}
        /\ ListSound'
    BY <1>2, <1>3, <1>4, Constructed
  <2>2. orderly' \in BOOLEAN
    BY <1>2
  <2>3. QED
    BY <1>3, <1>4, <1>6, <2>1, <2>2 DEF TypeOK
<1>8. Safe'
  BY <1>3 DEF Safe, CopiesAreSafe
<1>9. Open # {} => k = 1
  <2> SUFFICES ASSUME Open # {}, k # 1 PROVE FALSE
    OBVIOUS
  <2>1. ~Refused(Steps[1], ids)
    BY Positions DEF CreateContext, StopsAt
  <2>2. "output" \in streaming
    BY DEF Inv, OpenRuns
  <2>3. QED
    BY <2>1, <2>2, Positions DEF Refused
<1>10. CASE k = Success
  <2>1. Open = {} /\ contexts' = [contexts EXCEPT ![c] = ids]
    BY <1>3, <1>9, <1>10, Positions DEF Entered
  <2>2. \A d \in Open' : d = c /\ contexts'[d] = ids
    BY <2>1, <1>4 DEF Open, TypeOK
  <2>3. Open' \subseteq ContextIds /\ OneContext'
    BY <2>2 DEF OneContext, Open
  <2>4. /\ streaming' = {"capture", "output"}
        /\ capture' = [gen |-> capture.gen + 1, len |-> n] /\ allocated'.capture = n
        /\ output' = [gen |-> output.gen + 1, len |-> m]
        /\ \A d \in 1 .. Len(ids) :
             /\ destination'[ids[d]] = [gen |-> capture.gen + 1, index |-> d - 1]
             /\ Derived => planes'[ids[d]] = ImagePlanes
        /\ \A s \in Surfaces \cap (0 .. Len(ids) - 1) :
             source'[s] = [gen |-> output.gen + 1, index |-> s]
    BY <1>2, <1>3, <1>4, <1>10, Completed
  <2>5. OpenRuns'
    BY <1>3, <1>4, <2>4, ContextsAssumption DEF OpenRuns, TypeOK, Vector
  <2>6. \A d \in Open' : \A s \in Given(d)' : \E e \in 1 .. Len(ids) : s = ids[e]
    BY <2>2 DEF Given
  <2>7. GivenLive' /\ GivenPlanes'
    <3>1. ASSUME NEW d \in Open', NEW s \in Given(d)'
          PROVE  s \in live' /\ (Derived => planes'[s] = ImagePlanes)
      <4>1. PICK e \in 1 .. Len(ids) : s = ids[e]
        BY <2>6
      <4>2. Derived => planes'[ids[e]] = ImagePlanes
        BY <2>4
      <4>3. ids[e] \in live
        BY <1>5
      <4>4. QED
        BY <1>3, <4>1, <4>2, <4>3
    <3>2. QED
      BY <3>1 DEF GivenLive, GivenPlanes, ImagePlanes
  <2>8. RefsSound'
    <3> SUFFICES ASSUME orderly', NEW d \in Open', NEW s \in Given(d)'
                 PROVE  /\ Sound(source'[s], output') /\ Sound(destination'[s], capture')
                        /\ \A t \in Given(d)' \ {s} :
                             source'[s] # source'[t] /\ destination'[s] # destination'[t]
      BY DEF RefsSound, Sound
    <3>1. n = Len(ids) /\ m = Len(ids) /\ \A e \in 1 .. Len(ids) : ids[e] = e - 1
      BY <1>2 DEF MayCreate
    <3>2. ASSUME NEW t \in Given(d)'
          PROVE  /\ t \in 0 .. Len(ids) - 1
                 /\ source'[t].gen = output.gen + 1 /\ source'[t].index = t
                 /\ destination'[t].gen = capture.gen + 1 /\ destination'[t].index = t
      <4>1. PICK e \in 1 .. Len(ids) : t = ids[e]
        BY <2>6
      <4>2. t = e - 1 /\ t \in 0 .. Len(ids) - 1 /\ t \in Surfaces
        BY <1>5, <3>1, <4>1
      <4>3. source'[t] = [gen |-> output.gen + 1, index |-> t]
        BY <2>4, <4>2
      <4>4. destination'[ids[e]] = [gen |-> capture.gen + 1, index |-> e - 1]
        BY <2>4
      <4>5. destination'[t].gen = capture.gen + 1 /\ destination'[t].index = t
        BY <4>1, <4>2, <4>4
      <4>6. QED
        BY <4>2, <4>3, <4>5
    <3>3. /\ source'[s].gen = output'.gen /\ source'[s].index < output'.len
          /\ destination'[s].gen = capture'.gen /\ destination'[s].index < capture'.len
      <4>1. output'.gen = output.gen + 1 /\ output'.len = Len(ids)
        BY <2>4, <3>1
      <4>2. capture'.gen = capture.gen + 1 /\ capture'.len = Len(ids)
        BY <2>4, <3>1
      <4>3. s \in 0 .. Len(ids) - 1 /\ s < Len(ids)
        BY <1>5, <3>2
      <4>4. QED
        BY <3>2, <4>1, <4>2, <4>3
    <3>4. ASSUME NEW t \in Given(d)' \ {s}
          PROVE  source'[s] # source'[t] /\ destination'[s] # destination'[t]
      <4>1. source'[s].index = s /\ destination'[s].index = s
        BY <3>2
      <4>2. source'[t].index = t /\ destination'[t].index = t
        <5>1. t \in Given(d)' /\ t # s
          OBVIOUS
        <5>2. QED
          BY <3>2, <5>1
      <4>3. QED
        BY <4>1, <4>2
    <3>5. QED
      BY <3>3, <3>4 DEF Sound
  <2>9. IdleIsClean'
    <3>1. contexts'[c] = ids /\ c \in ContextIds
      BY <1>4, <2>1 DEF TypeOK
    <3>2. ids # << >>
      <4>1. ~Refused(Steps[2], ids) /\ Steps[2] = "setCaptureFormat"
        BY <1>10, Positions DEF CreateContext, StopsAt, Steps
      <4>2. QED
        BY <4>1 DEF Refused
    <3>3. c \in Open'
      BY <3>1, <3>2 DEF Open, NoContext
    <3>4. QED
      BY <3>3 DEF IdleIsClean
  <2>10. QED
    BY <1>7, <1>8, <2>3, <2>5, <2>7, <2>8, <2>9 DEF Inv
<1>11. CASE k # Success
  <2>1. contexts' = contexts /\ Open' = Open /\ \A d \in ContextIds : Given(d)' = Given(d)
    BY <1>3, <1>11 DEF Entered, Open, Given
  <2>2. OneContext'
    BY <2>1 DEF Inv, OneContext
  <2>3. CASE Open = {}
    <3>1. OpenRuns' /\ GivenLive' /\ GivenPlanes' /\ RefsSound'
      BY <2>1, <2>3 DEF OpenRuns, GivenLive, GivenPlanes, RefsSound
    <3>2. IdleIsClean'
      <4> SUFFICES ASSUME orderly' PROVE streaming' = {} /\ allocated'.capture = 0
        BY DEF IdleIsClean
      <4>1. orderly /\ Undone(k)
        BY <1>2
      <4>2. streaming = {} /\ allocated.capture = 0
        BY <2>3, <4>1 DEF Inv, IdleIsClean
      <4>3. k \in 1 .. 3 \/ k = 11
        BY <1>11, <4>1, Positions DEF Undone, Steps
      <4>4. CASE k \in 1 .. 3
        BY <1>2, <4>2, <4>4, Untouched
      <4>5. CASE k = 11
        BY <1>2, <4>5, Released
      <4>6. QED
        BY <4>3, <4>4, <4>5
    <3>3. QED
      BY <1>7, <1>8, <2>2, <3>1, <3>2 DEF Inv
  <2>4. CASE Open # {}
    <3>1. k = 1
      BY <1>9, <2>4
    <3>2. UNCHANGED <<source, destination, planes, capture, streaming>> /\ allocated'.capture = allocated.capture
      BY <1>2, <1>4, <3>1, Unchanged
    <3>3. ~orderly'
      BY <1>2, <2>4 DEF MayCreate
    <3>4. OpenRuns'
      BY <2>1, <2>4, <3>2 DEF Inv, OpenRuns
    <3>5. GivenLive' /\ GivenPlanes' /\ RefsSound' /\ IdleIsClean'
      BY <3>3 DEF GivenLive, GivenPlanes, RefsSound, IdleIsClean
    <3>6. QED
      BY <1>7, <1>8, <2>2, <3>4, <3>5 DEF Inv
  <2>5. QED
    BY <2>3, <2>4
<1>12. QED
  BY <1>10, <1>11

\* A step of the specification that changes nothing.
LEMMA Stuttering ==
  ASSUME Inv, UNCHANGED vars
  PROVE  Inv'
BY DEF vars, Inv, TypeOK, Vector, Ref, OneContext, OpenRuns, ListSound, GivenLive, GivenPlanes,
   RefsSound, IdleIsClean, Safe, CopiesAreSafe, Open, Given, Sound

\* The conjunction that is inductive: the device's queues run exactly for the open

\* context, and the driver's lists, the surfaces and what an orderly client leaves
\* agree with them, whatever is created, fails, is destroyed or terminated.
THEOREM Invariance == Spec => []Inv
<1>1. Init => Inv
  BY Initially
<1>2. Inv /\ [Next]_vars => Inv'
  <2> SUFFICES ASSUME Inv, [Next]_vars PROVE Inv'
    OBVIOUS
  <2>1. CASE \E s \in Surfaces : CreateSurface(s)
    BY <2>1, CreatingSurface
  <2>2. CASE \E s \in Surfaces : DestroySurface(s)
    BY <2>2, DestroyingSurface
  <2>3. CASE \E s \in Surfaces : CopySurface(s)
    BY <2>3, CopyingSurface
  <2>4. CASE \E c \in ContextIds : \E ids \in Lists : \E k \in 1 .. Success : CreateContext(c, ids, k)
    BY <2>4, CreatingContext
  <2>5. CASE \E c \in ContextIds : DestroyContext(c)
    BY <2>5, DestroyingContext
  <2>6. CASE \E c \in ContextIds : DestroyContextCrash(c)
    BY <2>6, DestroyingContextCrash
  <2>7. CASE Terminate
    BY <2>7, Terminating
  <2>8. CASE UNCHANGED vars
    BY <2>8, Stuttering
  <2>9. QED
    BY <2>1, <2>2, <2>3, <2>4, <2>5, <2>6, <2>7, <2>8 DEF Next
<1>3. QED
  BY <1>1, <1>2, PTL DEF Spec

-----------------------------------------------------------------------------
(* What the runs check of two surfaces, for any number. *)

\* The variables stay in their domains, whatever fails.
THEOREM TypeCorrect == Spec => []TypeOK
<1>1. Inv => TypeOK
  BY DEF Inv
<1>2. QED
  BY <1>1, Invariance, PTL

\* At most one context is open, and both queues of its device run, although the

\* driver never looks whether there is another.
THEOREM DeviceOwned == Spec => []ContextOwnsDevice
<1>1. Inv => ContextOwnsDevice
  <2> SUFFICES ASSUME Inv PROVE ContextOwnsDevice
    OBVIOUS
  <2>1. CASE Open = {}
    BY <2>1, FS_EmptySet DEF ContextOwnsDevice
  <2>2. CASE Open # {}
    <3>1. PICK c : Open = {c}
      BY <2>2 DEF Inv, OneContext
    <3>2. Cardinality(Open) = 1
      BY <3>1, FS_Singleton
    <3>3. QED
      BY <3>2 DEF Inv, OpenRuns, ContextOwnsDevice
  <2>3. QED
    BY <2>1, <2>2
<1>2. QED
  BY <1>1, Invariance, PTL

\* The driver's list has no buffer that the kernel freed, wherever a creation

\* stops, and the list of a live context is complete.
THEOREM CaptureListSound == Spec => []CaptureIsAllocated
<1>1. Inv => CaptureIsAllocated
  BY DEF Inv, OpenRuns, ListSound, CaptureIsAllocated
<1>2. QED
  BY <1>1, Invariance, PTL

\* The surfaces of an orderly client's context have sound buffers of their own.
THEOREM ReferencesSound == Spec => []RefsSound
<1>1. Inv => RefsSound
  BY DEF Inv
<1>2. QED
  BY <1>1, Invariance, PTL

\* An orderly client's device is free for the next context.
THEOREM NothingHeld == Spec => []IdleIsClean
<1>1. Inv => IdleIsClean
  BY DEF Inv
<1>2. QED
  BY <1>1, Invariance, PTL

\* Where the capture format is NV12, an orderly client's copies are safe.
THEOREM SafeCopies == ASSUME Derived PROVE Spec => []CopiesAreSafe
<1>1. Inv => CopiesAreSafe
  BY DEF Inv, Safe
<1>2. QED
  BY <1>1, Invariance, PTL
=============================================================================

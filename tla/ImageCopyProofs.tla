---------------------------- MODULE ImageCopyProofs ----------------------------
(***************************************************************************)
(* Proofs about ImageCopy, for surfaces and images of every size, whatever *)
(* block the device rounds up to.                                          *)
(***************************************************************************)
EXTENDS ImageCopy, TLAPS

\* The surface is one that vaCreateSurfaces made, and the image one that
\* vaCreateImage made.
Created ==
  \E w, h \in Sizes, f \in Formats, block \in Blocks :
    /\ width = w /\ height = h
    /\ format = SetFormat(f, w, h, block) /\ surfaceLayout = SurfaceLayout(format)
Imaged ==
  /\ imageWidth \in Sizes /\ imageHeight \in Sizes
  /\ imageLayout = DeriveLayout(imageWidth, imageHeight)
  /\ dataSize = imageLayout[1].size + imageLayout[2].size

\* What copy_surface_to_image does with them.
CopiesOf ==
  [i \in 1 .. Len(surfaceLayout) |->
     [to |-> imageLayout[i].offset, physical |-> surfaceLayout[i].physical,
      from |-> surfaceLayout[i].offset, size |-> PlaneBytes(i)]]

Inv ==
  /\ width = 0 =>
       format.pixelformat = "none" /\ imageLayout = << >> /\ copied = << >> /\ descriptor = << >>
  /\ width # 0 => Created
  /\ imageLayout # << >> => Imaged
  /\ copied # << >> =>
       /\ imageLayout # << >> /\ imageWidth <= width /\ imageHeight <= height
       /\ copied = CopiesOf
  /\ descriptor # << >> => descriptor = Describe

-----------------------------------------------------------------------------
(* Arithmetic. *)

\* A product grows with its factors.
LEMMA Products ==
  ASSUME NEW a \in Nat, NEW b \in Nat, NEW c \in Nat, NEW d \in Nat, a <= c, b <= d
  PROVE  a * b \in Nat /\ c * d \in Nat /\ a * b <= c * d
<1>1. a * b \in Nat /\ c * b \in Nat /\ c * d \in Nat
  OBVIOUS
<1>2. a * b <= c * b /\ c * b <= c * d
  OBVIOUS
<1>3. QED
  BY <1>1, <1>2

\* Half a number grows with it.
LEMMA Halves ==
  ASSUME NEW a \in Nat, NEW b \in Nat, a <= b
  PROVE  a \div 2 \in Nat /\ a \div 2 <= b \div 2
OBVIOUS

\* The device rounds up.
LEMMA Rounded ==
  ASSUME NEW n \in Nat, NEW block \in Nat \ {0}
  PROVE  RoundUp(n, block) \in Nat /\ n <= RoundUp(n, block)
<1>1. n + block - 1 \in Nat
  OBVIOUS
<1>2. ASSUME NEW m \in Nat PROVE m \div block \in Nat /\ m < (m \div block) * block + block
  <2>1. m = block * (m \div block) + (m % block) /\ m % block \in 0 .. block - 1
    OBVIOUS
  <2>2. QED
    BY <2>1
<1>3. /\ (n + block - 1) \div block \in Nat
      /\ n + block - 1 < ((n + block - 1) \div block) * block + block
  BY <1>1, <1>2
<1>4. ((n + block - 1) \div block) * block \in Nat
  BY <1>3
<1>5. QED
  BY <1>3, <1>4 DEF RoundUp

\* A part of the last row ends inside of what holds the whole row.
LEMMA RowEnds ==
  \A p, q, m, n, k \in Nat : q + n <= m /\ k <= n => q + k <= m /\ p + q + k <= p + m
OBVIOUS

\* Rounding up to pairs of samples stays inside of what is even itself.
LEMMA Pairs ==
  ASSUME NEW n \in Nat, NEW N \in Nat, n <= N, n % 2 = 0 \/ N % 2 = 0
  PROVE  (n + 1) \div 2 \in Nat /\ 2 * ((n + 1) \div 2) \in Nat /\ 2 * ((n + 1) \div 2) <= N
OBVIOUS

\* A multiple of an even number is even.
LEMMA EvenMultiple ==
  ASSUME NEW k \in Nat, NEW b \in Nat, b % 2 = 0
  PROVE  (k * b) % 2 = 0
<1>1. PICK c \in Nat : b = 2 * c
  <2>1. b = 2 * (b \div 2) /\ b \div 2 \in Nat
    OBVIOUS
  <2> QED BY <2>1
<1>2. k * b = 2 * (k * c) /\ k * c \in Nat
  BY <1>1
<1>3. \A m \in Nat : (2 * m) % 2 = 0
  OBVIOUS
<1> QED BY <1>2, <1>3

\* What a device that decodes in even blocks rounds up to is even.
LEMMA RoundedEven ==
  ASSUME NEW n \in Nat, NEW block \in Nat \ {0}, block % 2 = 0
  PROVE  RoundUp(n, block) % 2 = 0
<1>1. (n + block - 1) \div block \in Nat
  OBVIOUS
<1> QED BY <1>1, EvenMultiple DEF RoundUp

\* The chroma rows fit in half the bytes of the luma rows.
LEMMA HalfRows ==
  ASSUME NEW h \in Nat, NEW H \in Nat, NEW W \in Nat, h <= H, h % 2 = 0 \/ H % 2 = 0
  PROVE  ((h + 1) \div 2) * W \in Nat /\ ((h + 1) \div 2) * W <= (W * H) \div 2
<1>1. (h + 1) \div 2 \in Nat /\ 2 * ((h + 1) \div 2) <= H
  BY Pairs
<1>2. ASSUME NEW k \in Nat, 2 * k <= H PROVE k * W \in Nat /\ k * W <= (W * H) \div 2
  <2>1. 2 * (k * W) = (2 * k) * W /\ k * W \in Nat /\ W * H \in Nat /\ H * W = W * H
    OBVIOUS
  <2>2. (2 * k) * W <= H * W
    BY <1>2, Products
  <2>3. 2 * (k * W) <= W * H
    BY <2>1, <2>2
  <2>4. QED
    BY <2>1, <2>3
<1>3. QED
  BY <1>1, <1>2

-----------------------------------------------------------------------------
(* What surfaces and images are. *)

\* Sizes are positive, and even when the client asks for even ones.
LEMMA SizeFacts ==
  ASSUME NEW n \in Sizes
  PROVE  n \in Nat /\ n >= 1 /\ (EvenSizes => n % 2 = 0)
BY CopyAssumption DEF Sizes

\* The surface is at least as large as asked for, and its planes are those of its
\* format.
LEMMA SurfaceFacts ==
  ASSUME Created
  PROVE  \E W, H \in Nat :
           /\ width \in Nat /\ height \in Nat /\ width >= 1 /\ height >= 1
           /\ width <= W /\ height <= H
           /\ format.width = W /\ format.height = H
           /\ \/ /\ format.pixelformat = "NV12"
                 /\ format.sizeimage = << W * H + (W * H) \div 2 >>
                 /\ surfaceLayout = << Plane(0, W * H, W, 0), Plane(0, (W * H) \div 2, W, W * H) >>
              \/ /\ format.pixelformat = "NV12M"
                 /\ format.sizeimage = << W * H, (W * H) \div 2 >>
                 /\ surfaceLayout = << Plane(0, W * H, W, 0), Plane(1, (W * H) \div 2, W, W * H) >>
<1>1. PICK w \in Sizes, h \in Sizes, f \in Formats, block \in Blocks :
        /\ width = w /\ height = h
        /\ format = SetFormat(f, w, h, block) /\ surfaceLayout = SurfaceLayout(format)
  BY DEF Created
<1>2. w \in Nat /\ h \in Nat /\ w >= 1 /\ h >= 1 /\ block \in Nat \ {0} /\ f \in {"NV12", "NV12M"}
  BY SizeFacts, CopyAssumption
<1>3. DEFINE W == RoundUp(w, block)
<1>4. DEFINE H == RoundUp(h, block)
<1>5. W \in Nat /\ H \in Nat /\ w <= W /\ h <= H
  BY <1>2, Rounded
<1>6. /\ format.width = W /\ format.height = H /\ format.pixelformat = f
      /\ format.sizeimage = IF f = "NV12" THEN << W * H + (W * H) \div 2 >>
                                          ELSE << W * H, (W * H) \div 2 >>
  BY <1>1 DEF SetFormat
<1>7. CASE f = "NV12"
  <2>1. surfaceLayout = << Plane(0, W * H, W, 0), Plane(0, (W * H) \div 2, W, W * H) >>
    BY <1>1, <1>6, <1>7 DEF SurfaceLayout, DeriveLayout
  <2> HIDE DEF W, H
  <2>2. QED
    BY <1>1, <1>2, <1>5, <1>6, <1>7, <2>1
<1>8. CASE f = "NV12M"
  <2>1. format.sizeimage = << W * H, (W * H) \div 2 >>
    BY <1>6, <1>8
  <2>2. surfaceLayout = << Plane(0, W * H, W, 0), Plane(1, (W * H) \div 2, W, W * H) >>
    <3> HIDE DEF W, H
    <3>1. QED
      BY <1>1, <1>6, <1>8, <2>1 DEF SurfaceLayout, AppendPlanes
  <2> HIDE DEF W, H
  <2>3. QED
    BY <1>1, <1>2, <1>5, <1>6, <1>8, <2>1, <2>2
<1>9. QED
  BY <1>2, <1>7, <1>8

\* The image has two planes, one behind the other.
LEMMA ImageFacts ==
  ASSUME Imaged
  PROVE  /\ imageWidth \in Nat /\ imageHeight \in Nat
         /\ imageLayout[1].offset = 0 /\ imageLayout[1].size = imageWidth * imageHeight
         /\ imageLayout[2].offset = imageWidth * imageHeight
         /\ imageLayout[2].size = (imageWidth * imageHeight) \div 2
         /\ dataSize = imageWidth * imageHeight + (imageWidth * imageHeight) \div 2
         /\ imageWidth * imageHeight \in Nat /\ (imageWidth * imageHeight) \div 2 \in Nat
<1>1. imageWidth \in Nat /\ imageHeight \in Nat
  BY SizeFacts DEF Imaged
<1>2. imageWidth * imageHeight \in Nat
  BY <1>1
<1>3. (imageWidth * imageHeight) \div 2 \in Nat
  BY <1>2, Halves
<1>4. QED
  BY <1>1, <1>2, <1>3 DEF Imaged, DeriveLayout, Plane

\* The two copies.
LEMMA CopyFacts ==
  ASSUME Created, Imaged, copied = CopiesOf
  PROVE  /\ Copies = {1, 2} /\ Len(copied) = 2
         /\ copied[1].to = 0 /\ copied[1].size = imageWidth * imageHeight
         /\ copied[2].to = imageWidth * imageHeight
         /\ copied[2].size = (imageWidth * imageHeight) \div 2
         /\ \A i \in {1, 2} : /\ copied[i].from = surfaceLayout[i].offset
                              /\ copied[i].physical = surfaceLayout[i].physical
<1>1. Len(surfaceLayout) = 2
  BY SurfaceFacts
<1>2. copied = [i \in 1 .. 2 |->
                  [to |-> imageLayout[i].offset, physical |-> surfaceLayout[i].physical,
                   from |-> surfaceLayout[i].offset, size |-> PlaneBytes(i)]]
  BY <1>1 DEF CopiesOf
<1>3. PlaneBytes(1) = imageWidth * imageHeight /\ PlaneBytes(2) = (imageWidth * imageHeight) \div 2
  BY <1>1, ImageFacts DEF PlaneBytes
<1>4. Len(copied) = 2
  BY <1>2
<1>5. QED
  BY <1>2, <1>3, <1>4, ImageFacts DEF Copies

-----------------------------------------------------------------------------
(* The invariant: a surface and an image are made once, and never change. *)

\* The properties speak of surfaces and images that the operations made.
THEOREM Invariance == Spec => []Inv
<1>1. Init => Inv
  BY DEF Init, Inv
<1>2. Inv /\ [Next]_vars => Inv'
  <2> SUFFICES ASSUME Inv, [Next]_vars PROVE Inv'
    OBVIOUS
  <2> USE DEF Inv
  <2>1. ASSUME NEW w \in Sizes, NEW h \in Sizes, NEW f \in Formats, NEW block \in Blocks,
               CreateSurface(w, h, f, block)
        PROVE  Inv'
    <3>1. width' # 0
      BY <2>1, SizeFacts DEF CreateSurface
    <3>2. Created'
      BY <2>1 DEF CreateSurface, Created
    <3>3. imageLayout' = << >> /\ copied' = << >> /\ descriptor' = << >>
      BY <2>1 DEF CreateSurface, imageVars
    <3>4. QED
      BY <3>1, <3>2, <3>3
  <2>2. ASSUME NEW w \in Sizes, NEW h \in Sizes, CreateImage(w, h)
        PROVE  Inv'
    <3>1. Imaged'
      BY <2>2 DEF CreateImage, Imaged
    <3>2. /\ copied' = << >> /\ descriptor' = descriptor /\ width' # 0
          /\ Created' /\ Describe' = Describe
      BY <2>2 DEF CreateImage, surfaceVars, Created, Describe
    <3>3. QED
      BY <3>1, <3>2
  <2>3. CASE GetImage
    <3>1. copied' = CopiesOf /\ UNCHANGED <<surfaceVars, imageVars, descriptor>>
      BY <2>3 DEF GetImage, CopySurface, CopiesOf
    <3>2. CopiesOf' = CopiesOf
      BY <3>1 DEF surfaceVars, imageVars, CopiesOf, PlaneBytes
    <3>3. (Created' <=> Created) /\ (Imaged' <=> Imaged) /\ Describe' = Describe
      BY <3>1 DEF surfaceVars, imageVars, Created, Imaged, Describe
    <3>4. QED
      BY <2>3, <3>1, <3>2, <3>3 DEF GetImage, surfaceVars, imageVars
  <2>4. CASE ExportSurfaceHandle
    <3>1. UNCHANGED <<surfaceVars, imageVars, copied>> /\ descriptor' = Describe /\ width # 0
      BY <2>4 DEF ExportSurfaceHandle
    <3>2. /\ (Created' <=> Created) /\ (Imaged' <=> Imaged) /\ Describe' = Describe
          /\ CopiesOf' = CopiesOf
      BY <3>1 DEF surfaceVars, imageVars, Created, Imaged, Describe, CopiesOf, PlaneBytes
    <3>3. QED
      BY <3>1, <3>2 DEF surfaceVars, imageVars
  <2>5. CASE UNCHANGED vars
    <3>1. /\ (Created' <=> Created) /\ (Imaged' <=> Imaged) /\ Describe' = Describe
          /\ CopiesOf' = CopiesOf
      BY <2>5 DEF vars, surfaceVars, imageVars, Created, Imaged, Describe, CopiesOf, PlaneBytes
    <3>2. QED
      BY <2>5, <3>1 DEF vars, surfaceVars, imageVars
  <2>6. QED
    BY <2>1, <2>2, <2>3, <2>4, <2>5 DEF Next
<1>3. QED
  BY <1>1, <1>2, PTL DEF Spec

-----------------------------------------------------------------------------
(* What the run checks of small sizes, for all. *)

\* Copying an NV12 surface never reads past its buffer, however far the device
\* rounds its size up and however small the image is.
THEOREM NoReadBeyond == Spec => []ReadsInside
<1>1. Inv => ReadsInside
  <2> SUFFICES ASSUME Inv, format.pixelformat = "NV12", NEW i \in Copies
               PROVE  copied[i].from + copied[i].size <= format.sizeimage[copied[i].physical + 1]
    BY DEF ReadsInside
  <2>1. copied # << >>
    BY DEF Copies
  <2>2. Created /\ Imaged /\ copied = CopiesOf /\ imageWidth <= width /\ imageHeight <= height
    BY <2>1 DEF Inv
  <2>3. PICK W \in Nat, H \in Nat :
          /\ width \in Nat /\ height \in Nat /\ width <= W /\ height <= H
          /\ format.sizeimage = << W * H + (W * H) \div 2 >>
          /\ surfaceLayout = << Plane(0, W * H, W, 0), Plane(0, (W * H) \div 2, W, W * H) >>
    BY <2>2, SurfaceFacts
  <2>4. imageWidth \in Nat /\ imageHeight \in Nat /\ imageWidth <= W /\ imageHeight <= H
    BY <2>2, <2>3, ImageFacts
  <2>5. imageWidth * imageHeight \in Nat /\ W * H \in Nat /\ imageWidth * imageHeight <= W * H
    BY <2>4, Products
  <2>6. /\ (imageWidth * imageHeight) \div 2 \in Nat
        /\ (imageWidth * imageHeight) \div 2 <= (W * H) \div 2
    BY <2>5, Halves
  <2>7. /\ copied[1].from = 0 /\ copied[2].from = W * H
        /\ copied[1].physical = 0 /\ copied[2].physical = 0
    BY <2>2, <2>3, CopyFacts DEF Plane
  <2>8. format.sizeimage[1] = W * H + (W * H) \div 2
    BY <2>3
  <2>9. QED
    BY <2>2, <2>5, <2>6, <2>7, <2>8, CopyFacts
<1>2. QED
  BY <1>1, Invariance, PTL

\* The copies write every byte of the image once and none beyond.
THEOREM ImageWritten == Spec => []ImageFilled
<1>1. Inv => ImageFilled
  <2> SUFFICES ASSUME Inv, copied # << >>, NEW b \in 0 .. dataSize
               PROVE  LET writers == {i \in Copies : copied[i].to <= b /\ b < copied[i].to + copied[i].size}
                      IN IF b < dataSize THEN \E i \in writers : writers = {i} ELSE writers = {}
    BY DEF ImageFilled
  <2>1. Created /\ Imaged /\ copied = CopiesOf
    BY DEF Inv
  <2>2. DEFINE n == imageWidth * imageHeight
  <2>3. DEFINE m == (imageWidth * imageHeight) \div 2
  <2>4. n \in Nat /\ m \in Nat /\ dataSize = n + m /\ b \in Nat /\ b <= n + m
    BY <2>1, ImageFacts
  <2>5. /\ Copies = {1, 2}
        /\ copied[1].to = 0 /\ copied[1].size = n
        /\ copied[2].to = n /\ copied[2].size = m
    BY <2>1, CopyFacts
  <2> HIDE DEF n, m
  <2>6. DEFINE writers == {i \in Copies : copied[i].to <= b /\ b < copied[i].to + copied[i].size}
  <2>7. (1 \in writers <=> b < n) /\ (2 \in writers <=> n <= b /\ b < n + m) /\ writers \subseteq {1, 2}
    BY <2>4, <2>5
  <2>8. CASE b < n
    BY <2>4, <2>7, <2>8
  <2>9. CASE n <= b /\ b < n + m
    BY <2>4, <2>7, <2>9
  <2>10. CASE b = n + m
    BY <2>4, <2>7, <2>10
  <2>11. QED
    BY <2>4, <2>8, <2>9, <2>10
<1>2. QED
  BY <1>1, Invariance, PTL

\* The planes of an image of even size hold its samples.
THEOREM SamplesHeld == ASSUME EvenSizes PROVE Spec => []PlanesHoldSamples
<1>1. Inv => PlanesHoldSamples
  <2> SUFFICES ASSUME Inv, imageLayout # << >> PROVE
        /\ imageLayout[1].size >= imageWidth * imageHeight
        /\ imageLayout[2].size >= 2 * ((imageWidth + 1) \div 2) * ((imageHeight + 1) \div 2)
    BY DEF PlanesHoldSamples
  <2>1. Imaged
    BY DEF Inv
  <2>2. imageWidth \in Nat /\ imageHeight \in Nat /\ imageWidth % 2 = 0 /\ imageHeight % 2 = 0
    BY <2>1, SizeFacts DEF Imaged
  <2>3. PICK a \in Nat : imageWidth = 2 * a /\ (imageWidth + 1) \div 2 = a
    <3>1. imageWidth = 2 * (imageWidth \div 2) /\ imageWidth \div 2 \in Nat
      BY <2>2
    <3>2. (imageWidth + 1) \div 2 = imageWidth \div 2
      BY <2>2
    <3>3. QED
      BY <3>1, <3>2
  <2>4. PICK b \in Nat : imageHeight = 2 * b /\ (imageHeight + 1) \div 2 = b
    <3>1. imageHeight = 2 * (imageHeight \div 2) /\ imageHeight \div 2 \in Nat
      BY <2>2
    <3>2. (imageHeight + 1) \div 2 = imageHeight \div 2
      BY <2>2
    <3>3. QED
      BY <3>1, <3>2
  <2>5. imageWidth * imageHeight = 2 * (2 * a * b) /\ 2 * a * b \in Nat
    BY <2>3, <2>4
  <2>6. (imageWidth * imageHeight) \div 2 = 2 * a * b
    BY <2>5
  <2>7. QED
    BY <2>1, <2>3, <2>4, <2>5, <2>6, ImageFacts
<1>2. QED
  BY <1>1, Invariance, PTL

\* The device or the client keeps to whole blocks of two by two samples.
EvenOnly == EvenSizes \/ \A block \in Blocks : block % 2 = 0

\* So the sizes of a surface or those of its buffer are even.
LEMMA EvenFacts ==
  ASSUME Created, EvenOnly
  PROVE  /\ width % 2 = 0 \/ format.width % 2 = 0
         /\ height % 2 = 0 \/ format.height % 2 = 0
<1>1. PICK w \in Sizes, h \in Sizes, f \in Formats, block \in Blocks :
        width = w /\ height = h /\ format = SetFormat(f, w, h, block)
  BY DEF Created
<1>2. w \in Nat /\ h \in Nat /\ block \in Nat \ {0}
  BY SizeFacts, CopyAssumption
<1>3. format.width = RoundUp(w, block) /\ format.height = RoundUp(h, block)
  BY <1>1 DEF SetFormat
<1>4. CASE EvenSizes
  BY <1>1, <1>4, SizeFacts
<1>5. CASE block % 2 = 0
  BY <1>2, <1>3, <1>5, RoundedEven
<1> QED BY <1>4, <1>5 DEF EvenOnly

\* Both planes of an exported NV12 surface, and the first of an NV12M surface, are
\* where the device puts them, every row inside of its object.  With odd heights and
\* blocks the last chroma row is not; of the second plane of NV12M no row is, as
\* SecondPlaneBeyond says.
THEOREM RowsExported ==
  ASSUME EvenOnly
  PROVE  Spec => []ExportedRowsFound
<1>1. Inv => ExportedRowsFound
  <2> SUFFICES ASSUME Inv, descriptor # << >>,
                      NEW i \in PlanesInPlace, NEW y \in 0 .. Rows(i) - 1
               PROVE  /\ descriptor.planes[i].offset + y * descriptor.planes[i].pitch = DeviceRow(i, y)
                      /\ descriptor.planes[i].offset + y * descriptor.planes[i].pitch + RowBytes(i)
                           <= descriptor.objects[descriptor.planes[i].object]
    BY DEF ExportedRowsFound
  <2>1. Created /\ descriptor = Describe
    BY DEF Inv
  <2>2. PICK W \in Nat, H \in Nat :
           /\ width \in Nat /\ height \in Nat /\ width >= 1 /\ height >= 1
           /\ width <= W /\ height <= H
           /\ format.width = W /\ format.height = H
           /\ \/ /\ format.pixelformat = "NV12"
                 /\ format.sizeimage = << W * H + (W * H) \div 2 >>
                 /\ surfaceLayout = << Plane(0, W * H, W, 0), Plane(0, (W * H) \div 2, W, W * H) >>
              \/ /\ format.pixelformat = "NV12M"
                 /\ format.sizeimage = << W * H, (W * H) \div 2 >>
                 /\ surfaceLayout = << Plane(0, W * H, W, 0), Plane(1, (W * H) \div 2, W, W * H) >>
    BY <2>1, SurfaceFacts
  <2>3. W * H \in Nat /\ W * H = H * W
    BY <2>2
  <2>4. (W * H) \div 2 \in Nat
    BY <2>3, Halves
  <2>5. descriptor.planes = [k \in DOMAIN surfaceLayout |->
                  [object |-> surfaceLayout[k].physical + 1, pitch |-> surfaceLayout[k].pitch,
                   offset |-> surfaceLayout[k].offset]] /\ descriptor.objects = format.sizeimage
    BY <2>1 DEF Describe
  <2>6. DOMAIN surfaceLayout = {1, 2}
    BY <2>2
  <2>7. i \in {1, 2} /\ (i = 2 => format.pixelformat = "NV12")
    BY <2>2, <2>5, <2>6 DEF PlanesInPlace
  <2>8. CASE i = 1
    <3>1. /\ descriptor.planes[i].offset = 0 /\ descriptor.planes[i].pitch = W
          /\ descriptor.planes[i].object = 1
      BY <2>2, <2>5, <2>6, <2>8 DEF Plane
    <3>2. descriptor.objects[1] >= W * H
      BY <2>2, <2>3, <2>4, <2>5
    <3>3. y \in Nat /\ y + 1 <= H
      BY <2>2, <2>8 DEF Rows
    <3>4. (y + 1) * W <= H * W /\ (y + 1) * W = y * W + W /\ y * W \in Nat
      BY <2>2, <3>3, Products
    <3>5. DeviceRow(i, y) = y * W
      BY <2>2, <2>8, <3>4 DEF DeviceRow
    <3>6. descriptor.objects[1] \in Int
      BY <2>2, <2>3, <2>4, <2>5
    <3>7. width \in Nat /\ width <= W
      BY <2>2
    <3>8. y * W + width <= W * H
      <4>1. y * W + W <= W * H
        BY <2>3, <3>4
      <4>2. QED
        BY <2>2, <2>3, <3>4, <3>7, <4>1, RowEnds, Zenon
    <3>9. 0 + y * W = y * W
      BY <3>4
    <3>10. RowBytes(i) = width
      BY <2>8 DEF RowBytes
    <3>11. QED
      BY <2>3, <3>1, <3>2, <3>4, <3>5, <3>6, <3>7, <3>8, <3>9, <3>10
  <2>9. CASE i = 2
    <3>1. format.pixelformat = "NV12" /\ format.pixelformat # "NV12M"
      BY <2>7, <2>9
    <3>2. /\ descriptor.planes[i].offset = W * H /\ descriptor.planes[i].pitch = W
          /\ descriptor.planes[i].object = 1
      BY <2>2, <2>5, <2>6, <2>9, <3>1 DEF Plane
    <3>3. descriptor.objects[1] = W * H + (W * H) \div 2
      BY <2>2, <2>5, <3>1
    <3>e. (width % 2 = 0 \/ W % 2 = 0) /\ (height % 2 = 0 \/ H % 2 = 0)
      BY <2>1, <2>2, EvenFacts
    <3>4. (height + 1) \div 2 \in Nat /\ y \in Nat /\ y + 1 <= (height + 1) \div 2
      BY <2>2, <2>9 DEF Rows
    <3>5. /\ ((height + 1) \div 2) * W \in Nat
          /\ ((height + 1) \div 2) * W <= (W * H) \div 2
      BY <2>2, <3>e, HalfRows
    <3>6. (y + 1) * W <= ((height + 1) \div 2) * W /\ (y + 1) * W = y * W + W /\ y * W \in Nat
      BY <2>2, <3>4, Products
    <3>7. DeviceRow(i, y) = y * W + W * H
      BY <2>2, <2>9, <3>1 DEF DeviceRow
    <3>8. RowBytes(i) \in Nat /\ RowBytes(i) <= W
      BY <2>2, <2>9, <3>e, Pairs DEF RowBytes
    <3>9. W * H + y * W + RowBytes(i) <= W * H + (W * H) \div 2
      <4>1. y * W + W <= (W * H) \div 2
        BY <2>4, <3>5, <3>6
      <4>2. QED
        BY <2>2, <2>3, <2>4, <3>6, <3>8, <4>1, RowEnds, Zenon
    <3>10. W * H + y * W = y * W + W * H
      BY <2>3, <3>6
    <3>11. QED
      BY <3>2, <3>3, <3>7, <3>9, <3>10
  <2>10. QED
    BY <2>7, <2>8, <2>9
<1>2. QED
  BY <1>1, Invariance, PTL

\* Who imports an NV12M surface is sent to the end of the object of its second plane
\* or beyond, where none of its rows is: the offset of surface.cc:118 counts the
\* first plane, which is another object.
THEOREM SecondPlaneBeyond ==
  Spec => [](descriptor # << >> /\ format.pixelformat = "NV12M" =>
               descriptor.planes[2].offset >= descriptor.objects[descriptor.planes[2].object])
<1> DEFINE P == descriptor # << >> /\ format.pixelformat = "NV12M" =>
                  descriptor.planes[2].offset >= descriptor.objects[descriptor.planes[2].object]
<1>1. Inv => P
  <2> SUFFICES ASSUME Inv, descriptor # << >>, format.pixelformat = "NV12M"
               PROVE  descriptor.planes[2].offset >= descriptor.objects[descriptor.planes[2].object]
    OBVIOUS
  <2>1. Created /\ descriptor = Describe
    BY DEF Inv
  <2>2. PICK W \in Nat, H \in Nat :
          /\ format.sizeimage = << W * H, (W * H) \div 2 >>
          /\ surfaceLayout = << Plane(0, W * H, W, 0), Plane(1, (W * H) \div 2, W, W * H) >>
    BY <2>1, SurfaceFacts
  <2>3. W * H \in Nat /\ (W * H) \div 2 <= W * H
    <3>1. W * H \in Nat
      OBVIOUS
    <3>2. \A n \in Nat : n \div 2 <= n
      OBVIOUS
    <3> QED BY <3>1, <3>2
  <2>4. /\ descriptor.planes[2].offset = W * H /\ descriptor.planes[2].object = 2
        /\ descriptor.objects[2] = (W * H) \div 2
    BY <2>1, <2>2 DEF Describe, Plane
  <2> QED BY <2>3, <2>4
<1> QED
  BY <1>1, Invariance, PTL
=============================================================================

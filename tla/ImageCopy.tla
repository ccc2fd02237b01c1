------------------------------ MODULE ImageCopy ------------------------------
(***************************************************************************)
(* The layout of surfaces and images and the copy between them: the planes *)
(* of a surface (createSurfacesDeferred, surface.cc), of an image          *)
(* (createImage, image.cc; nv12_derive_layout, format.cc),                 *)
(* copy_surface_to_image (image.cc), and what exportSurfaceHandle tells of *)
(* a surface (surface.cc).                                                 *)
(*                                                                         *)
(* The device rounds the size of a surface up to whole blocks, once for    *)
(* every format it is asked for.  A byte of a destination buffer is known  *)
(* by its physical plane and its position.                                 *)
(***************************************************************************)
EXTENDS Integers, Sequences

CONSTANTS
  MaxSize,    \* bound: widths and heights of surfaces
  Blocks,     \* the sizes of the blocks a device may decode in
  EvenSizes,  \* the client asks for even widths and heights only
  Formats     \* the formats the device offers: "NV12", "NV12M"

ASSUME CopyAssumption ==
  /\ MaxSize \in Nat /\ Blocks \subseteq Nat \ {0} /\ EvenSizes \in BOOLEAN
  /\ Formats \subseteq {"NV12", "NV12M"}

VARIABLES
  width, height,       \* Surface::width and height
  format,              \* capture_format: pixel format, width, height and planes
  surfaceLayout,       \* Surface::logical_destination_layout
  imageWidth, imageHeight,
  imageLayout,         \* VAImage: the planes' offsets and pitches
  dataSize,            \* VAImage::data_size
  copied,              \* the copies made: position in the image, source and length
  descriptor           \* VADRMPRIMESurfaceDescriptor of the surface: objects and planes

surfaceVars == <<width, height, format, surfaceLayout>>
imageVars == <<imageWidth, imageHeight, imageLayout, dataSize>>
vars == <<surfaceVars, imageVars, copied, descriptor>>

RoundUp(n, block) == ((n + block - 1) \div block) * block
Plane(physical, size, pitch, offset) ==
  [physical |-> physical, size |-> size, pitch |-> pitch, offset |-> offset]

\* nv12_derive_layout
DeriveLayout(w, h) ==
  << Plane(0, w * h, w, 0), Plane(0, (w * h) \div 2, w, w * h) >>

\* VIDIOC_S_FMT: the size is rounded up, the size of every plane filled in.
SetFormat(f, w, h, block) ==
  LET W == RoundUp(w, block)
      H == RoundUp(h, block)
  IN [pixelformat |-> f, width |-> W, height |-> H,
      sizeimage   |-> IF f = "NV12" THEN << W * H + (W * H) \div 2 >>
                                    ELSE << W * H, (W * H) \div 2 >>]

\* The planes of an NV12M surface: each starts where the one before ended,
\* although it has a buffer of its own.
AppendPlanes(f) ==
  << Plane(0, f.sizeimage[1], f.width, 0), Plane(1, f.sizeimage[2], f.width, f.sizeimage[1]) >>

SurfaceLayout(f) ==
  IF f.pixelformat = "NV12" THEN DeriveLayout(f.width, f.height) ELSE AppendPlanes(f)

\* vaCreateSurfaces and vaCreateContext.
CreateSurface(w, h, f, block) ==
  /\ width = 0
  /\ width' = w /\ height' = h
  /\ format' = SetFormat(f, w, h, block)
  /\ surfaceLayout' = SurfaceLayout(format')
  /\ UNCHANGED <<imageVars, copied, descriptor>>

\* vaCreateImage of a size, or, with that of the surface, the first part of
\* vaDeriveImage.
CreateImage(w, h) ==
  /\ width # 0 /\ imageLayout = << >>
  /\ imageWidth' = w /\ imageHeight' = h
  /\ imageLayout' = DeriveLayout(w, h)
  /\ dataSize' = imageLayout'[1].size + imageLayout'[2].size
  /\ UNCHANGED <<surfaceVars, copied, descriptor>>

\* Variant: the size of a plane is that of the surface.
PlaneBytesOfSurface(i) == surfaceLayout[i].size

\* Variant: up to the end of the image, wherever the plane starts.
PlaneBytesToEnd(i) == dataSize

\* The bytes that are copied to plane i of the image: up to the next plane.
PlaneBytes(i) ==
  (IF i < Len(surfaceLayout) THEN imageLayout[i + 1].offset ELSE dataSize) - imageLayout[i].offset

\* copy_surface_to_image: each plane is one run of bytes.
CopySurface ==
  copied' = [i \in 1 .. Len(surfaceLayout) |->
               [to |-> imageLayout[i].offset, physical |-> surfaceLayout[i].physical,
                from |-> surfaceLayout[i].offset, size |-> PlaneBytes(i)]]

\* vaGetImage of all of the image, which the client made no larger than the
\* surface, or the second part of vaDeriveImage.  Other rectangles are refused.
GetImage ==
  /\ imageLayout # << >> /\ copied = << >>
  /\ imageWidth <= width /\ imageHeight <= height
  /\ CopySurface
  /\ UNCHANGED <<surfaceVars, imageVars, descriptor>>

\* Variant: the planes of the size the client asked for.
DescribeSurfaceSize ==
  [objects |-> format.sizeimage,
   planes  |-> [i \in DOMAIN surfaceLayout |->
                  [object |-> surfaceLayout[i].physical + 1, pitch |-> surfaceLayout[i].pitch,
                   offset |-> DeriveLayout(width, height)[i].offset]]]

\* The objects are the planes of the buffer, as they are mapped.
Describe ==
  [objects |-> format.sizeimage,
   planes  |-> [i \in DOMAIN surfaceLayout |->
                  [object |-> surfaceLayout[i].physical + 1, pitch |-> surfaceLayout[i].pitch,
                   offset |-> surfaceLayout[i].offset]]]

\* exportSurfaceHandle, when every plane of the buffer can be exported.
ExportSurfaceHandle ==
  /\ width # 0 /\ descriptor = << >>
  /\ descriptor' = Describe
  /\ UNCHANGED <<surfaceVars, imageVars, copied>>

Sizes == {n \in 1 .. MaxSize : EvenSizes => n % 2 = 0}

Init ==
  /\ width = 0 /\ height = 0
  /\ format = [pixelformat |-> "none", width |-> 0, height |-> 0, sizeimage |-> << >>]
  /\ surfaceLayout = << >>
  /\ imageWidth = 0 /\ imageHeight = 0 /\ imageLayout = << >> /\ dataSize = 0
  /\ copied = << >> /\ descriptor = << >>

Next ==
  \/ \E w, h \in Sizes, f \in Formats, block \in Blocks : CreateSurface(w, h, f, block)
  \/ \E w, h \in Sizes : CreateImage(w, h)
  \/ GetImage
  \/ ExportSurfaceHandle

Spec == Init /\ [][Next]_vars

-----------------------------------------------------------------------------
(* Properties. *)

Copies == 1 .. Len(copied)

\* No copy of an NV12 surface reads past the end of the buffer it reads from,
\* whatever the device rounds the size up to and however small the image is.
ReadsInside ==
  format.pixelformat = "NV12" =>
    \A i \in Copies :
      copied[i].from + copied[i].size <= format.sizeimage[copied[i].physical + 1]

\* The copies fill the image: every byte of it is written once, none beyond.
ImageFilled ==
  copied # << >> =>
    \A b \in 0 .. dataSize :
      LET writers == {i \in Copies : copied[i].to <= b /\ b < copied[i].to + copied[i].size}
      IN IF b < dataSize THEN \E i \in writers : writers = {i} ELSE writers = {}

\* The planes of the image have a byte for every luma sample and two for every
\* chroma sample, of which there is one for a block of two by two samples.
PlanesHoldSamples ==
  imageLayout # << >> =>
    /\ imageLayout[1].size >= imageWidth * imageHeight
    /\ imageLayout[2].size >= 2 * ((imageWidth + 1) \div 2) * ((imageHeight + 1) \div 2)

\* Where a device puts row y of plane i, in the buffer of that plane.
DeviceRow(i, y) ==
  y * format.width + IF format.pixelformat = "NV12" /\ i = 2 THEN format.width * format.height ELSE 0

\* The rows of a plane of the surface and the bytes of each: two for every chroma
\* sample, of which there is one for a block of two by two samples.
Rows(i) == IF i = 1 THEN height ELSE (height + 1) \div 2
RowBytes(i) == IF i = 1 THEN width ELSE 2 * ((width + 1) \div 2)

\* The planes that are exported where they are.  The second one of NV12M is not: it
\* is said to start behind the first (surface.cc:118), and is in an object of its own.
PlanesInPlace ==
  {i \in DOMAIN descriptor.planes : format.pixelformat = "NV12M" => i = 1}

\* Who imports the surface finds the rows of both planes of NV12, and of the first
\* of NV12M, where the device puts them, however much larger than the surface it
\* decodes, and all of a row in its object.
ExportedRowsFound ==
  descriptor # << >> =>
    \A i \in PlanesInPlace :
      LET plane == descriptor.planes[i]
      IN \A y \in 0 .. Rows(i) - 1 :
           /\ plane.offset + y * plane.pitch = DeviceRow(i, y)
           /\ plane.offset + y * plane.pitch + RowBytes(i) <= descriptor.objects[plane.object]

\* image.cc:65, "Image planes may be smaller than buffer due to decoding blocks":
\* the image holds the samples of the surface then, row by row.
RowsMatch ==
  copied # << >> /\ imageWidth = width /\ imageHeight = height =>
    \A x \in 0 .. imageWidth - 1, y \in 0 .. imageHeight - 1 :
      copied[1].from + y * imageLayout[1].pitch + x = y * surfaceLayout[1].pitch + x
=============================================================================

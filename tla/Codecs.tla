-------------------------------- MODULE Codecs --------------------------------
(***************************************************************************)
(* What the device knows when it decodes a picture: the set_controls of the*)
(* codecs, the requests that carry the controls, and what is left of a     *)
(* picture that failed (picture.cc, v4l2.cc, media.cc).  H264 is in        *)
(* H264Controls; for the others this module adds the surfaces' requests.   *)
(*                                                                         *)
(* A submission is renderPicture and endPicture of one picture on one      *)
(* surface, with the outcome of every call.  Which calls the client and the*)
(* surface's status allow is left to module Picture.                       *)
(***************************************************************************)
EXTENDS H264Controls, Mpeg2Controls, Vp8Controls, Vp9Controls

CONSTANTS
  Mpeg2Pictures, Vp8Pictures, Vp9Pictures,  \* what the client may submit, see there
  MaxPictures                               \* bound: submissions in a behaviour

ASSUME CodecsAssumption ==
  /\ \A p \in Mpeg2Pictures :
       p.n \in Nat /\ p.f_code \in 0 .. 2^16 - 1 /\ p.bits \subseteq DOMAIN Mpeg2Flag
  /\ \A p \in Vp8Pictures :
       /\ p.n \in Nat /\ p.key \in BOOLEAN /\ p.size \in Nat /\ p.version \in 0 .. 7
       /\ {p.width, p.height} \subseteq 1 .. 2^14 - 1
       /\ p.partitions \in Seq(Nat) /\ Len(p.partitions) \in 2 .. 9
       /\ FirstPartSize(p) \in 0 .. 2^19 - 1
  /\ \A p \in Vp9Pictures : p.n \in Nat /\ p.width \in 1 .. 2^16 /\ p.reset \in 0 .. 3
  /\ MaxPictures \in Nat

VARIABLES
  codec,      \* of the context
  source,     \* the pictures whose data is in the source buffer of a surface
  iqmatrix,   \* surface.params.mpeg2.iqmatrix: the picture it came with
  request,    \* the controls that are set in the request of a surface
  device,     \* the controls of the device
  last,       \* the picture decoded last, whether its surface was clean before, and
              \* the controls of the device before it
  failed,     \* surfaces whose last picture failed
  deltas,     \* the deltas of the loop filter, by all headers of the stream so far
  pictures    \* number of submissions

controlVars == <<source, iqmatrix, request, device, last, failed, deltas, pictures>>
vars == <<h264Vars, codec, controlVars>>

None == [load |-> NoMatrix]
Nothing == << >>

\* Variant: what was set first stays.
MergeKeepsFirst(set, controls) ==
  [c \in DOMAIN controls \cup DOMAIN set |-> IF c \in DOMAIN set THEN set[c] ELSE controls[c]]

\* set_ext_controls on a request: a control that is set again is replaced.
Merge(set, controls) ==
  [c \in DOMAIN controls \cup DOMAIN set |-> IF c \in DOMAIN controls THEN controls[c] ELSE set[c]]

Pictures == CASE codec = "mpeg2" -> Mpeg2Pictures
              [] codec = "vp8"   -> Vp8Pictures
              [] codec = "vp9"   -> Vp9Pictures
              [] codec = "h264"  -> {}

\* The parameters of surface s: a picture without matrices keeps those it finds.
Matrix(s, p) == IF codec = "mpeg2" /\ p.load # NoMatrix THEN p ELSE iqmatrix[s]

\* The header is read at the start of the source buffer.
Header(s, p) == Head(Append(source[s], p))

\* set_controls: what each call sets.
Steps(s, p) == CASE codec = "mpeg2" -> Mpeg2Steps(p, Matrix(s, p))
                 [] codec = "vp8"   -> Vp8Steps(p)
                 [] codec = "vp9"   -> Vp9Steps(p, Header(s, p))

\* The request after the first k calls.
SetUpTo(s, p, k) ==
  LET set[n \in 0 .. Len(Steps(s, p))] ==
        IF n = 0 THEN request[s] ELSE Merge(set[n - 1], Steps(s, p)[n])
  IN set[k]
SetAll(s, p) == SetUpTo(s, p, Len(Steps(s, p)))

\* Variant: the picture's data stays in the source buffer.
ClearKeepsSource(s) ==
  /\ request' = [request EXCEPT ![s] = Nothing]
  /\ iqmatrix' = [iqmatrix EXCEPT ![s] = None]
  /\ UNCHANGED source

\* The end of endPicture, after media_request_reinit.
Clear(s) ==
  /\ request' = [request EXCEPT ![s] = Nothing]
  /\ iqmatrix' = [iqmatrix EXCEPT ![s] = None]
  /\ source' = [source EXCEPT ![s] = << >>]

\* The early returns of endPicture leave the data and the parameters.
Leave(s, p, controls) ==
  /\ request' = [request EXCEPT ![s] = controls]
  /\ iqmatrix' = [iqmatrix EXCEPT ![s] = Matrix(s, p)]
  /\ source' = [source EXCEPT ![s] = Append(@, p)]
  /\ failed' = failed \cup {s}

\* The device decodes the picture, with the controls of the request and its own.
DeviceDecodes(s, p) ==
  /\ device' = Merge(device, SetAll(s, p))
  /\ last' = [picture |-> p, clean |-> s \notin failed, before |-> device, deltas |-> deltas']

DeviceIdle == UNCHANGED <<device, last>>

EndPicture(s, p) == Clear(s) /\ DeviceDecodes(s, p) /\ failed' = failed \ {s}

\* The k-th call fails, or, of VP9, the header is not understood.
ControlsFail(s, p, k) == Leave(s, p, SetUpTo(s, p, k - 1)) /\ DeviceIdle

\* VIDIOC_QBUF fails.
QueueBufferFails(s, p) == Leave(s, p, SetAll(s, p)) /\ DeviceIdle

\* The request is closed: it could not be queued, ...
QueueRequestFails(s, p) == Leave(s, p, Nothing) /\ DeviceIdle

\* ... or it was not seen to complete; the device decodes it all the same.
WaitFails(s, p) == Leave(s, p, Nothing) /\ DeviceDecodes(s, p)

Submission(s, p) ==
  /\ pictures < MaxPictures
  /\ codec = "vp9" /\ pictures = 0 => ~p.past   \* a stream starts with a key frame
  /\ pictures' = pictures + 1
  /\ deltas' = IF codec = "vp9" THEN Parse(deltas, p) ELSE deltas
  /\ \/ EndPicture(s, p)
     \/ \E k \in DOMAIN Steps(s, p) : ControlsFail(s, p, k)
     \/ QueueBufferFails(s, p)
     \/ QueueRequestFails(s, p)
     \/ WaitFails(s, p)

\* The surfaces whose requests are followed here.
Targets == IF codec = "h264" THEN {} ELSE Surfaces

Init ==
  /\ H264Init
  /\ codec \in {"h264", "mpeg2", "vp8", "vp9"}
  /\ codec # "h264" => zeroed /\ ~gaps /\ mode = "frame"   \* no H264Context is there
  /\ source = [s \in Targets |-> << >>]
  /\ iqmatrix = [s \in Targets |-> None]
  /\ request = [s \in Targets |-> Nothing]
  /\ device = Nothing
  /\ last = [picture |-> None, clean |-> TRUE, before |-> Nothing, deltas |-> DefaultDeltas]
  /\ failed = {}
  /\ deltas = DefaultDeltas
  /\ pictures = 0

Next ==
  \/ codec = "h264" /\ H264Next /\ UNCHANGED <<codec, controlVars>>
  \/ /\ UNCHANGED <<codec, h264Vars>>
     /\ \E s \in Targets, p \in Pictures : Submission(s, p)

Spec == Init /\ [][Next]_vars

-----------------------------------------------------------------------------
(* Properties. *)

Decoded == last.picture # None

\* The controls have the structure the kernel gives them: no value is outside
\* the codes that it defines.
TypeOK ==
  /\ H264TypeOK
  /\ \A c \in DOMAIN device :
       device[c] \in CASE codec = "mpeg2" /\ c = "sequence"     -> Mpeg2Sequence
                      [] codec = "mpeg2" /\ c = "picture"      -> Mpeg2Picture
                      [] codec = "mpeg2" /\ c = "quantisation" -> Mpeg2Quantisation
                      [] codec = "vp8"   /\ c = "frame"        -> Vp8Frame
                      [] codec = "vp9"   /\ c = "frame"        -> Vp9Frame
                      [] codec = "vp9"   /\ c = "compressed"   -> [n : Nat, copied : {Vp9Tables}]

\* The device never decodes a picture with what an earlier one said of itself:
\* neither that of the device's last picture nor that of a picture which failed
\* on the same surface and left its controls in the request.
ControlsOwn ==
  Decoded => \A c \in DOMAIN device \ {"quantisation", "compressed"} : device[c].n = last.picture.n

\* The matrices a picture loads are those it is decoded with; a picture without
\* a matrix buffer is decoded with those of the picture the device decoded
\* before, whatever else failed in between.
MatricesReach ==
  LET held(controls) == IF "quantisation" \in DOMAIN controls THEN {controls.quantisation} ELSE {}
      load == last.picture.load
  IN codec = "mpeg2" /\ Decoded /\ last.clean =>
       IF load = NoMatrix THEN held(device) = held(last.before)
       ELSE \A m \in Matrices : (m \in load) <=> (device.quantisation[m] = Own(last.picture, m))

\* A device that parses the chunk in front of a VP8 picture and one that takes
\* the control decode the same picture: key frame, version, size and the length
\* of the first partition; with one other partition, the two are all its data.
Vp8PrefixAgrees ==
  LET p == last.picture
      chunk == Parsed(Prefix(p))
  IN codec = "vp8" /\ Decoded =>
       /\ chunk.key <=> KeyFrame \in device.frame.flags
       /\ chunk.show <=> ShowFrame \in device.frame.flags
       /\ chunk.version = device.frame.version
       /\ chunk.first_part_size = device.frame.first_part_size
       /\ chunk.key => ParsedSize(Prefix(p)) =
            [start |-> << 157, 1, 42 >>,
             width |-> device.frame.width, horizontal_scale |-> device.frame.horizontal_scale,
             height |-> device.frame.height, vertical_scale |-> device.frame.vertical_scale]
       /\ device.frame.num_dct_parts = 1 =>
            device.frame.first_part_size + device.frame.dct_part_sizes[1] = p.size

\* From the flags, codes and bytes that are packed for the device, the picture's
\* own elements can be read back, none of them lost or exchanged.
ElementsReadBack ==
  /\ codec = "h264" =>
       slice.bits = {b \in DOMAIN SpsFlag : SpsFlag[b] \in h264.sps}
                    \cup {b \in DOMAIN PpsFlag : PpsFlag[b] \in h264.pps.flags}
  /\ codec = "mpeg2" /\ Decoded =>
       LET f == device.picture.f_code
       IN /\ last.picture.bits = {b \in DOMAIN Mpeg2Flag : Mpeg2Flag[b] \in device.picture.flags}
          /\ last.picture.f_code = 2^12 * f[0][0] + 2^8 * f[0][1] + 2^4 * f[1][0] + f[1][1]
  /\ codec = "vp9" /\ Decoded =>
       /\ device.frame.frame_width_minus_1 + 1 = last.picture.width
       /\ device.frame.reset_frame_context = ResetCode[ResetMeaning[last.picture.reset + 1]]
  /\ Vp8PrefixAgrees

\* Where no picture failed before, the header that is parsed is the picture's and
\* not that of an earlier one, and the deltas it carries or resets reach the device.
Vp9HeadersOwn ==
  LET p == last.picture
  IN codec = "vp9" /\ Decoded /\ last.clean =>
       /\ device.frame.header = p.n /\ device.compressed.n = p.n
       /\ \A g \in Groups : g \in p.update \/ ~p.past => device.frame.lf[g] = last.deltas[g]

\* v4l2-controls.h:2492, "If this syntax element is not present in the bitstream,
\* users should pass its last value.": the deltas the device gets are those of
\* the last header that had them.
Vp9DeltasLast ==
  codec = "vp9" /\ Decoded /\ last.clean => device.frame.lf = last.deltas
=============================================================================

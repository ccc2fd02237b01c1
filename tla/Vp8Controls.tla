----------------------------- MODULE Vp8Controls -----------------------------
(***************************************************************************)
(* The control of a VP8 picture and the chunk of uncompressed data that is *)
(* put back in front of its slice (vp8.cc; v4l2-controls.h).               *)
(*                                                                         *)
(* A picture is a record: its number n, for what is copied; key, version,  *)
(* width and height of its header; the size of its slice data and of its   *)
(* partitions, of which the first is the control partition.                *)
(***************************************************************************)
EXTENDS Integers, Sequences

ShowFrame == "SHOW_FRAME"
KeyFrame == "KEY_FRAME"

\* struct v4l2_ctrl_vp8_frame; what is copied is n.
Vp8Frame ==
  [n : Nat, width : 0 .. 2^16 - 1, height : 0 .. 2^16 - 1, version : 0 .. 2^8 - 1,
   horizontal_scale : 0 .. 3, vertical_scale : 0 .. 3, num_dct_parts : 0 .. 2^8 - 1,
   first_part_size : Nat, dct_part_sizes : [1 .. 8 -> Nat], flags : SUBSET {KeyFrame, ShowFrame}]

DctParts(p) == Tail(p.partitions)

\* The size of the control partition: what the first of the others leaves.
FirstPartSize(p) == p.size - DctParts(p)[1]

\* va_to_v4l2_frame
Frame(p) ==
  [n |-> p.n, width |-> p.width, height |-> p.height, version |-> p.version,
   horizontal_scale |-> 0, vertical_scale |-> 0,
   num_dct_parts |-> Len(p.partitions) - 1, first_part_size |-> FirstPartSize(p),
   dct_part_sizes |-> [i \in 1 .. 8 |-> IF i <= Len(DctParts(p)) THEN DctParts(p)[i] ELSE 0],
   flags |-> {ShowFrame} \cup (IF p.key THEN {KeyFrame} ELSE {})]

Byte(value) == value % 2^8

\* Variant: the last bits of the size are those above the second byte.
PrefixMiscounts(p) ==
  LET size == FirstPartSize(p)
      tag  == << Byte((IF p.key THEN 0 ELSE 1) + 2 * (p.version % 8) + 16 + 32 * (size % 8)),
                 Byte(size \div 2^3), Byte(size \div 2^8) >>
  IN tag \o IF p.key THEN << 157, 1, 42, Byte(p.width), Byte(p.width \div 2^8),
                             Byte(p.height), Byte(p.height \div 2^8) >> ELSE << >>

\* prefix_data: frame tag, and start code and size of a key frame.
Prefix(p) ==
  LET size == FirstPartSize(p)
      tag  == << Byte((IF p.key THEN 0 ELSE 1) + 2 * (p.version % 8) + 16 + 32 * (size % 8)),
                 Byte(size \div 2^3), Byte(size \div 2^11) >>
  IN tag \o IF p.key THEN << 157, 1, 42, Byte(p.width), Byte(p.width \div 2^8),
                             Byte(p.height), Byte(p.height \div 2^8) >> ELSE << >>

\* A device that parses the chunk itself, as the bitstream guide has it.
Tag(bytes) == bytes[1] + 2^8 * bytes[2] + 2^16 * bytes[3]
Parsed(bytes) ==
  [key |-> Tag(bytes) % 2 = 0, version |-> (Tag(bytes) \div 2) % 8,
   show |-> (Tag(bytes) \div 16) % 2 = 1, first_part_size |-> Tag(bytes) \div 32]
Word(bytes, i) == bytes[i] + 2^8 * bytes[i + 1]
ParsedSize(bytes) ==
  [start |-> << bytes[4], bytes[5], bytes[6] >>,
   width |-> Word(bytes, 7) % 2^14, horizontal_scale |-> Word(bytes, 7) \div 2^14,
   height |-> Word(bytes, 9) % 2^14, vertical_scale |-> Word(bytes, 9) \div 2^14]

Vp8Steps(p) == << [frame |-> Frame(p)] >>
=============================================================================

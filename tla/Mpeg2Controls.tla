---------------------------- MODULE Mpeg2Controls ----------------------------
(***************************************************************************)
(* The controls of an MPEG-2 picture: MPEG2Context::set_controls (mpeg2.cc)*)
(* and the structures it fills (v4l2-controls.h).                          *)
(*                                                                         *)
(* A picture is a record: its number n, which stands for every syntax      *)
(* element that is copied; its f_code; the bits of its coding extension    *)
(* that are set; and the matrices its VAIQMatrixBuffer loads, NoMatrix when*)
(* the client gave no such buffer.                                         *)
(***************************************************************************)
EXTENDS Integers, Sequences

Matrices == {"intra", "non_intra", "chroma_intra", "chroma_non_intra"}
NoMatrix == {"no buffer"}

\* The flag of struct v4l2_ctrl_mpeg2_picture for every bit of the extension.
Mpeg2Flag ==
  [top_field_first |-> "TOP_FIELD_FIRST",  frame_pred_frame_dct |-> "FRAME_PRED_DCT",
   concealment_motion_vectors |-> "CONCEALMENT_MV", q_scale_type |-> "Q_SCALE_TYPE",
   intra_vlc_format |-> "INTRA_VLC", alternate_scan |-> "ALT_SCAN",
   repeat_first_field |-> "REPEAT_FIRST", progressive_frame |-> "PROGRESSIVE"]

\* The structures: one value of n stands for the elements that are copied.
Mpeg2Sequence == [n : Nat, chroma_format : 1 .. 3]
Mpeg2Picture ==
  [n : Nat, f_code : [{0, 1} -> [{0, 1} -> 0 .. 15]],
   flags : SUBSET {Mpeg2Flag[b] : b \in DOMAIN Mpeg2Flag}]
MatrixValue == [kind : {"own"}, n : Nat, matrix : Matrices] \cup [kind : {"default intra", "default non intra"}]
Mpeg2Quantisation == [Matrices -> MatrixValue]

Nibble(code, shift) == (code \div 2^shift) % 16

\* f_code[i][j] of the word that holds four nibbles, the first one on top.
FCode(code) == [i \in {0, 1} |-> [j \in {0, 1} |-> Nibble(code, 8 * (1 - i) + 4 * (1 - j))]]

Own(p, m) == [kind |-> "own", n |-> p.n, matrix |-> m]

\* What a matrix is set to when it is not loaded.
DefaultValue(m) ==
  IF m \in {"intra", "non_intra"} THEN [kind |-> "default non intra"] ELSE [kind |-> "default intra"]

\* Variant: the load flags of luma decide for chroma, too.
QuantisationByLuma(p) ==
  LET luma == [intra |-> "intra", non_intra |-> "non_intra",
               chroma_intra |-> "intra", chroma_non_intra |-> "non_intra"]
  IN [m \in Matrices |-> IF luma[m] \in p.load THEN Own(p, m) ELSE DefaultValue(m)]

Quantisation(p) == [m \in Matrices |-> IF m \in p.load THEN Own(p, m) ELSE DefaultValue(m)]

\* The controls, each set by a call of its own, in this order; the matrices are
\* those of the picture iq.
Mpeg2Steps(p, iq) ==
  << [sequence |-> [n |-> p.n, chroma_format |-> 1]],
     [picture |-> [n |-> p.n, f_code |-> FCode(p.f_code), flags |-> {Mpeg2Flag[b] : b \in p.bits}]] >>
  \o IF iq.load = NoMatrix THEN << >> ELSE << [quantisation |-> Quantisation(iq)] >>
=============================================================================

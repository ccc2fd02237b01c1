----------------------------- MODULE Vp9Controls -----------------------------
(***************************************************************************)
(* The controls of a VP9 picture (vp9.cc; v4l2-controls.h): some values are*)
(* what the client gives with vaRenderPicture, others come from the header *)
(* of the bitstream, which a parser of GStreamer reads.  The parser keeps  *)
(* the deltas of the loop filter from one header to the next; the driver   *)
(* makes a new parser for every picture.                                   *)
(*                                                                         *)
(* A picture is a record: its number n, for what is copied; width; reset,  *)
(* its reset_frame_context; past, FALSE when its header resets what earlier    *)
(* ones have set (intra only and error resilient pictures); and update,    *)
(* the groups of deltas that the header carries.                           *)
(***************************************************************************)
EXTENDS Integers, Sequences

Groups == {"ref_deltas", "mode_deltas"}

\* A delta is the number of the picture that set it, Default, or Zero.
Default == -1
Zero == -2
Deltas == [Groups -> Nat \cup {Default, Zero}]

\* setup_past_independence, and the memory of a new parser.
DefaultDeltas == [g \in Groups |-> Default]
NewParser == [g \in Groups |-> Zero]

\* The deltas after a header, by those before it.
Parse(before, p) ==
  [g \in Groups |-> IF g \in p.update THEN p.n ELSE IF p.past THEN before[g] ELSE Default]

\* What reset_frame_context means in the bitstream, and the codes of the kernel.
ResetMeaning == << "none", "none", "spec", "all" >>
ResetCode == [none |-> 0, spec |-> 1, all |-> 2]

\* Variant: every code is one less, the first one wraps around.
ResetRecodedAll(reset) == (reset + 2^8 - 1) % 2^8

ResetRecoded(reset) == IF reset > 0 THEN reset - 1 ELSE 0

\* struct v4l2_ctrl_vp9_frame; what is copied is n, what the parser read header.
Vp9Frame ==
  [n : Nat, header : Nat, lf : Deltas, frame_width_minus_1 : 0 .. 2^16 - 1,
   reset_frame_context : 0 .. 2]

\* va_to_v4l2_frame, with the header h.
FrameWith(p, h) ==
  [n |-> p.n, header |-> h.n, lf |-> Parse(NewParser, h),
   frame_width_minus_1 |-> (p.width - 1) % 2^16,
   reset_frame_context |-> ResetRecoded(p.reset)]

\* The tables of struct v4l2_ctrl_vp9_compressed_hdr that a header can update, ...
Vp9Tables ==
  [tx8 |-> 2 * 1, tx16 |-> 2 * 2, tx32 |-> 2 * 3, coef |-> 4 * 2 * 2 * 6 * 6 * 3, skip |-> 3,
   inter_mode |-> 7 * 3, interp_filter |-> 4 * 2, is_inter |-> 4, comp_mode |-> 5,
   single_ref |-> 5 * 2, comp_ref |-> 5, y_mode |-> 4 * 9, partition |-> 16 * 3,
   mv |-> 3 + 2 + 2 * 10 + 2 + 2 * 10 + 2 * 2 * 3 + 2 * 3 + 2 + 2]

\* ... in bytes, and what is copied to them, by the constants of the parser.
TX_SIZES == 4
INTER_MODES == 4
SWITCHABLE_FILTERS == 3
INTRA_MODES == 10
PARTITION_TYPES == 4
CompressedHeader ==
  [tx8 |-> 2 * (TX_SIZES - 3), tx16 |-> 2 * (TX_SIZES - 2), tx32 |-> 2 * (TX_SIZES - 1),
   coef |-> 4 * 2 * 2 * 6 * 6 * 3, skip |-> 3, inter_mode |-> 7 * (INTER_MODES - 1),
   interp_filter |-> 4 * (SWITCHABLE_FILTERS - 1), is_inter |-> 4, comp_mode |-> 5,
   single_ref |-> 5 * 2, comp_ref |-> 5, y_mode |-> 4 * (INTRA_MODES - 1),
   partition |-> 16 * (PARTITION_TYPES - 1), mv |-> Vp9Tables.mv]

\* Both controls are set by one call.
Vp9Steps(p, h) == << [frame |-> FrameWith(p, h), compressed |-> [n |-> h.n, copied |-> CompressedHeader]] >>
=============================================================================

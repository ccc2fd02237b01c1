------------------------------- MODULE MCCodecs -------------------------------
(* Codecs with few pictures, which differ in what their controls depend on.  *)
EXTENDS Codecs, TLC

CONSTANTS s1, s2, s3, s4, s5

MCSurfaces == {s1, s2, s3, s4, s5}
Symmetry == Permutations(MCSurfaces)

\* Slices that are weighted in either way.
MCSlices ==
  {[type |-> 0, bipred |-> 0, bits |-> {"weighted_pred_flag", "frame_mbs_only_flag"}],
   [type |-> 1, bipred |-> 1, bits |-> {"entropy_coding_mode_flag", "pic_order_present_flag"}]}

MCMpeg2Pictures ==
  {[n |-> 1, f_code |-> 4660,  bits |-> {"top_field_first", "alternate_scan"}, load |-> {"intra"}],
   [n |-> 2, f_code |-> 65520, bits |-> {"progressive_frame"}, load |-> {"non_intra", "chroma_intra"}],
   [n |-> 3, f_code |-> 17,    bits |-> {"q_scale_type"}, load |-> NoMatrix]}

MCVp8Pictures ==
  {[n |-> 1, key |-> TRUE,  version |-> 0, width |-> 1920, height |-> 1088, size |-> 70000,
    partitions |-> << 9999, 60001 >>],
   [n |-> 2, key |-> FALSE, version |-> 3, width |-> 16383, height |-> 1, size |-> 20,
    partitions |-> << 13, 7 >>],
   [n |-> 3, key |-> TRUE, version |-> 7, width |-> 16383, height |-> 16383, size |-> 1013,
    partitions |-> << 1000, 5, 8 >>],
   [n |-> 4, key |-> TRUE,  version |-> 1, width |-> 255, height |-> 256, size |-> 524287,
    partitions |-> << 524287, 0 >>]}

MCVp9Pictures ==
  {[n |-> 1, width |-> 65536, reset |-> 3, past |-> FALSE, update |-> {"mode_deltas"}],
   [n |-> 2, width |-> 1,     reset |-> 2, past |-> TRUE,  update |-> {"ref_deltas"}],
   [n |-> 3, width |-> 1920,  reset |-> 1, past |-> TRUE,  update |-> {}],
   [n |-> 4, width |-> 16,    reset |-> 0, past |-> TRUE,  update |-> {"ref_deltas", "mode_deltas"}]}
=============================================================================

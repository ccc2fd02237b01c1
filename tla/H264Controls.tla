----------------------------- MODULE H264Controls -----------------------------
(***************************************************************************)
(* The controls of an H264 picture (h264.cc): the reference lists and the  *)
(* prediction weights of its slice, the scaling lists, and what a device   *)
(* makes of them (v4l2-controls.h).  Lists and weights are known by the    *)
(* picture they belong to, syntax elements that are copied are left out.   *)
(***************************************************************************)
EXTENDS H264Dpb

CONSTANT
  Slices   \* what a slice and its picture may say: slice_type, weighted_bipred_idc,
           \* and the bits that are set in the parameter sets

VARIABLES
  mode,    \* H264Context::mode, what the device decodes at a time: "slice" or "frame"
  slice,   \* the slice of the last picture whose controls were set
  h264     \* the controls the device holds

h264Vars == <<dpbVars, mode, slice, h264>>

P == 0
B == 1
SP == 3

\* The flags of struct v4l2_ctrl_h264_sps and v4l2_ctrl_h264_pps, by the bits of
\* VAPictureParameterBufferH264.
SpsFlag ==
  [residual_colour_transform_flag |-> "SEPARATE_COLOUR_PLANE",
   gaps_in_frame_num_value_allowed_flag |-> "GAPS_IN_FRAME_NUM_VALUE_ALLOWED",
   frame_mbs_only_flag |-> "FRAME_MBS_ONLY",
   mb_adaptive_frame_field_flag |-> "MB_ADAPTIVE_FRAME_FIELD",
   direct_8x8_inference_flag |-> "DIRECT_8X8_INFERENCE",
   delta_pic_order_always_zero_flag |-> "DELTA_PIC_ORDER_ALWAYS_ZERO"]
PpsFlag ==
  [entropy_coding_mode_flag |-> "ENTROPY_CODING_MODE", weighted_pred_flag |-> "WEIGHTED_PRED",
   transform_8x8_mode_flag |-> "TRANSFORM_8X8_MODE",
   constrained_intra_pred_flag |-> "CONSTRAINED_INTRA_PRED",
   pic_order_present_flag |-> "BOTTOM_FIELD_PIC_ORDER_IN_FRAME_PRESENT",
   deblocking_filter_control_present_flag |-> "DEBLOCKING_FILTER_CONTROL_PRESENT",
   redundant_pic_cnt_present_flag |-> "REDUNDANT_PIC_CNT_PRESENT"]

ASSUME SlicesAssumption ==
  Slices \subseteq [type : 0 .. 9, bipred : 0 .. 2, bits : SUBSET (DOMAIN SpsFlag \cup DOMAIN PpsFlag)]

\* The structures of the kernel.
H264Sps == SUBSET ({SpsFlag[b] : b \in DOMAIN SpsFlag} \cup {"QPPRIME_Y_ZERO_TRANSFORM_BYPASS"})
H264Pps ==
  [weighted_bipred_idc : 0 .. 2,
   flags : SUBSET ({PpsFlag[b] : b \in DOMAIN PpsFlag} \cup {"SCALING_MATRIX_PRESENT"})]
H264SliceParams == [lists : SUBSET {0, 1}, found : UNION {[D -> Pics] : D \in SUBSET Surfaces}]
H264PredWeights == [own : BOOLEAN, lists : SUBSET {0, 1}]

Sps(sl) == {SpsFlag[b] : b \in sl.bits \cap DOMAIN SpsFlag}
Pps(sl) ==
  [weighted_bipred_idc |-> sl.bipred, flags |-> {PpsFlag[b] : b \in sl.bits \cap DOMAIN PpsFlag}]

\* The lists the slice types use; H264 numbers the types modulo 5.
UsesList0(sl) == sl.type % 5 \in {P, B}
UsesList1(sl) == sl.type % 5 = B

\* Variant: the index among the entries that the picture uses.
IndexAmongUsed(d, p) ==
  IF Lookup(d, p) = NoSlot THEN 0 ELSE Cardinality({i \in Slots : i < Lookup(d, p) /\ d[i].used})

\* An entry of a list: an index into the table, from 0, left as 0 when the
\* picture is not found; and the picture a device finds there.
Index(d, p) == IF Lookup(d, p) = NoSlot THEN 0 ELSE Lookup(d, p) - 1
Resolved(d, index) == d[index + 1].pic

\* h264_va_slice_to_v4l2: the lists that are filled in, and where each picture
\* of them leads to.
SliceLists(sl) == {l \in {0, 1} : IF l = 0 THEN UsesList0(sl) ELSE UsesList1(sl)}
SliceParams(d, sl, pics) ==
  [lists |-> SliceLists(sl),
   found |-> [p \in IF SliceLists(sl) = {} THEN {} ELSE ToSet(pics) |-> Resolved(d, Index(d, p))]]

\* V4L2_H264_CTRL_PRED_WEIGHTS_REQUIRED: of slice types 0 .. 4 only.
PredWeightsRequired(pps, sl) ==
  \/ "WEIGHTED_PRED" \in pps.flags /\ sl.type \in {P, SP}
  \/ pps.weighted_bipred_idc = 1 /\ sl.type = B

\* h264_va_slice_to_predicted_weights: a table for each list the slice uses.
PredWeights(sl) == SliceLists(sl)

\* h264_va_matrix_to_v4l2: the first list goes to 0, the second one to 3.
ScalingList8x8 == [i \in 0 .. 5 |-> CASE i = 0 -> "Intra Y" [] i = 3 -> "Inter Y" [] OTHER -> "none"]

\* The order of v4l2_ctrl_h264_scaling_matrix.
ListOrder8x8 ==
  [i \in 0 .. 5 |-> <<"Intra Y", "Inter Y", "Intra Cb", "Inter Cb", "Intra Cr", "Inter Cr">>[i + 1]]

\* What the device holds after VIDIOC_S_EXT_CTRLS: slices are described to a
\* device that decodes slices, and a control that is not set keeps its value.
ControlsOf(c, pics, sl) ==
  [h264 EXCEPT
     !.sps     = Sps(sl),
     !.pps     = Pps(sl),
     !.params  = IF mode = "slice" THEN SliceParams(Described(c, pics), sl, pics) ELSE @,
     !.weights = IF PredWeightsRequired(Pps(sl), sl)
                 THEN [own |-> TRUE, lists |-> PredWeights(sl)] ELSE [@ EXCEPT !.own = FALSE],
     !.scaling = ScalingList8x8]

H264SetControls(c, pics, sl) ==
  /\ DpbSetControls(c, pics)
  /\ h264' = ControlsOf(c, pics, sl)
  /\ slice' = sl
  /\ UNCHANGED mode

\* The controls of a picture are set by one ioctl: none of them is, when it fails.
H264SetControlsFail(c, pics) == DpbSetControlsFail(c, pics) /\ UNCHANGED <<mode, slice, h264>>

H264SetControlsCrash(c, pics) == SetControlsCrash(c, pics) /\ UNCHANGED <<mode, slice, h264>>

NoSlice == [type |-> 2, bipred |-> 0, bits |-> {}]

H264Init ==
  /\ DpbInit
  /\ mode \in {"slice", "frame"}
  /\ slice = NoSlice
  /\ h264 = [sps |-> {}, pps |-> Pps(NoSlice), params |-> [lists |-> {}, found |-> << >>],
             weights |-> [own |-> FALSE, lists |-> {}], scaling |-> ListOrder8x8]

H264Next ==
  \E c \in Surfaces : \E R \in SUBSET Surfaces :
    /\ DpbReady(c, R)
    /\ \E pics \in SetToSeqs(R) :
         \/ \E sl \in Slices : H264SetControls(c, pics, sl)
         \/ H264SetControlsFail(c, pics)
         \/ H264SetControlsCrash(c, pics)

-----------------------------------------------------------------------------
(* Properties. *)

H264TypeOK ==
  /\ Len(dpb) = Size
  /\ \A i \in Slots : dpb[i] \in [pic : Pics, age : 0 .. MaxAge, used : BOOLEAN, valid : BOOLEAN,
                                   reserved : BOOLEAN]
  /\ age \in 0 .. MaxAge /\ refs \subseteq Surfaces /\ active \subseteq Pics
  /\ h264.sps \in H264Sps /\ h264.pps \in H264Pps
  /\ h264.params \in H264SliceParams /\ h264.weights \in H264PredWeights

\* The device decodes a slice with what the client said of it.  Every index of a
\* reference list leads to the picture that was put there: no reference lost its
\* entry to another one, or to the picture itself, between the update of the table
\* and the look-up.  And the weights are the slice's, never those an earlier one
\* left in the device.  (Slice types above 4 say the same as those below, but for
\* them the macro of the kernel sends no weights.)
SliceControlsOwn ==
  LET params == h264.params
      weighted == "weighted_pred_flag" \in slice.bits
  IN /\ mode = "slice" =>
          /\ slice.type % 5 = P => params.lists = {0}
          /\ slice.type % 5 = B => params.lists = {0, 1}
          /\ \A p \in DOMAIN params.found : params.found[p] = p
     /\ slice.type = P /\ weighted => h264.weights = [own |-> TRUE, lists |-> {0}]
     /\ slice.type = B /\ slice.bipred = 1 => h264.weights = [own |-> TRUE, lists |-> {0, 1}]

\* v4l2-controls.h:1400, "Expected list order is Intra Y, Inter Y, Intra Cb,
\* Inter Cb, Intra Cr, Inter Cr.": the lists of luma are where the device expects
\* them.
ScalingListsInOrder ==
  \A i \in 0 .. 5 :
    ListOrder8x8[i] \in {"Intra Y", "Inter Y"} => h264.scaling[i] = ListOrder8x8[i]
=============================================================================

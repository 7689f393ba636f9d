----------------------------- MODULE MCBitInput -----------------------------
(***************************************************************************)
(* Streams for BitInput: the headers of a few coding tools each, payloads  *)
(* full of zeros, ones and threes, and every framing.                      *)
(***************************************************************************)
EXTENDS BitInput

MCInitValues == <<<<20, -15>>, <<-28, 127>>, <<2, 54>>>>

-----------------------------------------------------------------------------
(* Headers: all fields, of which the syntax sends those it needs. *)

BaseSps ==
  [profile_idc |-> 66, constraint_set_flags |-> 48, level_idc |-> 30, seq_parameter_set_id |-> 0,
   chroma_format_idc |-> 1, separate_colour_plane_flag |-> 0, bit_depth_luma_minus8 |-> 0,
   bit_depth_chroma_minus8 |-> 2, qpprime_y_zero_transform_bypass_flag |-> 0,
   seq_scaling_matrix_present_flag |-> 0, scaling_lists |-> <<>>,
   log2_max_frame_num_minus4 |-> 0, pic_order_cnt_type |-> 0,
   log2_max_pic_order_cnt_lsb_minus4 |-> 2, delta_pic_order_always_zero_flag |-> 0,
   offset_for_non_ref_pic |-> -3, offset_for_top_to_bottom_field |-> 2,
   num_ref_frames_in_pic_order_cnt_cycle |-> 2, offset_for_ref_frame |-> <<4, -1>>,
   max_num_ref_frames |-> 2, gaps_in_frame_num_value_allowed_flag |-> 0,
   pic_width_in_mbs_minus1 |-> 119, pic_height_in_map_units_minus1 |-> 0,
   frame_mbs_only_flag |-> 1, mb_adaptive_frame_field_flag |-> 0, direct_8x8_inference_flag |-> 1,
   frame_cropping_flag |-> 0, frame_crop_left_offset |-> 0, frame_crop_right_offset |-> 1,
   frame_crop_top_offset |-> 2, frame_crop_bottom_offset |-> 4,
   vui_parameters_present_flag |-> 0, aspect_ratio_info |-> 0, aspect_ratio_idc |-> 255,
   overscan_info |-> 0, video_signal_type |-> 0, video_full_range_flag |-> 1,
   colour_description |-> 0, colour_primaries |-> 9, transfer_characteristics |-> 16,
   matrix_coefficients |-> 0, chroma_loc_info |-> 0, chroma_sample_loc_type_top_field |-> 2,
   chroma_sample_loc_type_bottom_field |-> 3, timing_info |-> 0, num_units_in_tick_hi |-> 0,
   num_units_in_tick_lo |-> 1001, time_scale_hi |-> 1, time_scale_lo |-> 0,
   fixed_frame_rate_flag |-> 1, nal_hrd |-> 0, vcl_hrd |-> 0, bitstream_restriction |-> 0,
   max_bytes_per_pic_denom |-> 2, max_bits_per_mb_denom |-> 1,
   log2_max_mv_length_horizontal |-> 13, log2_max_mv_length_vertical |-> 11,
   max_num_reorder_frames |-> 2, max_dec_frame_buffering |-> 4]

List4x4 == <<6, 13, 250, 2, 2, 2, 2, 2, 2, 2, 2, 2, 2, 2, 2, 2>>
Rising4x4 == [k \in 1..16 |-> 8 + k]
List8x8 == [k \in 1..64 |-> IF k < 5 THEN 20 - k ELSE 16]
Matrix == <<List4x4, <<>>, Rising4x4, <<>>, <<>>, List4x4, List8x8, List8x8>>

High == [BaseSps EXCEPT !.profile_idc = 100, !.seq_scaling_matrix_present_flag = 1,
                        !.scaling_lists = Matrix]
Interlaced == [BaseSps EXCEPT !.frame_mbs_only_flag = 0, !.pic_order_cnt_type = 1,
                              !.frame_cropping_flag = 1]
Mbaff == [Interlaced EXCEPT !.mb_adaptive_frame_field_flag = 1, !.pic_order_cnt_type = 0]
NoDelta == [BaseSps EXCEPT !.pic_order_cnt_type = 1, !.delta_pic_order_always_zero_flag = 1]
FullColour == [BaseSps EXCEPT !.profile_idc = 244, !.chroma_format_idc = 3,
                              !.pic_order_cnt_type = 2]
Vui == [BaseSps EXCEPT !.vui_parameters_present_flag = 1]
FullVui == [Vui EXCEPT !.aspect_ratio_info = 1, !.overscan_info = 1, !.video_signal_type = 1,
                       !.colour_description = 1, !.chroma_loc_info = 1, !.timing_info = 1,
                       !.nal_hrd = 1, !.vcl_hrd = 1, !.bitstream_restriction = 1]
Spss == {BaseSps, High, [High EXCEPT !.scaling_lists = [Matrix EXCEPT ![1] = <<>>]],
         Interlaced, Mbaff, NoDelta, FullColour, Vui, FullVui,
         [FullVui EXCEPT !.aspect_ratio_idc = 1, !.colour_description = 0, !.nal_hrd = 0]}

BasePps ==
  [pic_parameter_set_id |-> 0, seq_parameter_set_id |-> 0, entropy_coding_mode_flag |-> 0,
   bottom_field_pic_order_in_frame_present_flag |-> 0, num_slice_groups_minus1 |-> 0,
   num_ref_idx_l0_default_active_minus1 |-> 1, num_ref_idx_l1_default_active_minus1 |-> 0,
   weighted_pred_flag |-> 0, weighted_bipred_idc |-> 0, pic_init_qp_minus26 |-> -6,
   pic_init_qs_minus26 |-> 0, chroma_qp_index_offset |-> 3,
   deblocking_filter_control_present_flag |-> 0, constrained_intra_pred_flag |-> 0,
   redundant_pic_cnt_present_flag |-> 0, more |-> 0, transform_8x8_mode_flag |-> 0,
   pic_scaling_matrix_present_flag |-> 0, scaling_lists |-> <<>>,
   second_chroma_qp_index_offset |-> 3]
CabacPps == [BasePps EXCEPT !.entropy_coding_mode_flag = 1,
                            !.deblocking_filter_control_present_flag = 1]
WeightedPps == [CabacPps EXCEPT !.weighted_pred_flag = 1, !.weighted_bipred_idc = 1,
                                !.bottom_field_pic_order_in_frame_present_flag = 1]
HighPps == [BasePps EXCEPT !.more = 1, !.transform_8x8_mode_flag = 1,
                           !.second_chroma_qp_index_offset = -12]
MatrixPps == [HighPps EXCEPT !.pic_scaling_matrix_present_flag = 1, !.scaling_lists = Matrix]
ShortPps == [MatrixPps EXCEPT !.transform_8x8_mode_flag = 0,
                              !.scaling_lists = SubSeq(Matrix, 1, 6)]
Ppss == {BasePps, CabacPps, WeightedPps, HighPps, [HighPps EXCEPT !.transform_8x8_mode_flag = 0]}

BaseSlice ==
  [first_mb_in_slice |-> 0, slice_type_raw |-> 7, pic_parameter_set_id |-> 0, frame_num |-> 9,
   field_pic_flag |-> 0, bottom_field_flag |-> 1, idr_pic_id |-> 4, pic_order_cnt_lsb |-> 38,
   delta_pic_order_cnt_bottom |-> -1, delta_pic_order_cnt_0 |-> 5, delta_pic_order_cnt_1 |-> -2,
   redundant_pic_cnt |-> 0, direct_spatial_mv_pred_flag |-> 1,
   num_ref_idx_active_override_flag |-> 0, num_ref_idx_l0_active |-> 3,
   num_ref_idx_l1_active |-> 2, ref_pic_list_modification_flag_l0 |-> 0,
   ref_list_mod_l0 |-> <<<<0, 2>>, <<1, 0>>, <<2, 5>>>>, ref_pic_list_modification_flag_l1 |-> 0,
   ref_list_mod_l1 |-> <<<<1, 7>>>>, luma_log2_weight_denom |-> 5, chroma_log2_weight_denom |-> 0,
   l0 |-> <<<<<<>>, <<>>>>, <<<<-7, 3>>, <<>>>>>>, l1 |-> <<<<<<>>, <<1, 2, -3, 40>>>>>>,
   no_output_of_prior_pics_flag |-> 0, long_term_reference_flag |-> 1,
   adaptive_ref_pic_marking_mode_flag |-> 0,
   mmco_ops |-> <<<<1, 3>>, <<3, 2 + 65536>>, <<2, 1>>, <<4, 2>>, <<6, 0>>, <<5, 0>>>>,
   cabac_init_idc |-> 2, slice_qp_delta |-> -4, disable_deblocking_filter_idc |-> 0,
   slice_alpha_c0_offset_div2 |-> -6, slice_beta_offset_div2 |-> 6]
BSlice == [BaseSlice EXCEPT !.slice_type_raw = 1, !.first_mb_in_slice = 33]
Rich(h) == [h EXCEPT !.num_ref_idx_active_override_flag = 1, !.num_ref_idx_l0_active = 2,
                     !.num_ref_idx_l1_active = 1, !.ref_pic_list_modification_flag_l0 = 1,
                     !.ref_pic_list_modification_flag_l1 = 1,
                     !.adaptive_ref_pic_marking_mode_flag = 1,
                     !.disable_deblocking_filter_idc = 1]
PSlice == [BSlice EXCEPT !.slice_type_raw = 5]
Slices == {BaseSlice, PSlice, BSlice, Rich(PSlice), Rich(BSlice),
           [Rich(BSlice) EXCEPT !.field_pic_flag = 1],
           [PSlice EXCEPT !.field_pic_flag = 1, !.bottom_field_flag = 0]}

-----------------------------------------------------------------------------
(* Framings and streams *)

LongStart == <<0, 0, 0, 1>>
ShortStart == <<0, 0, 1>>
AnnexB(start, leading, trailing) ==
  [kind |-> "annexb", start |-> start, leading |-> leading, trailing |-> trailing]
Plain == AnnexB(LongStart, <<>>, <<>>)
Framings ==
  {AnnexB(start, leading, trailing) : start \in {LongStart, ShortStart},
     leading \in {<<>>, <<0>>}, trailing \in {<<>>, <<0, 0, 0>>}}
  \cup {[kind |-> "avcc", size |-> size, cut |-> cut] : size \in {1, 2, 4}, cut \in {0, 1}}
  \cup {[kind |-> "mp4", size |-> size] : size \in {1, 2, 4}}

All == <<"sps", "pps", "sei", "slice">>
Base == [sps |-> BaseSps, pps |-> BasePps, nal |-> [ref |-> 2, type |-> 5], slice |-> BaseSlice,
         payload |-> <<128>>, order |-> All, framing |-> Plain, elems |-> {}, maxBins |-> 0]

(* Every kind of slice header under every SPS and PPS that decides what it  *)
(* holds, and every other SPS and PPS.                                       *)
HeaderStreams ==
  {[Base EXCEPT !.sps = s, !.pps = p, !.nal = n, !.slice = h] :
     s \in {BaseSps, Interlaced, Mbaff, NoDelta, FullColour}, h \in Slices,
     p \in {BasePps, CabacPps, WeightedPps},
     n \in {[ref |-> 1, type |-> 5], [ref |-> 3, type |-> 1], [ref |-> 0, type |-> 1]}}
  \cup {[Base EXCEPT !.sps = s, !.pps = p] : s \in Spss, p \in Ppss}
MatrixStreams ==
  {[Base EXCEPT !.sps = BaseSps, !.pps = p] : p \in {MatrixPps, ShortPps}}
  \cup {[Base EXCEPT !.sps = High, !.pps = [MatrixPps EXCEPT !.scaling_lists = full]] :
          full \in {[Matrix EXCEPT ![2] = Rising4x4, ![4] = List4x4, ![5] = Rising4x4]}}

(* An RBSP ends in its stop bit, or in words of zeros behind it. *)
Payloads ==
  {p \o last : p \in UNION {[1..n -> {0, 1, 3}] : n \in 0..2},
                last \in {<<1>>, <<3>>, <<128>>, <<128, 0, 0>>, <<3, 0, 0, 0, 0>>}}
EarlySlice == [Base EXCEPT !.order = <<"sps", "slice", "pps", "slice">>]
FramedStreams ==
  {[Base EXCEPT !.payload = p, !.framing = f] : p \in Payloads, f \in Framings}
  \cup {[Base EXCEPT !.pps = p, !.order = <<"sps", "pps">>, !.framing = f] :
          p \in {BasePps, HighPps}, f \in Framings}

CabacPayloads == {<<a, b, c, 0, 129>> : a \in {0, 3, 127, 254}, b \in {0, 128, 255}, c \in {1, 77}}
CabacStreams ==
  {[Base EXCEPT !.pps = CabacPps, !.payload = p, !.slice.slice_qp_delta = qp, !.maxBins = 5] :
     p \in CabacPayloads, qp \in {-20, 6, 31}}
ElementStream ==
  [Base EXCEPT !.pps = CabacPps, !.payload = <<1, 2>>, !.elems = {f.elem : f \in Elements} \ {"residual_cavlc"},
               !.order = <<"sps", "pps", "slice">>]

BlockStream ==
  [Base EXCEPT !.elems = {"residual_cavlc"}, !.order = <<"sps", "pps", "slice">>]

MCStreams ==
  {ElementStream, BlockStream, EarlySlice} \cup HeaderStreams \cup MatrixStreams
  \cup FramedStreams \cup CabacStreams

-----------------------------------------------------------------------------
(* Syntax elements *)

Family(elem, vals, as, bs) == [elem |-> elem, vals |-> vals, as |-> as, bs |-> bs]
Shapes == {[cat |-> 0, max |-> 16], [cat |-> 1, max |-> 15], [cat |-> 2, max |-> 16],
           [cat |-> 3, max |-> 4], [cat |-> 4, max |-> 15], [cat |-> 5, max |-> 64]}
Nth(places, k) == CHOOSE p \in places : Cardinality({q \in places : q < p}) = k - 1
Block(places, level) ==
  [k \in 1..Cardinality(places) |-> <<Nth(places, k), level[Nth(places, k)]>>]
SparseBlocks(places) == {Block(places, level) : level \in [places -> {1, -2, 15, -140}]}
FullBlocks(max) ==
  {Block(0..max - 1, [p \in 0..max - 1 |-> IF p % m = 0 THEN 3 ELSE -1]) : m \in 1..6}
Fields(sh) == IF sh.cat = 5 THEN {FALSE} ELSE BOOLEAN
Residuals ==
  UNION {{Family("residual", SparseBlocks(places), {sh}, Fields(sh)) :
            places \in (SUBSET {0, 1, sh.max - 2, sh.max - 1}) \ {{}}} : sh \in Shapes}
  \cup {Family("residual", FullBlocks(sh.max), {sh}, Fields(sh)) : sh \in Shapes}

(* CAVLC: every total of zeros and number of trailing ones for each number   *)
(* of coefficients, the run of the last one, and levels up to the escapes.   *)
Spread(n, zeros, run) ==
  (0..n - 3) \cup (IF n > 1 THEN {n - 2 + zeros - run} ELSE {}) \cup {n - 1 + zeros}
OnesAtEnd(places, ones) ==
  Block(places, [p \in places |->
    IF Cardinality({q \in places : q > p}) < ones THEN IF p % 2 = 0 THEN 1 ELSE -1 ELSE 2 + p])
Counted(max, totals, Runs(_)) ==
  UNION {{OnesAtEnd(Spread(n, zeros, run), ones) : run \in Runs(zeros), ones \in 0..Min({n, 3})} :
           <<n, zeros>> \in {x \in (1..max) \X totals : x[1] + x[2] <= max}}
Ladder(max, from) ==
  Block(0..max - 1, [p \in 0..max - 1 |-> (IF p % 3 = 0 THEN -1 ELSE 1) * (from + 2 ^ (max - p))])
Escapes == {16, -16, 17, -2063, 2064, -2080, 5000, -20000}
Levelled(max) ==
  {Ladder(max, 0), Ladder(max, 3)} \cup FullBlocks(max)
  \cup {Block({p}, [q \in {p} |-> level]) : p \in {0, max - 1}, level \in Escapes}
  \cup SparseBlocks({0, max - 1}) \cup SparseBlocks({0, 1, max - 1})
Tokens(max) == {<<>>} \cup Counted(max, {0, max - 4}, LAMBDA zeros : {zeros})
Blocks(max, blocks, nC) == Family("residual_cavlc", blocks, {[max |-> max]}, nC)
Cavlcs ==
  {Blocks(16, Tokens(16), {0, 2, 4, 8}), Blocks(15, Levelled(15) \cup Tokens(15), {1}),
   Blocks(16, Levelled(16) \cup Counted(16, 0..15, LAMBDA zeros : 0..zeros), {3}),
   Blocks(4, Levelled(4) \cup {<<>>} \cup Counted(4, 0..3, LAMBDA zeros : 0..zeros), {-1})}

LumaSets == {{}, {0, 2}, {1}, {3}, {0, 1}, {2}}
MCElements ==
  {Family("mb_skip_p", {0, 1}, BOOLEAN, BOOLEAN), Family("mb_skip_b", {0, 1}, BOOLEAN, BOOLEAN),
   Family("mb_type_i", 0..25, BOOLEAN, BOOLEAN), Family("mb_type_p", (0..30) \ {4}, {0}, {0}),
   Family("mb_type_b", 0..48, BOOLEAN, BOOLEAN), Family("sub_type_p", 0..3, {0}, {0}),
   Family("sub_type_b", 0..12, {0}, {0}), Family("intra_mode", 0..8, 0..8, {0}),
   Family("chroma_mode", 0..3, 0..3, 0..3), Family("cbp_luma", SUBSET (0..3), LumaSets, LumaSets),
   Family("cbp_chroma", 0..2, 0..2, 0..2), Family("ref_idx", 0..31, {-1, 0, 1}, {-1, 0, 1}),
   Family("qp_delta", -26..25, BOOLEAN, {0}), Family("mvd_y", -12..12, {0, 33}, {0}),
   Family("mvd_x", (-40..40) \cup {3000, -3000, -16384}, {0, 2, 3, 32, 33}, {0}),
   Family("coded_block", {0, 1}, 0..5, SUBSET {1, 2})} \cup Residuals \cup Cavlcs
MCFollow == {[k \in 1..40 |-> 0], [k \in 1..40 |-> k % 2]}
=============================================================================

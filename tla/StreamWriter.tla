---------------------------- MODULE StreamWriter ----------------------------
(***************************************************************************)
(* How the standard writes what HeaderSyntax and NalFraming read: the      *)
(* syntax tables of clause 7.3.2 and 7.3.3, Exp-Golomb codes (9.1), RBSP   *)
(* trailing bits and emulation prevention (7.4.1), the byte stream format  *)
(* of Annex B and the samples of ISO/IEC 14496-15.                         *)
(*                                                                         *)
(* A header is a record of all fields it may have; which of them are sent  *)
(* the tables decide.  Bits and bytes are sequences.                       *)
(***************************************************************************)
EXTENDS Integers, Sequences, SequencesExt, FiniteSetsExt

Only(c, bits) == IF c THEN bits ELSE <<>>
Each(list, Bits(_)) == FlattenSeq([k \in 1..Len(list) |-> Bits(list[k])])

u(v, n) == [k \in 1..n |-> (v \div (2 ^ (n - k))) % 2]
ue(v) ==
  LET n == Max({k \in 0..16 : 2 ^ k <= v + 1})
  IN u(0, n) \o u(v + 1, n + 1)
se(v) == ue(IF v > 0 THEN (2 * v) - 1 ELSE -2 * v)

Bytes(bits) ==
  [k \in 1..Len(bits) \div 8 |->
     MapThenSumSet(LAMBDA j : bits[(8 * k) - j] * (2 ^ j), 0..7)]
Padding(bits) == (8 - (Len(bits) % 8)) % 8
(* rbsp_trailing_bits; the alignment in front of CABAC data is of ones. *)
Trailing(bits) == LET b == Append(bits, 1) IN b \o u(0, Padding(b))
Aligned(bits) == bits \o [k \in 1..Padding(bits) |-> 1]

-----------------------------------------------------------------------------
(* 7.3.2.1.1.1: once the rest of a list repeats its last value, it is cut. *)
Wrapped(d) == IF d > 127 THEN d - 256 ELSE IF d < -128 THEN d + 256 ELSE d
scaling_list(list) ==
  LET last == Min({k \in 1..Len(list) : \A j \in k..Len(list) : list[j] = list[k]})
      Delta(k) == se(Wrapped(list[k] - (IF k = 1 THEN 8 ELSE list[k - 1])))
  IN FlattenSeq([k \in 1..last |-> Delta(k)])
     \o Only(last < Len(list), se(Wrapped(-list[last])))
scaling_matrix(lists) ==
  Each(lists, LAMBDA list : IF list = <<>> THEN <<0>> ELSE <<1>> \o scaling_list(list))

(* Table 7-2: fall-back rule set A, and B with the lists of the SPS.  The    *)
(* 8x8 lists are written whenever a matrix is (see README).                  *)
Default4x4(k) ==
  IF k <= 3 THEN <<6, 13, 13, 20, 20, 20, 28, 28, 28, 28, 32, 32, 32, 37, 37, 42>>
  ELSE <<10, 14, 14, 20, 20, 20, 24, 24, 24, 24, 27, 27, 27, 30, 30, 34>>
Flat(k) == [n \in 1..(IF k <= 6 THEN 16 ELSE 64) |-> 16]
ListWithFallback(h, k, ForFirst(_)) ==
  LET from == Max({j \in {1, 4, 7, 8} : j <= k})
      sent == {j \in from..k : h.scaling_lists[j] # <<>>}
  IN IF sent = {} THEN ForFirst(from) ELSE h.scaling_lists[Max(sent)]
HighProfiles == {100, 110, 122, 244, 44, 83, 86, 118, 128, 138, 139, 134, 135}
HasMatrix(s) == s.profile_idc \in HighProfiles /\ s.seq_scaling_matrix_present_flag = 1
SpsList(s, k) ==
  IF ~HasMatrix(s) THEN Flat(k)
  ELSE ListWithFallback(s, k, Default4x4)
PpsList(p, s, k) ==
  IF p.pic_scaling_matrix_present_flag = 0 THEN SpsList(s, k)
  ELSE IF k > Len(p.scaling_lists) THEN SpsList(s, k)
  ELSE ListWithFallback(p, k,
         LAMBDA j : IF HasMatrix(s) THEN SpsList(s, j) ELSE Default4x4(j))

-----------------------------------------------------------------------------
(* 7.3.2.1.1, E.1.1, E.1.2 *)

hrd_parameters ==
  ue(1) \o u(67, 8) \o ue(6) \o ue(2) \o <<1>> \o ue(0) \o ue(9) \o <<0>> \o u(99999, 20)

vui_parameters(s) ==
  <<s.aspect_ratio_info>>
  \o Only(s.aspect_ratio_info = 1, u(s.aspect_ratio_idc, 8)
       \o Only(s.aspect_ratio_idc = 255, u(40, 16) \o u(33, 16)))
  \o <<s.overscan_info>> \o Only(s.overscan_info = 1, <<1>>)
  \o <<s.video_signal_type>>
  \o Only(s.video_signal_type = 1, u(5, 3) \o <<s.video_full_range_flag, s.colour_description>>
       \o Only(s.colour_description = 1, u(s.colour_primaries, 8)
            \o u(s.transfer_characteristics, 8) \o u(s.matrix_coefficients, 8)))
  \o <<s.chroma_loc_info>>
  \o Only(s.chroma_loc_info = 1,
          ue(s.chroma_sample_loc_type_top_field) \o ue(s.chroma_sample_loc_type_bottom_field))
  \o <<s.timing_info>>
  \o Only(s.timing_info = 1,
          u(s.num_units_in_tick_hi, 16) \o u(s.num_units_in_tick_lo, 16)
          \o u(s.time_scale_hi, 16) \o u(s.time_scale_lo, 16) \o <<s.fixed_frame_rate_flag>>)
  \o <<s.nal_hrd>> \o Only(s.nal_hrd = 1, hrd_parameters)
  \o <<s.vcl_hrd>> \o Only(s.vcl_hrd = 1, hrd_parameters)
  \o Only(s.nal_hrd = 1 \/ s.vcl_hrd = 1, <<0>>)
  \o <<1>> \o <<s.bitstream_restriction>>
  \o Only(s.bitstream_restriction = 1, <<1>>
       \o ue(s.max_bytes_per_pic_denom) \o ue(s.max_bits_per_mb_denom)
       \o ue(s.log2_max_mv_length_horizontal) \o ue(s.log2_max_mv_length_vertical)
       \o ue(s.max_num_reorder_frames) \o ue(s.max_dec_frame_buffering))

seq_parameter_set_data(s) ==
  u(s.profile_idc, 8) \o u(s.constraint_set_flags, 6) \o <<0, 0>> \o u(s.level_idc, 8)
  \o ue(s.seq_parameter_set_id)
  \o Only(s.profile_idc \in HighProfiles,
          ue(s.chroma_format_idc)
          \o Only(s.chroma_format_idc = 3, <<s.separate_colour_plane_flag>>)
          \o ue(s.bit_depth_luma_minus8) \o ue(s.bit_depth_chroma_minus8)
          \o <<s.qpprime_y_zero_transform_bypass_flag, s.seq_scaling_matrix_present_flag>>
          \o Only(s.seq_scaling_matrix_present_flag = 1, scaling_matrix(s.scaling_lists)))
  \o ue(s.log2_max_frame_num_minus4) \o ue(s.pic_order_cnt_type)
  \o Only(s.pic_order_cnt_type = 0, ue(s.log2_max_pic_order_cnt_lsb_minus4))
  \o Only(s.pic_order_cnt_type = 1,
          <<s.delta_pic_order_always_zero_flag>> \o se(s.offset_for_non_ref_pic)
          \o se(s.offset_for_top_to_bottom_field) \o ue(Len(s.offset_for_ref_frame))
          \o Each(s.offset_for_ref_frame, se))
  \o ue(s.max_num_ref_frames) \o <<s.gaps_in_frame_num_value_allowed_flag>>
  \o ue(s.pic_width_in_mbs_minus1) \o ue(s.pic_height_in_map_units_minus1)
  \o <<s.frame_mbs_only_flag>>
  \o Only(s.frame_mbs_only_flag = 0, <<s.mb_adaptive_frame_field_flag>>)
  \o <<s.direct_8x8_inference_flag, s.frame_cropping_flag>>
  \o Only(s.frame_cropping_flag = 1,
          ue(s.frame_crop_left_offset) \o ue(s.frame_crop_right_offset)
          \o ue(s.frame_crop_top_offset) \o ue(s.frame_crop_bottom_offset))
  \o <<s.vui_parameters_present_flag>>
  \o Only(s.vui_parameters_present_flag = 1, vui_parameters(s))

(* 7.3.2.2 *)
pic_parameter_set(p) ==
  ue(p.pic_parameter_set_id) \o ue(p.seq_parameter_set_id)
  \o <<p.entropy_coding_mode_flag, p.bottom_field_pic_order_in_frame_present_flag>>
  \o ue(p.num_slice_groups_minus1)
  \o ue(p.num_ref_idx_l0_default_active_minus1) \o ue(p.num_ref_idx_l1_default_active_minus1)
  \o <<p.weighted_pred_flag>> \o u(p.weighted_bipred_idc, 2)
  \o se(p.pic_init_qp_minus26) \o se(p.pic_init_qs_minus26) \o se(p.chroma_qp_index_offset)
  \o <<p.deblocking_filter_control_present_flag, p.constrained_intra_pred_flag,
       p.redundant_pic_cnt_present_flag>>
  \o Only(p.more = 1,
          <<p.transform_8x8_mode_flag, p.pic_scaling_matrix_present_flag>>
          \o Only(p.pic_scaling_matrix_present_flag = 1, scaling_matrix(p.scaling_lists))
          \o se(p.second_chroma_qp_index_offset))

-----------------------------------------------------------------------------
(* 7.3.3, for the unit n of an SPS s and a PPS p *)

SliceTypes == <<"P", "B", "I", "SP", "SI">>
IsP(h) == SliceTypes[(h.slice_type_raw % 5) + 1] \in {"P", "SP"}
IsB(h) == SliceTypes[(h.slice_type_raw % 5) + 1] = "B"

ref_pic_list_modification(flag, list) ==
  <<flag>> \o Only(flag = 1, Each(list, LAMBDA op : ue(op[1]) \o ue(op[2])) \o ue(3))
Weighted(values) == IF values = <<>> THEN <<0>> ELSE <<1>> \o Each(values, se)
weights(list) == Each(list, LAMBDA w : Weighted(w[1]) \o Weighted(w[2]))
pred_weight_table(h) ==
  ue(h.luma_log2_weight_denom) \o ue(h.chroma_log2_weight_denom) \o weights(h.l0)
  \o Only(IsB(h), weights(h.l1))
memory_management(op) ==
  ue(op[1]) \o (IF op[1] = 5 THEN <<>>
                ELSE IF op[1] = 3 THEN ue(op[2] % 65536) \o ue(op[2] \div 65536) ELSE ue(op[2]))
dec_ref_pic_marking(h, n) ==
  IF n.type = 5 THEN <<h.no_output_of_prior_pics_flag, h.long_term_reference_flag>>
  ELSE <<h.adaptive_ref_pic_marking_mode_flag>>
       \o Only(h.adaptive_ref_pic_marking_mode_flag = 1,
               Each(h.mmco_ops, memory_management) \o ue(0))

picture_order(h, s, p) ==
  LET both == /\ p.bottom_field_pic_order_in_frame_present_flag = 1
              /\ s.frame_mbs_only_flag = 1 \/ h.field_pic_flag = 0
  IN Only(s.pic_order_cnt_type = 0,
          u(h.pic_order_cnt_lsb, s.log2_max_pic_order_cnt_lsb_minus4 + 4)
          \o Only(both, se(h.delta_pic_order_cnt_bottom)))
     \o Only(s.pic_order_cnt_type = 1 /\ s.delta_pic_order_always_zero_flag = 0,
             se(h.delta_pic_order_cnt_0) \o Only(both, se(h.delta_pic_order_cnt_1)))

reference_lists(h) ==
  <<h.num_ref_idx_active_override_flag>>
  \o Only(h.num_ref_idx_active_override_flag = 1,
          ue(h.num_ref_idx_l0_active - 1) \o Only(IsB(h), ue(h.num_ref_idx_l1_active - 1)))
  \o ref_pic_list_modification(h.ref_pic_list_modification_flag_l0, h.ref_list_mod_l0)
  \o Only(IsB(h), ref_pic_list_modification(h.ref_pic_list_modification_flag_l1, h.ref_list_mod_l1))

slice_header(h, n, s, p) ==
  ue(h.first_mb_in_slice) \o ue(h.slice_type_raw) \o ue(h.pic_parameter_set_id)
  \o u(h.frame_num, s.log2_max_frame_num_minus4 + 4)
  \o Only(s.frame_mbs_only_flag = 0,
          <<h.field_pic_flag>> \o Only(h.field_pic_flag = 1, <<h.bottom_field_flag>>))
  \o Only(n.type = 5, ue(h.idr_pic_id))
  \o picture_order(h, s, p)
  \o Only(p.redundant_pic_cnt_present_flag = 1, ue(h.redundant_pic_cnt))
  \o Only(IsB(h), <<h.direct_spatial_mv_pred_flag>>)
  \o Only(IsP(h) \/ IsB(h), reference_lists(h))
  \o Only((p.weighted_pred_flag = 1 /\ IsP(h)) \/ (p.weighted_bipred_idc = 1 /\ IsB(h)),
          pred_weight_table(h))
  \o Only(n.ref # 0, dec_ref_pic_marking(h, n))
  \o Only(p.entropy_coding_mode_flag = 1 /\ (IsP(h) \/ IsB(h)), ue(h.cabac_init_idc))
  \o se(h.slice_qp_delta)
  \o Only(p.deblocking_filter_control_present_flag = 1,
          ue(h.disable_deblocking_filter_idc)
          \o Only(h.disable_deblocking_filter_idc # 1,
                  se(h.slice_alpha_c0_offset_div2) \o se(h.slice_beta_offset_div2)))

(* What 7.4.2 and 7.4.3 infer for fields that were not sent. *)
ColourSent(s) ==
  s.vui_parameters_present_flag = 1 /\ s.video_signal_type = 1 /\ s.colour_description = 1
InferredSps(s) ==
  [s EXCEPT !.chroma_format_idc = IF s.profile_idc \in HighProfiles THEN @ ELSE 1,
            !.colour_primaries = IF ColourSent(s) THEN @ ELSE 2,
            !.transfer_characteristics = IF ColourSent(s) THEN @ ELSE 2,
            !.matrix_coefficients = IF ColourSent(s) THEN @ ELSE 2]
InferredPps(p) ==
  [p EXCEPT !.second_chroma_qp_index_offset = IF p.more = 1 THEN @ ELSE p.chroma_qp_index_offset]
InferredSlice(h, p) ==
  [h EXCEPT !.num_ref_idx_l0_active =
              IF ~IsP(h) /\ ~IsB(h) THEN 0 ELSE IF h.num_ref_idx_active_override_flag = 1 THEN @
              ELSE p.num_ref_idx_l0_default_active_minus1 + 1,
            !.num_ref_idx_l1_active =
              IF ~IsB(h) THEN 0 ELSE IF h.num_ref_idx_active_override_flag = 1 THEN @
              ELSE p.num_ref_idx_l1_default_active_minus1 + 1]

-----------------------------------------------------------------------------
(* NAL units and streams *)

(* 7.4.1: no three bytes 0, 0, 0..3; a 3 also behind zero words at the end. *)
ZerosBefore(rbsp, k) == k - 1 - Max({0} \cup {j \in 1..k - 1 : rbsp[j] # 0})
Escape(rbsp, k) ==
  ZerosBefore(rbsp, k) >= 2 /\ ZerosBefore(rbsp, k) % 2 = 0 /\ rbsp[k] <= 3
Escaped(rbsp) ==
  FlattenSeq([k \in 1..Len(rbsp) |-> IF Escape(rbsp, k) THEN <<3, rbsp[k]>> ELSE <<rbsp[k]>>])
  \o Only(rbsp # <<>> /\ Last(rbsp) = 0, <<3>>)
nal_unit(n) == <<(32 * n.ref) + n.type>> \o Escaped(n.rbsp)

(* leading_zero_8bits, start codes of three or four bytes, trailing_zero_8bits. *)
ByteStream(units, f) ==
  f.leading \o Each(units, LAMBDA n : f.start \o nal_unit(n) \o f.trailing)
Sample(units, size) ==
  Each(units, LAMBDA n :
    [k \in 1..size |-> (Len(nal_unit(n)) \div (256 ^ (size - k))) % 256] \o nal_unit(n))

(* AVCDecoderConfigurationRecord *)
avcC(sps, pps, size) ==
  <<1, 100, 0, 40, 252 + size - 1, 224 + Len(sps)>> \o Sample(sps, 2)
  \o <<Len(pps)>> \o Sample(pps, 2)
=============================================================================

---------------------------- MODULE HeaderSyntax ----------------------------
(***************************************************************************)
(* sps.rs, pps.rs and slice.rs: what is read from a parameter set and from *)
(* a slice header, in which order and under which conditions.              *)
(*                                                                         *)
(* x is [r, h]: the reader and the fields read so far.  A syntax is a      *)
(* sequence of items that are read one after the other; the condition of   *)
(* an item may look at the fields read before it.  An error of the code is *)
(* r.ok = FALSE.  Fields of 32 bits are kept as two halves, flags as 0, 1. *)
(* h has the fields that were read and those with another default than 0.  *)
(***************************************************************************)
EXTENDS BitReader, TLC

LoopBound == 8      \* rounds of the loops that only the stream ends

Item(name, kind, n) == [name |-> name, kind |-> kind, n |-> n, when |-> TRUE, max |-> -1]
U(name, n)    == Item(name, "u", n)
Flag(name)    == Item(name, "u", 1)
Ue(name)      == Item(name, "ue", 0)
Count(name)   == Item(name, "count", 0)      \* coded as one less
Se(name)      == Item(name, "se", 0)
Skip(n)       == Item("skip", "skip", n)
Let(name, v)  == Item(name, "let", v)
When(c, item) == [item EXCEPT !.when = c]
AtMost(item, max) == [item EXCEPT !.max = max]

Failed(r) == [r EXCEPT !.ok = FALSE]
Got(val, r) == [val |-> val, r |-> r]
V(h, name) == IF name \in DOMAIN h THEN h[name] ELSE 0

-----------------------------------------------------------------------------
(* Loops: n signed values, scaling lists, and pairs up to an end code. *)

AppendSe(got) == Got(Append(got.val, ReadSe(got.r).val), ReadSe(got.r).r)
ReadSes(r, n) ==
  LET v[k \in 0..n] == IF k = 0 THEN Got(<<>>, r) ELSE AppendSe(v[k - 1]) IN v[n]

(* Mutant: the difference counts from the initial value, not the last one. *)
NextOfEight(last, delta) == (8 + delta + 256) % 256

NextScale(last, delta) == (last + delta + 256) % 256
Entry(l, next, r) ==
  [r |-> r, next |-> next,
   list |-> Append(l.list, IF next = 0 THEN l.last ELSE next),
   last |-> IF next = 0 THEN l.last ELSE next]
EntryRead(l, got) == Entry(l, NextScale(l.last, got.val), got.r)
NextEntry(l) ==
  IF l.next = 0 THEN Entry(l, 0, l.r) ELSE EntryRead(l, ReadSe(l.r))
ListOf(l) == Got(l.list, l.r)
parse_scaling_list(r, size) ==
  LET l[k \in 0..size] ==
        IF k = 0 THEN [list |-> <<>>, last |-> 8, next |-> 8, r |-> r] ELSE NextEntry(l[k - 1])
  IN ListOf(l[size])

(* <<>> stands for a list that is not there. *)
ScalingAppend(got, l) == Got(Append(got.val, l.val), l.r)
ScalingList(present, size) ==
  IF present.val = 1 THEN parse_scaling_list(present.r, size) ELSE Got(<<>>, present.r)
ScalingNext(got, size) == ScalingAppend(got, ScalingList(ReadBit(got.r), size))
ScalingLists(r, count) ==
  LET v[k \in 0..count] ==
        IF k = 0 THEN Got(<<>>, r) ELSE ScalingNext(v[k - 1], IF k <= 6 THEN 16 ELSE 64)
  IN v[count]

(* ref_pic_list_modification: pairs <<idc, value>> up to idc 3. *)
Pair(idc, got, list) == Got(Append(list, <<idc, got.val>>), got.r)
ModsAfter(list, idc) ==
  IF idc.val = 3 THEN [done |-> TRUE, got |-> Got(list, idc.r)]
  ELSE [done |-> FALSE, got |-> Pair(idc.val, ReadUe(idc.r), list)]
ModsNext(s) == IF s.done THEN s ELSE ModsAfter(s.got.val, ReadUe(s.got.r))

(* dec_ref_pic_marking; op 3 packs both operands, an unknown op ends the loop. *)
Packed(diff, idx) == Got(diff.val + (65536 * idx.val), idx.r)
PackedAfter(diff) == Packed(diff, ReadUe(diff.r))
MmcoAfter(list, op) ==
  IF op.val \notin 1..6 THEN [done |-> TRUE, got |-> Got(list, op.r)]
  ELSE [done |-> FALSE,
        got |-> IF op.val = 5 THEN Got(Append(list, <<5, 0>>), op.r)
                ELSE IF op.val = 3 THEN Pair(3, PackedAfter(ReadUe(op.r)), list)
                ELSE Pair(op.val, ReadUe(op.r), list)]
MmcoNext(s) == IF s.done THEN s ELSE MmcoAfter(s.got.val, ReadUe(s.got.r))

Ended(s) == IF s.done THEN s.got ELSE Got(s.got.val, Failed(s.got.r))
ReadPairs(r, kind) ==
  LET s[k \in 0..LoopBound] ==
        IF k = 0 THEN [done |-> FALSE, got |-> Got(<<>>, r)]
        ELSE IF kind = "mmco" THEN MmcoNext(s[k - 1]) ELSE ModsNext(s[k - 1])
  IN Ended(s[LoopBound])

(* pred_weight_table: a reference's luma and its chroma weights and offsets, *)
(* <<>> where the defaults stay.                                             *)
Weights(present, n) == IF present.val = 1 THEN ReadSes(present.r, n) ELSE Got(<<>>, present.r)
RefWeight(list, luma, chroma) == Got(Append(list, <<luma.val, chroma.val>>), chroma.r)
RefWeightAfter(list, luma) == RefWeight(list, luma, Weights(ReadBit(luma.r), 4))
RefWeightNext(got) == RefWeightAfter(got.val, Weights(ReadBit(got.r), 2))
ReadWeights(r, n) ==
  LET v[k \in 0..n] == IF k = 0 THEN Got(<<>>, r) ELSE RefWeightNext(v[k - 1]) IN v[n]

(* skip_hrd_parameters *)
HrdEntry(r) == SkipBits(ReadUe(ReadUe(r).r).r, 1)
HrdAfter(count) ==
  LET e[k \in 0..count.val + 1] ==
        IF k = 0 THEN SkipBits(count.r, 8) ELSE HrdEntry(e[k - 1])
  IN IF count.val > 31 THEN Failed(count.r) ELSE SkipBits(e[count.val + 1], 20)
HrdParameters(r) == HrdAfter(ReadUe(r))

-----------------------------------------------------------------------------
(* Reading a syntax *)

ReadItem(r, item) ==
  CASE item.kind = "u"       -> ReadBits(r, item.n)
    [] item.kind = "ue"      -> ReadUe(r)
    [] item.kind = "count"   -> [ReadUe(r) EXCEPT !.val = @ + 1]
    [] item.kind = "se"      -> ReadSe(r)
    [] item.kind = "let"     -> Got(item.n, r)
    [] item.kind = "ses"     -> ReadSes(r, item.n)
    [] item.kind = "scaling" -> ScalingLists(r, item.n)
    [] item.kind = "weights" -> ReadWeights(r, item.n)
    [] item.kind = "more"    -> Got(IF MoreRbspData(r) THEN 1 ELSE 0, r)
    [] OTHER                 -> ReadPairs(r, item.kind)      \* "mods" or "mmco"

Checked(got, max) == IF max >= 0 /\ got.val > max THEN Got(got.val, Failed(got.r)) ELSE got
Keep(x, name, got) == [r |-> got.r, h |-> (name :> got.val) @@ x.h]
Read(x, item) ==
  IF ~item.when THEN x
  ELSE IF item.kind = "skip" THEN [x EXCEPT !.r = SkipBits(@, item.n)]
  ELSE IF item.kind = "hrd" THEN [x EXCEPT !.r = HrdParameters(@)]
  ELSE Keep(x, item.name, Checked(ReadItem(x.r, item), item.max))

-----------------------------------------------------------------------------
(* parse_sps *)

HighProfiles == {100, 110, 122, 244, 44, 83, 86, 118, 128, 138, 139, 134, 135}

HighSyntax(h, high) ==
  <<When(high, Ue("chroma_format_idc")),
    When(high /\ h.chroma_format_idc = 3, Flag("separate_colour_plane_flag")),
    When(high, Ue("bit_depth_luma_minus8")), When(high, Ue("bit_depth_chroma_minus8")),
    When(high, Flag("qpprime_y_zero_transform_bypass_flag")),
    When(high, Flag("seq_scaling_matrix_present_flag")),
    When(V(h, "seq_scaling_matrix_present_flag") = 1,
         Item("scaling_lists", "scaling", IF h.chroma_format_idc # 3 THEN 8 ELSE 12))>>

OrderCountSyntax(type) ==
  <<When(type = 0, Ue("log2_max_pic_order_cnt_lsb_minus4")),
    When(type = 1, Flag("delta_pic_order_always_zero_flag")),
    When(type = 1, Se("offset_for_non_ref_pic")),
    When(type = 1, Se("offset_for_top_to_bottom_field")),
    When(type = 1, Ue("num_ref_frames_in_pic_order_cnt_cycle"))>>

CroppingSyntax(crop) ==
  <<When(crop, Ue("frame_crop_left_offset")), When(crop, Ue("frame_crop_right_offset")),
    When(crop, Ue("frame_crop_top_offset")), When(crop, Ue("frame_crop_bottom_offset"))>>

(* Annex E; v: vui_parameters_present_flag. *)
VuiSyntax(h, v) ==
  LET On(flag) == V(h, flag) = 1
  IN <<When(v, Flag("aspect_ratio_info")),
       When(On("aspect_ratio_info"), U("aspect_ratio_idc", 8)),
       When(V(h, "aspect_ratio_idc") = 255, Skip(32)),
       When(v, Flag("overscan_info")), When(On("overscan_info"), Skip(1)),
       When(v, Flag("video_signal_type")), When(On("video_signal_type"), Skip(3)),
       When(On("video_signal_type"), Flag("video_full_range_flag")),
       When(On("video_signal_type"), Flag("colour_description")),
       When(On("colour_description"), U("colour_primaries", 8)),
       When(On("colour_description"), U("transfer_characteristics", 8)),
       When(On("colour_description"), U("matrix_coefficients", 8)),
       When(v, Flag("chroma_loc_info")),
       When(On("chroma_loc_info"), Ue("chroma_sample_loc_type_top_field")),
       When(On("chroma_loc_info"), Ue("chroma_sample_loc_type_bottom_field"))>>
TimingSyntax(timing) ==
  <<When(timing, U("num_units_in_tick_hi", 16)), When(timing, U("num_units_in_tick_lo", 16)),
    When(timing, U("time_scale_hi", 16)), When(timing, U("time_scale_lo", 16)),
    When(timing, Flag("fixed_frame_rate_flag"))>>
HrdSyntax(h, v) ==
  <<When(v, Flag("nal_hrd")), When(V(h, "nal_hrd") = 1, Item("hrd", "hrd", 0)),
    When(v, Flag("vcl_hrd")), When(V(h, "vcl_hrd") = 1, Item("hrd", "hrd", 0)),
    When(V(h, "nal_hrd") = 1 \/ V(h, "vcl_hrd") = 1, Skip(1)), When(v, Skip(1))>>
RestrictionSyntax(limits) ==
  <<When(limits, Skip(1)), When(limits, Ue("max_bytes_per_pic_denom")),
    When(limits, Ue("max_bits_per_mb_denom")), When(limits, Ue("log2_max_mv_length_horizontal")),
    When(limits, Ue("log2_max_mv_length_vertical")), When(limits, Ue("max_num_reorder_frames")),
    When(limits, Ue("max_dec_frame_buffering"))>>

SpsSyntax(h) ==
  <<U("profile_idc", 8), U("constraint_set_flags", 6), Skip(2), U("level_idc", 8),
    Ue("seq_parameter_set_id")>>
  \o HighSyntax(h, V(h, "profile_idc") \in HighProfiles)
  \o <<Ue("log2_max_frame_num_minus4"), Ue("pic_order_cnt_type")>>
  \o OrderCountSyntax(V(h, "pic_order_cnt_type"))
  \o <<When(V(h, "pic_order_cnt_type") = 1,
            Item("offset_for_ref_frame", "ses", V(h, "num_ref_frames_in_pic_order_cnt_cycle"))),
       Ue("max_num_ref_frames"), Flag("gaps_in_frame_num_value_allowed_flag"),
       Ue("pic_width_in_mbs_minus1"), Ue("pic_height_in_map_units_minus1"),
       Flag("frame_mbs_only_flag"),
       When(V(h, "frame_mbs_only_flag") = 0, Flag("mb_adaptive_frame_field_flag")),
       Flag("direct_8x8_inference_flag"), Flag("frame_cropping_flag")>>
  \o CroppingSyntax(V(h, "frame_cropping_flag") = 1)
  \o <<Flag("vui_parameters_present_flag")>>
  \o VuiSyntax(h, V(h, "vui_parameters_present_flag") = 1)
  \o <<When(V(h, "vui_parameters_present_flag") = 1, Flag("timing_info"))>>
  \o TimingSyntax(V(h, "timing_info") = 1)
  \o HrdSyntax(h, V(h, "vui_parameters_present_flag") = 1)
  \o <<When(V(h, "vui_parameters_present_flag") = 1, Flag("bitstream_restriction"))>>
  \o RestrictionSyntax(V(h, "bitstream_restriction") = 1)
SpsDefaults ==
  [chroma_format_idc |-> 1, colour_primaries |-> 2, transfer_characteristics |-> 2,
   matrix_coefficients |-> 2]

-----------------------------------------------------------------------------
(* parse_pps *)

PpsSyntax(h) ==
  <<Ue("pic_parameter_set_id"), Ue("seq_parameter_set_id"), Flag("entropy_coding_mode_flag"),
    Flag("bottom_field_pic_order_in_frame_present_flag"),
    AtMost(Ue("num_slice_groups_minus1"), 0),
    Ue("num_ref_idx_l0_default_active_minus1"), Ue("num_ref_idx_l1_default_active_minus1"),
    Flag("weighted_pred_flag"), U("weighted_bipred_idc", 2), Se("pic_init_qp_minus26"),
    Se("pic_init_qs_minus26"), Se("chroma_qp_index_offset"),
    Flag("deblocking_filter_control_present_flag"), Flag("constrained_intra_pred_flag"),
    Flag("redundant_pic_cnt_present_flag"),
    Item("second_chroma_qp_index_offset", "let", V(h, "chroma_qp_index_offset")),
    Item("more", "more", 0),
    When(V(h, "more") = 1, Flag("transform_8x8_mode_flag")),
    When(V(h, "more") = 1, Flag("pic_scaling_matrix_present_flag")),
    When(V(h, "pic_scaling_matrix_present_flag") = 1,
         Item("scaling_lists", "scaling", 6 + (2 * V(h, "transform_8x8_mode_flag")))),
    When(V(h, "more") = 1, Se("second_chroma_qp_index_offset"))>>

-----------------------------------------------------------------------------
(* The lists in force: those read, else what Table 7-2 falls back to. *)

DEFAULT_SCALING_4X4_INTRA == <<6, 13, 13, 20, 20, 20, 28, 28, 28, 28, 32, 32, 32, 37, 37, 42>>
DEFAULT_SCALING_4X4_INTER == <<10, 14, 14, 20, 20, 20, 24, 24, 24, 24, 27, 27, 27, 30, 30, 34>>
FlatLists == [k \in 1..8 |-> [n \in 1..(IF k <= 6 THEN 16 ELSE 64) |-> 16]]

Fallback(lists, k) ==
  IF k = 1 THEN DEFAULT_SCALING_4X4_INTRA
  ELSE IF k = 4 THEN DEFAULT_SCALING_4X4_INTER ELSE lists[k - 1]
Replaced(lists, k, read, falls) ==
  IF read # <<>> THEN [lists EXCEPT ![k] = read]
  ELSE IF falls /\ k <= 6 THEN [lists EXCEPT ![k] = Fallback(lists, k)] ELSE lists
Effective(base, read, falls) ==
  LET n == Min({8, Len(read)})
      lists[k \in 0..n] == IF k = 0 THEN base ELSE Replaced(lists[k - 1], k, read[k], falls)
  IN lists[n]

SpsLists(sps) ==
  IF V(sps, "seq_scaling_matrix_present_flag") = 0 THEN FlatLists
  ELSE Effective(FlatLists, sps.scaling_lists, TRUE)
PpsLists(pps, sps) ==
  IF V(pps, "pic_scaling_matrix_present_flag") = 0 THEN SpsLists(sps)
  ELSE Effective(SpsLists(sps), pps.scaling_lists, V(sps, "seq_scaling_matrix_present_flag") = 0)

-----------------------------------------------------------------------------
(* parse_slice_header *)

from_raw == <<"P", "B", "I", "Sp", "Si", "P", "B", "I", "Sp", "Si">>
Type(h) == IF V(h, "slice_type_raw") \in 0..9 THEN from_raw[V(h, "slice_type_raw") + 1] ELSE "I"
Inter(h) == Type(h) \notin {"I", "Si"}

PictureSyntax(h, sps, pps, idr) ==
  LET frame == V(h, "field_pic_flag") = 0
      pair  == V(pps, "bottom_field_pic_order_in_frame_present_flag") = 1 /\ frame
      delta == V(sps, "pic_order_cnt_type") = 1 /\ V(sps, "delta_pic_order_always_zero_flag") = 0
  IN <<U("frame_num", sps.log2_max_frame_num_minus4 + 4),
       When(sps.frame_mbs_only_flag = 0, Flag("field_pic_flag")),
       When(~frame, Flag("bottom_field_flag")),
       When(idr, Ue("idr_pic_id")),
       When(sps.pic_order_cnt_type = 0,
            U("pic_order_cnt_lsb", V(sps, "log2_max_pic_order_cnt_lsb_minus4") + 4)),
       When(sps.pic_order_cnt_type = 0 /\ pair, Se("delta_pic_order_cnt_bottom")),
       When(delta, Se("delta_pic_order_cnt_0")),
       When(delta /\ pair, Se("delta_pic_order_cnt_1")),
       When(Type(h) = "B", Flag("direct_spatial_mv_pred_flag"))>>

ReferenceSyntax(h, pps) ==
  LET b == Type(h) = "B"
  IN <<Let("num_ref_idx_l0_active",
           IF Inter(h) THEN pps.num_ref_idx_l0_default_active_minus1 + 1 ELSE 0),
       Let("num_ref_idx_l1_active",
           IF b THEN pps.num_ref_idx_l1_default_active_minus1 + 1 ELSE 0),
       When(Inter(h), Flag("num_ref_idx_active_override_flag")),
       When(V(h, "num_ref_idx_active_override_flag") = 1, Count("num_ref_idx_l0_active")),
       When(V(h, "num_ref_idx_active_override_flag") = 1 /\ b, Count("num_ref_idx_l1_active")),
       When(Inter(h), Flag("ref_pic_list_modification_flag_l0")),
       When(V(h, "ref_pic_list_modification_flag_l0") = 1, Item("ref_list_mod_l0", "mods", 0)),
       When(b, Flag("ref_pic_list_modification_flag_l1")),
       When(V(h, "ref_pic_list_modification_flag_l1") = 1, Item("ref_list_mod_l1", "mods", 0))>>

WeightSyntax(h, weighted) ==
  <<When(weighted, AtMost(Ue("luma_log2_weight_denom"), 7)),
    When(weighted, AtMost(Ue("chroma_log2_weight_denom"), 7)),
    When(weighted, Item("l0", "weights", V(h, "num_ref_idx_l0_active"))),
    When(weighted /\ Type(h) = "B", Item("l1", "weights", V(h, "num_ref_idx_l1_active")))>>

MarkingSyntax(h, idr, reference) ==
  <<When(idr, Flag("no_output_of_prior_pics_flag")), When(idr, Flag("long_term_reference_flag")),
    When(~idr /\ reference, Flag("adaptive_ref_pic_marking_mode_flag")),
    When(V(h, "adaptive_ref_pic_marking_mode_flag") = 1, Item("mmco_ops", "mmco", 0))>>

SliceSyntax(h, sps, pps, idr, reference) ==
  <<Ue("first_mb_in_slice"), AtMost(Ue("slice_type_raw"), 9), Ue("pic_parameter_set_id")>>
  \o PictureSyntax(h, sps, pps, idr)
  \o ReferenceSyntax(h, pps)
  \o WeightSyntax(h, \/ Type(h) = "P" /\ pps.weighted_pred_flag = 1
                     \/ Type(h) = "B" /\ pps.weighted_bipred_idc = 1)
  \o MarkingSyntax(h, idr, reference)
  \o <<When(pps.entropy_coding_mode_flag = 1 /\ Inter(h), AtMost(Ue("cabac_init_idc"), 2)),
       Se("slice_qp_delta"),
       When(pps.deblocking_filter_control_present_flag = 1, Ue("disable_deblocking_filter_idc")),
       When(/\ pps.deblocking_filter_control_present_flag = 1
            /\ V(h, "disable_deblocking_filter_idc") # 1, Se("slice_alpha_c0_offset_div2")),
       When(/\ pps.deblocking_filter_control_present_flag = 1
            /\ V(h, "disable_deblocking_filter_idc") # 1, Se("slice_beta_offset_div2"))>>
mbaff_frame_flag(h, sps) ==
  V(sps, "mb_adaptive_frame_field_flag") = 1 /\ V(h, "field_pic_flag") = 0
qp_y(h, pps) == 26 + pps.pic_init_qp_minus26 + h.slice_qp_delta

-----------------------------------------------------------------------------
(* The three parsers: the items one by one, up to the first error. *)

SpsItem(x, k) == IF ~x.r.ok THEN x ELSE Read(x, SpsSyntax(x.h)[k])
parse_sps(rbsp) ==
  LET x[k \in 0..Len(SpsSyntax(SpsDefaults))] ==
        IF k = 0 THEN [r |-> New(rbsp), h |-> SpsDefaults] ELSE SpsItem(x[k - 1], k)
  IN x[Len(SpsSyntax(SpsDefaults))]

Nothing == [name \in {} |-> 0]
PpsItem(x, k) == IF ~x.r.ok THEN x ELSE Read(x, PpsSyntax(x.h)[k])
parse_pps(rbsp) ==
  LET x[k \in 0..Len(PpsSyntax(Nothing))] ==
        IF k = 0 THEN [r |-> New(rbsp), h |-> Nothing] ELSE PpsItem(x[k - 1], k)
  IN x[Len(PpsSyntax(Nothing))]

SliceItem(x, k, sps, pps, idr, reference) ==
  IF ~x.r.ok THEN x ELSE Read(x, SliceSyntax(x.h, sps, pps, idr, reference)[k])
parse_slice_header(rbsp, sps, pps, idr, reference) ==
  LET n == Len(SliceSyntax(Nothing, sps, pps, idr, reference))
      x[k \in 0..n] ==
        IF k = 0 THEN [r |-> New(rbsp), h |-> Nothing]
        ELSE SliceItem(x[k - 1], k, sps, pps, idr, reference)
  IN x[n]
=============================================================================

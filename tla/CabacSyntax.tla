---------------------------- MODULE CabacSyntax ----------------------------
(***************************************************************************)
(* The second half of cabac.rs: how syntax elements and residual blocks    *)
(* are put together from bins, and the context variable each bin is        *)
(* decoded with.                                                           *)
(*                                                                         *)
(* b is the sequence of bins the engine goes on to deliver (CabacEngine,   *)
(* whatever is asked for).  A decoder returns its value and the context of *)
(* every bin it took: an index into state, "bypass" or "terminate".        *)
(***************************************************************************)
EXTENDS Integers, Sequences, FiniteSetsExt

Out(val, ctxs) == [val |-> val, ctxs |-> ctxs]
Inc(c) == IF c THEN 1 ELSE 0
Rest(b, n) == SubSeq(b, n + 1, Len(b))
Bypassed(n) == [k \in 1..n |-> "bypass"]

(* Ones at the front of b, at most max of them. *)
Ones(b, max) == Max({n \in 0..max : \A k \in 1..n : b[k] = 1})
Value(b, n) ==
  LET v[k \in 0..n] == IF k = 0 THEN 0 ELSE (2 * v[k - 1]) + b[k] IN v[n]

-----------------------------------------------------------------------------
(* Macroblock types *)

decode_mb_skip(b, left_skip, top_skip, is_b) ==
  Out(b[1], <<(IF is_b THEN 24 ELSE 11) + Inc(~left_skip) + Inc(~top_skip)>>)

(* From the third bin on; i is 1 in an I slice, where base is two further. *)
I16Type(b, base, i, before) ==
  IF b[4] = 0
  THEN Out(1 + (12 * b[3]) + (2 * b[5]) + b[6],
           before \o <<base + 1, base + 2, base + 3 + i, base + 3 + (2 * i)>>)
  ELSE Out(1 + (12 * b[3]) + (4 * (1 + b[5])) + (2 * b[6]) + b[7],
           before \o <<base + 1, base + 2, base + 2 + i, base + 3 + i, base + 3 + (2 * i)>>)

decode_intra_mb_type(b, ctx_base, incs, intra_slice) ==
  IF b[1] = 0 THEN Out(0, <<ctx_base + incs>>)
  ELSE IF b[2] = 1 THEN Out(25, <<ctx_base + incs, "terminate">>)
  ELSE I16Type(b, ctx_base + (2 * Inc(intra_slice)), Inc(intra_slice),
               <<ctx_base + incs, "terminate">>)

(* A type of an I slice behind a prefix. *)
Suffixed(first, ctxs, intra) == Out(first + intra.val, ctxs \o intra.ctxs)

decode_p_mb_type(b) ==
  IF b[1] = 1 THEN Suffixed(5, <<14>>, decode_intra_mb_type(Rest(b, 1), 17, 0, FALSE))
  ELSE IF b[2] = 0 THEN Out(3 * b[3], <<14, 15, 16>>)
  ELSE Out(2 - b[3], <<14, 15, 17>>)

BType(b, bits, ctxs) ==
  IF bits < 8 THEN Out(bits + 3, ctxs)
  ELSE IF bits = 13 THEN Suffixed(23, ctxs, decode_intra_mb_type(Rest(b, 6), 32, 0, FALSE))
  ELSE IF bits = 14 THEN Out(11, ctxs)
  ELSE IF bits = 15 THEN Out(22, ctxs)
  ELSE Out((2 * bits) + b[7] - 4, Append(ctxs, 32))
decode_b_mb_type(b, left_not_direct, top_not_direct) ==
  LET first == 27 + Inc(left_not_direct) + Inc(top_not_direct)
  IN IF b[1] = 0 THEN Out(0, <<first>>)
     ELSE IF b[2] = 0 THEN Out(1 + b[3], <<first, 30, 32>>)
     ELSE BType(b, Value(Rest(b, 2), 4), <<first, 30, 31, 32, 32, 32>>)

decode_p_sub_mb_type(b) ==
  IF b[1] = 1 THEN Out(0, <<21>>)
  ELSE IF b[2] = 0 THEN Out(1, <<21, 22>>)
  ELSE Out(3 - b[3], <<21, 22, 23>>)

decode_b_sub_mb_type(b) ==
  IF b[1] = 0 THEN Out(0, <<36>>)
  ELSE IF b[2] = 0 THEN Out(1 + b[3], <<36, 37, 39>>)
  ELSE IF b[3] = 0 THEN Out(3 + (2 * b[4]) + b[5], <<36, 37, 38, 39, 39>>)
  ELSE IF b[4] = 1 THEN Out(11 + b[5], <<36, 37, 38, 39, 39>>)
  ELSE Out(7 + (2 * b[5]) + b[6], <<36, 37, 38, 39, 39, 39>>)

-----------------------------------------------------------------------------
(* Prediction modes, coded block pattern, reference index, QP *)

decode_intra4x4_pred_mode(b, pred_mode) ==
  LET mode == b[2] + (2 * b[3]) + (4 * b[4])
  IN IF b[1] = 1 THEN Out(pred_mode, <<68>>)
     ELSE Out(mode + Inc(mode >= pred_mode), <<68, 69, 69, 69>>)

decode_chroma_pred_mode(b, left_mode, top_mode) ==
  LET n == Ones(b, 3)
      all == <<64 + Inc(left_mode # 0) + Inc(top_mode # 0), 67, 67>>
  IN Out(n, SubSeq(all, 1, Min({n + 1, 3})))

(* left and top are sets of 8x8 blocks. *)
decode_cbp_luma(b, left, top) ==
  LET Ctx(l, t) == 73 + Inc(~l) + (2 * Inc(~t))
  IN Out({k \in 0..3 : b[k + 1] = 1},
         <<Ctx(1 \in left, 2 \in top), Ctx(b[1] = 1, 3 \in top),
           Ctx(3 \in left, b[1] = 1),  Ctx(b[3] = 1, b[2] = 1)>>)

decode_cbp_chroma(b, left, top) ==
  LET first == 77 + Inc(left > 0) + (2 * Inc(top > 0))
  IN IF b[1] = 0 THEN Out(0, <<first>>)
     ELSE Out(1 + b[2], <<first, 81 + Inc(left = 2) + (2 * Inc(top = 2))>>)

(* The loop is left after the bin that makes the value its limit. *)
Unary(b, limit, ctxs) == Out(Ones(b, limit), SubSeq(ctxs, 1, Min({Ones(b, limit) + 1, limit})))

decode_ref_idx(b, left_ref, top_ref) ==
  Unary(b, 32, [k \in 1..33 |-> IF k = 1 THEN 54 + Inc(left_ref > 0) + (2 * Inc(top_ref > 0))
                                ELSE IF k = 2 THEN 58 ELSE 59])

(* Mutant: even and odd codes are exchanged. *)
SignOfEven(code) == IF code % 2 = 0 THEN (code + 1) \div 2 ELSE -((code + 1) \div 2)

SignOfOdd(code) == IF code % 2 = 1 THEN (code + 1) \div 2 ELSE -((code + 1) \div 2)
decode_mb_qp_delta(b, last_nonzero) ==
  LET code == Unary(b, 53, [k \in 1..54 |-> IF k = 1 THEN 60 + Inc(last_nonzero)
                                            ELSE IF k = 2 THEN 62 ELSE 63])
  IN [code EXCEPT !.val = SignOfOdd(@)]

CBF_BASE == <<85, 89, 93, 97, 101, 1012>>
decode_coded_block_flag(b, cat, left_nz, top_nz) ==
  Out(b[1], <<CBF_BASE[cat + 1] + Inc(left_nz) + (2 * Inc(top_nz))>>)

-----------------------------------------------------------------------------
(* Motion vector differences *)

(* Exponential Golomb code of order 3 behind n bins, and the sign. *)
Escape(b, n, prefix, ctxs) ==
  LET k == prefix + 3
      sum == 8 * ((2 ^ prefix) - 1)
      at == n + prefix + 1
      abs == 9 + sum + Value(Rest(b, at), k)
  IN Out(IF b[at + k + 1] = 1 THEN -abs ELSE abs, ctxs \o Bypassed(prefix + k + 2))

decode_mvd_comp(b, ctx_base, amvd) ==
  LET n    == Ones(b, 9)
      all  == <<ctx_base + (IF amvd < 3 THEN 0 ELSE IF amvd <= 32 THEN 1 ELSE 2)>>
              \o [k \in 1..8 |-> ctx_base + 2 + Min({k, 4})]
  IN IF n = 0 THEN Out(0, SubSeq(all, 1, 1))
     ELSE IF n < 9 THEN Out(IF b[n + 2] = 1 THEN -n ELSE n, SubSeq(all, 1, n + 1) \o <<"bypass">>)
     ELSE Escape(b, 9, Ones(Rest(b, 9), Len(b) - 9), all)

-----------------------------------------------------------------------------
(* decode_residual_cabac_field: a block of max_coeff places of category cat *)

SIGNIFICANT_COEFF_FLAG_OFFSET       == <<105, 120, 134, 149, 152, 402>>
SIGNIFICANT_COEFF_FLAG_FIELD_OFFSET == <<277, 292, 306, 321, 324, 436>>
LAST_COEFF_FLAG_OFFSET              == <<166, 181, 195, 210, 213, 417>>
LAST_COEFF_FLAG_FIELD_OFFSET        == <<338, 353, 367, 382, 385, 451>>
COEFF_ABS_LEVEL_M1_OFFSET           == <<227, 237, 247, 257, 266, 426>>

SIGNIFICANT_COEFF_FLAG_OFFSET_8X8 ==
  <<0, 1, 2, 3, 4, 5, 5, 4, 4, 3, 3, 4, 4, 4, 5, 5, 4, 4, 4, 4, 3, 3, 6, 7, 7, 7, 8, 9, 10, 9, 8, 7,
    7, 6, 11, 12, 13, 11, 6, 7, 8, 9, 14, 10, 9, 8, 6, 11, 12, 13, 11, 6, 9, 14, 10, 9, 11, 12, 13,
    11, 14, 10, 12>>
LAST_COEFF_FLAG_OFFSET_8X8 ==
  <<0, 1, 1, 1, 1, 1, 1, 1, 1, 1, 1, 1, 1, 1, 1, 1, 2, 2, 2, 2, 2, 2, 2, 2, 2, 2, 2, 2, 2, 2, 2, 2,
    3, 3, 3, 3, 3, 3, 3, 3, 4, 4, 4, 4, 4, 4, 4, 4, 5, 5, 5, 5, 6, 6, 6, 6, 7, 7, 7, 7, 8, 8, 8>>

SigCtx(cat, field, pos) ==
  (IF field THEN SIGNIFICANT_COEFF_FLAG_FIELD_OFFSET ELSE SIGNIFICANT_COEFF_FLAG_OFFSET)[cat + 1]
  + (IF cat = 5 THEN SIGNIFICANT_COEFF_FLAG_OFFSET_8X8[pos + 1] ELSE pos)
LastCtx(cat, field, pos) ==
  (IF field THEN LAST_COEFF_FLAG_FIELD_OFFSET ELSE LAST_COEFF_FLAG_OFFSET)[cat + 1]
  + (IF cat = 5 THEN LAST_COEFF_FLAG_OFFSET_8X8[pos + 1] ELSE pos)

(* The significance map: the places with a level, n bins later. *)
Place(b, m, pos, sig, last) ==
  IF m.done THEN m
  ELSE IF b[m.n + 1] = 0 THEN [m EXCEPT !.n = @ + 1, !.ctxs = Append(@, sig)]
  ELSE [n |-> m.n + 2, ctxs |-> m.ctxs \o <<sig, last>>,
        places |-> <<pos>> \o m.places, done |-> b[m.n + 2] = 1]

(* Mutant: the last place is counted although an earlier one was the last. *)
WithLastAlways(m, max_coeff) == [m EXCEPT !.places = <<max_coeff - 1>> \o @]

WithLast(m, max_coeff) ==
  IF m.done THEN m ELSE [m EXCEPT !.places = <<max_coeff - 1>> \o @]

SignificanceMap(b, cat, max_coeff, field) ==
  LET map[pos \in -1..max_coeff - 2] ==
        IF pos = -1 THEN [n |-> 0, ctxs |-> <<>>, places |-> <<>>, done |-> FALSE]
        ELSE Place(b, map[pos - 1], pos, SigCtx(cat, field, pos), LastCtx(cat, field, pos))
  IN WithLast(map[max_coeff - 2], max_coeff)

COEFF_ABS_LEVEL1_CTX   == <<1, 2, 3, 4, 0, 0, 0, 0>>
COEFF_ABS_LEVELGT1_CTX == <<5, 5, 5, 5, 6, 7, 8, 9>>
LEVEL_TRANSITION_1     == <<1, 2, 3, 3, 4, 5, 6, 7>>
LEVEL_TRANSITION_GT1   == <<4, 4, 4, 4, 5, 6, 7, 7>>

(* A level behind s.n bins: l records the new value, its bins and its node. *)
WithLevel(b, s, abs, ctxs, node) ==
  LET n == s.n + Len(ctxs) + 1
  IN [n |-> n, ctxs |-> s.ctxs \o ctxs \o <<"bypass">>, node |-> node,
      levels |-> <<IF b[n] = 1 THEN -abs ELSE abs>> \o s.levels]

(* Behind fourteen ones an exponential Golomb code of order 0, k ones long. *)
LongLevel(b, s, k, ctxs, node) ==
  WithLevel(b, s, 14 + (2 ^ k) + Value(Rest(b, s.n + 15 + k), k),
            ctxs \o Bypassed((2 * k) + 1), node)

GreaterLevel(b, s, ones, ctx, gt1, node) ==
  LET ctxs == <<ctx>> \o [k \in 1..Min({ones + 1, 13}) |-> gt1]
  IN IF ones < 13 THEN WithLevel(b, s, ones + 2, ctxs, node)
     ELSE LongLevel(b, s, Ones(Rest(b, s.n + 14), 23), ctxs, node)

Level(b, s, base) ==
  LET one == base + COEFF_ABS_LEVEL1_CTX[s.node + 1]
  IN IF b[s.n + 1] = 0 THEN WithLevel(b, s, 1, <<one>>, LEVEL_TRANSITION_1[s.node + 1])
     ELSE GreaterLevel(b, s, Ones(Rest(b, s.n + 1), 13), one,
                       base + COEFF_ABS_LEVELGT1_CTX[s.node + 1], LEVEL_TRANSITION_GT1[s.node + 1])

Levels(b, m, base) ==
  LET read[k \in 0..Len(m.places)] ==
        IF k = 0 THEN [n |-> m.n, ctxs |-> m.ctxs, node |-> 0, levels |-> <<>>]
        ELSE Level(b, read[k - 1], base)
  IN read[Len(m.places)]

(* Places and levels, lowest frequency first. *)
Coefficients(m, l) ==
  LET n == Len(m.places)
  IN Out([k \in 1..n |-> <<m.places[n + 1 - k], l.levels[k]>>], l.ctxs)
ReadLevels(b, m, base) == Coefficients(m, Levels(b, m, base))
decode_residual_cabac_field(b, cat, max_coeff, field) ==
  ReadLevels(b, SignificanceMap(b, cat, max_coeff, field), COEFF_ABS_LEVEL_M1_OFFSET[cat + 1])
=============================================================================

---------------------------- MODULE SliceContext ----------------------------
(***************************************************************************)
(* The state the macroblock routines work on (slice_context.rs) and the    *)
(* helpers that look at neighbouring macroblocks (neighbor.rs).            *)
(*                                                                         *)
(* A macroblock is cut into four 8x8 quadrants, numbered as the code       *)
(* numbers its 8x8 blocks:  0 1 / 2 3.  The per-4x4 arrays of the code     *)
(* hold one value per quadrant here; a chroma 4x4 block is a quadrant of   *)
(* its plane.  Sample values are recipes: what a quadrant was predicted    *)
(* from and whether a residual was added.                                  *)
(*                                                                         *)
(* A context c stands for `&mut SliceContext` with its SliceParams:        *)
(*   arr     macroblock -> what the per-macroblock arrays hold             *)
(*   field   pair -> mb_field_decoding                                     *)
(*   i, id   the macroblock being decoded, this_slice_id                   *)
(*   w, mbaff, type, numref, constrained, t8mode, weight, infer8x8,        *)
(*   spatial                                       header and PPS fields   *)
(*   qp, lastd                     prev_mb_qp, last_qp_delta_nonzero       *)
(*   used    the syntax elements read for this macroblock, with the        *)
(*           context increment or table each was read with                 *)
(*   rows    the luma rows written for this macroblock                     *)
(***************************************************************************)
EXTENDS Integers, FiniteSets, SequencesExt

Quads == 0..3
None == -1
Inc(b) == IF b THEN 1 ELSE 0
InOrder == <<0, 1, 2, 3>>

Cur(c) == c.arr[c.i]
Put(c, f, v) == [c EXCEPT !.arr[c.i][f] = v]
PutQuad(c, f, q, v) == [c EXCEPT !.arr[c.i][f][q] = v]
Read(c, e) == [c EXCEPT !.used = Append(@, e)]

(* The arrays of a new PictureState, one macroblock's share of them. *)
FreshMb ==
  [slice |-> 0, skip |-> FALSE, direct |-> FALSE, bdirect |-> {}, i16 |-> FALSE,
   luma |-> {}, chroma |-> 0, dc |-> {}, cpm |-> 0, t8 |-> FALSE,
   modes |-> [q \in Quads |-> 2],
   nz |-> [q \in Quads |-> 0], cb |-> [q \in Quads |-> 0], cr |-> [q \in Quads |-> 0],
   ref |-> [l \in 0..1 |-> [q \in Quads |-> -1]],
   mvd |-> [l \in 0..1 |-> [q \in Quads |-> 0]],
   info |-> [type |-> "Intra", qp |-> 0, t8 |-> FALSE, nnz |-> {}, lists |-> 0],
   y |-> [q \in Quads |-> [pred |-> <<"none">>, resid |-> FALSE]],
   uv |-> [q \in Quads |-> [pred |-> <<"none">>, cb |-> <<FALSE, FALSE>>,
                            cr |-> <<FALSE, FALSE>>]]]

-----------------------------------------------------------------------------
(* Neighbouring macroblocks *)

FieldMb(c) == c.mbaff /\ c.field[c.i \div 2]

(* Mutant: the slice of the macroblock above is not looked at. *)
AboveMbAnySlice(c, i) ==
  LET pair == i \div 2
      above == IF ~c.mbaff THEN i - c.w
               ELSE IF i % 2 = 1 /\ ~c.field[pair] THEN i - 1
               ELSE (pair - c.w) * 2 + 1
  IN IF above < 0 THEN None ELSE above

(* Mutant: the bottom macroblock of a frame pair looks at the pair above. *)
AboveMbSkipsPair(c, i) ==
  LET above == IF ~c.mbaff THEN i - c.w ELSE (i \div 2 - c.w) * 2 + 1
  IN IF above < 0 \/ c.arr[above].slice # c.id THEN None ELSE above

LeftMb(c, i) ==
  LET left == IF ~c.mbaff THEN i - 1 ELSE (i \div 2 - 1) * 2 + (i % 2)
      col  == IF ~c.mbaff THEN i % c.w ELSE (i \div 2) % c.w
  IN IF col = 0 \/ c.arr[left].slice # c.id THEN None ELSE left

AboveMb(c, i) ==
  LET pair == i \div 2
      above == IF ~c.mbaff THEN i - c.w
               ELSE IF i % 2 = 1 /\ ~c.field[pair] THEN i - 1
               ELSE (pair - c.w) * 2 + 1
  IN IF above < 0 \/ c.arr[above].slice # c.id THEN None ELSE above

(* `if let Some(left) = self.left_mb(mb_idx) { array[left] } else { d }` *)
ReadOr(c, n, f, d) == IF n = None THEN d ELSE c.arr[n][f]
LeftOr(c, f, d)  == ReadOr(c, LeftMb(c, c.i), f, d)
AboveOr(c, f, d) == ReadOr(c, AboveMb(c, c.i), f, d)

(* The helpers of neighbor.rs take the arrays and not the context, and each *)
(* works the neighbours out again: by the picture's edges first, by the     *)
(* slice only when the neighbour is read.                                   *)
PlainLeft(c) ==
  IF ~c.mbaff THEN IF c.i % c.w = 0 THEN None ELSE c.i - 1
  ELSE IF (c.i \div 2) % c.w = 0 THEN None ELSE (c.i \div 2 - 1) * 2 + (c.i % 2)

PlainAbove(c) ==
  LET pair == c.i \div 2
      has == IF ~c.mbaff THEN c.i >= c.w
             ELSE IF c.field[pair] THEN pair >= c.w
             ELSE c.i % 2 = 1 \/ pair >= c.w
  IN IF ~has THEN None
     ELSE IF ~c.mbaff THEN c.i - c.w
     ELSE IF c.i % 2 = 1 /\ ~c.field[pair] THEN c.i - 1
     ELSE (pair - c.w) * 2 + 1

(* <<macroblock, quadrant>> to the left of and above quadrant q. *)
LeftOf(c, q)  == IF q \in {1, 3} THEN <<c.i, q - 1>> ELSE <<PlainLeft(c), q + 1>>
AboveOf(c, q) == IF q \in {2, 3} THEN <<c.i, q - 2>> ELSE <<PlainAbove(c), q + 2>>
Outside(c, n) == n[1] = None \/ c.arr[n[1]].slice # c.id

(* Mutant: the neighbour's slice is not compared. *)
MvdAcrossSlices(c, l, q) ==
  LET D(n) == IF n[1] = None THEN 0 ELSE c.arr[n[1]].mvd[l][n[2]]
  IN D(LeftOf(c, q)) + D(AboveOf(c, q))

cabac_amvd(c, l, q) ==
  LET D(n) == IF Outside(c, n) THEN 0 ELSE c.arr[n[1]].mvd[l][n[2]]
  IN D(LeftOf(c, q)) + D(AboveOf(c, q))

(* Mutant: a direct block answers with the index it derived. *)
DirectKeepsRef(c, l, q) ==
  LET R(n) == IF Outside(c, n) THEN -1 ELSE c.arr[n[1]].ref[l][n[2]]
  IN <<R(LeftOf(c, q)), R(AboveOf(c, q))>>

cabac_neighbor_ref(c, l, q) ==
  LET R(n) == IF Outside(c, n) THEN -1
              ELSE IF c.type = "B" /\ n[2] \in c.arr[n[1]].bdirect THEN 0
              ELSE c.arr[n[1]].ref[l][n[2]]
  IN <<R(LeftOf(c, q)), R(AboveOf(c, q))>>

cabac_neighbor_nz_luma(c, n, intra) ==
  IF Outside(c, n) THEN intra ELSE c.arr[n[1]].nz[n[2]] > 0

cabac_neighbor_nz_chroma(c, plane, n, intra) ==
  IF Outside(c, n) THEN intra ELSE c.arr[n[1]][plane][n[2]] > 0

(* Average of the two counts, the one there is, or zero. *)
compute_nc(c, plane, q) ==
  LET N(n) == c.arr[n[1]][plane][n[2]]
      Average(a, b) == IF Outside(c, a) THEN IF Outside(c, b) THEN 0 ELSE N(b)
                       ELSE IF Outside(c, b) THEN N(a) ELSE (N(a) + N(b) + 1) \div 2
  IN Average(LeftOf(c, q), AboveOf(c, q))

-----------------------------------------------------------------------------
(* Intra prediction *)

is_intra_neighbor_avail(c, n) ==
  \/ ~c.constrained \/ c.type = "I"
  \/ c.arr[n].info.type \in {"Intra", "Ipcm"}

(* `None` where the neighbour is out of the slice, or inter-predicted under *)
(* constrained_intra_pred_flag: then the predicted mode is DC.              *)
get_neighbor_i4x4_mode(c, n) ==
  IF n[1] = c.i THEN Cur(c).modes[n[2]]
  ELSE IF Outside(c, n) \/ ~is_intra_neighbor_avail(c, n[1]) THEN None
  ELSE c.arr[n[1]].modes[n[2]]

predict_i4x4_mode(c, q) ==
  LET Least(a, b) == IF a = None \/ b = None THEN 2 ELSE IF a < b THEN a ELSE b
  IN Least(get_neighbor_i4x4_mode(c, LeftOf(c, q)), get_neighbor_i4x4_mode(c, AboveOf(c, q)))

(* The macroblocks intra prediction may read samples of: left A, above B,  *)
(* above-right C, above-left D.                                            *)
IntraSides(c) ==
  LET Ok(n) == n # None /\ is_intra_neighbor_avail(c, n)
      above == AboveMb(c, c.i)
      right ==
        IF ~c.mbaff
        THEN c.i >= c.w /\ (c.i % c.w) + 1 < c.w
             /\ c.arr[c.i - c.w + 1].slice = c.id
             /\ is_intra_neighbor_avail(c, c.i - c.w + 1)
        ELSE c.i % 2 = 0 /\ above # None
             /\ ((above \div 2) % c.w) + 1 < c.w
             /\ LET ar == (above \div 2 + 1) * 2 + (above % 2)
                IN c.arr[ar].slice = c.id /\ is_intra_neighbor_avail(c, ar)
  IN {s \in {"A", "B", "C", "D"} :
        CASE s = "A" -> Ok(LeftMb(c, c.i))
          [] s = "B" -> Ok(above)
          [] s = "C" -> right
          [] s = "D" -> above # None /\ Ok(LeftMb(c, above))}

(* Which neighbouring samples an 8x8 block is predicted from. *)
Sides8x8(q, mb) ==
  LET row == q \div 2
      col == q % 2
      b == row = 1 \/ "B" \in mb
  IN {s \in {"A", "B", "C", "D"} :
        CASE s = "A" -> col = 1 \/ "A" \in mb
          [] s = "B" -> b
          [] s = "C" -> b /\ IF row = 0 THEN col = 0 \/ "C" \in mb ELSE col = 0
          [] s = "D" -> \/ row = 1 /\ col = 1
                        \/ row = 1 /\ col = 0 /\ "A" \in mb
                        \/ row = 0 /\ col = 1 /\ "B" \in mb
                        \/ row = 0 /\ col = 0 /\ "D" \in mb}

(* The same for the 4x4 block at row r, column k of the macroblock. *)
Sides4x4(r, k, mb) ==
  LET blk == 8 * (r \div 2) + 4 * (k \div 2) + 2 * (r % 2) + (k % 2)
      b == r > 0 \/ "B" \in mb
  IN {s \in {"A", "B", "C", "D"} :
        CASE s = "A" -> k > 0 \/ "A" \in mb
          [] s = "B" -> b
          [] s = "C" -> b /\ IF r = 0 THEN k < 3 \/ "C" \in mb
                             ELSE blk \notin {3, 7, 11, 13, 15}
          [] s = "D" -> \/ r > 0 /\ k > 0
                        \/ r > 0 /\ k = 0 /\ "A" \in mb
                        \/ r = 0 /\ k > 0 /\ "B" \in mb
                        \/ r = 0 /\ k = 0 /\ "D" \in mb}

reconstruct_luma_8x8_block(c, q, mode, resid, mb) ==
  PutQuad(c, "y", q, [pred |-> <<"8x8", mode, Sides8x8(q, mb)>>, resid |-> resid])

reconstruct_luma_4x4_block(c, q, mode, resid, mb) ==
  PutQuad(c, "y", q,
    [pred |-> <<"4x4", mode, [p \in {0, 1} \X {0, 1} |->
        Sides4x4(2 * (q \div 2) + p[1], 2 * (q % 2) + p[2], mb)]>>,
     resid |-> resid])

(* The DC levels reach every quadrant, the AC levels of resid their own. *)
reconstruct_luma_16x16(c, dc, resid, mb) ==
  Put(c, "y", [q \in Quads |->
    [pred |-> <<"16x16", mb \ {"C"}>>, resid |-> dc \/ q \in resid]])

predict_chroma_intra(c, mode, mb) ==
  Put(c, "uv", [q \in Quads |-> [Cur(c).uv[q] EXCEPT !.pred = <<"chroma", mode, mb \ {"C"}>>]])

(* Adds the residual of a plane: DC levels, AC levels of the quadrant. *)
reconstruct_chroma_plane(c, plane, dc, ac) ==
  Put(c, "uv", [q \in Quads |->
    [Cur(c).uv[q] EXCEPT ![plane] = <<plane \in dc, ac[q] > 0>>]])

-----------------------------------------------------------------------------
(* Layout, references *)

(* Rows of the picture that the macroblock's samples are written to. *)
set_mb_layout(c) ==
  LET pair == ((c.i \div 2) \div c.w) * 32
      y == IF c.mbaff THEN pair + (c.i % 2) * 16 ELSE (c.i \div c.w) * 16
  IN [c EXCEPT !.rows =
        IF FieldMb(c) THEN {pair + (c.i % 2) + 2 * k : k \in 0..15} ELSE y..(y + 15)]

frame_ref_idx(c, r) == IF FieldMb(c) THEN r \div 2 ELSE r
effective_num_ref(c, l) ==
  IF FieldMb(c) THEN IF c.numref[l] * 2 > 32 THEN 32 ELSE c.numref[l] * 2 ELSE c.numref[l]

(* ref_pic_safe clamps the index to the list; the field read is the one of *)
(* the parity mc_params selects.                                           *)
ref_pic_safe(c, l, r) == IF r >= c.numref[l] THEN c.numref[l] - 1 ELSE r
mc_params(c, r) ==
  IF ~FieldMb(c) THEN "frame"
  ELSE IF (c.i % 2 = 1) # (r % 2 = 1) THEN "bottom" ELSE "top"
RefPic(c, l, r) == <<ref_pic_safe(c, l, frame_ref_idx(c, r)), mc_params(c, r)>>

(* One quadrant predicted from r0 and r1 (-1 for a list not used).  The     *)
(* weights are looked up by the index as it was decoded: entry r of the     *)
(* explicit table, entry <<r0, r1>> of the implicit one, or none.           *)
apply_uni(c, l, r) == IF c.weight = 1 /\ r < c.numref[l] THEN <<r>> ELSE <<>>
apply_bi(c, r0, r1) ==
  IF c.weight > 0 /\ r0 < c.numref[0] /\ r1 < c.numref[1] THEN <<r0, r1>> ELSE <<>>

Uni(c, l, r) == <<"uni", l, RefPic(c, l, r), apply_uni(c, l, r)>>
Bi(c, r0, r1) == <<"bi", RefPic(c, 0, r0), RefPic(c, 1, r1), apply_bi(c, r0, r1)>>
Predict(c, r0, r1) ==
  IF r0 >= 0 /\ r1 >= 0 THEN Bi(c, r0, r1)
  ELSE IF r0 >= 0 THEN Uni(c, 0, r0) ELSE Uni(c, 1, r1)

(* Writes the prediction of the quadrants qs into a plane group. *)
PutPred(c, f, qs, p) ==
  Put(c, f, [q \in Quads |-> IF q \in qs THEN [Cur(c)[f][q] EXCEPT !.pred = p] ELSE Cur(c)[f][q]])

SetQuads(f, qs, v) == [q \in Quads |-> IF q \in qs THEN v ELSE f[q]]
PutRef(c, l, qs, r) ==
  Put(c, "ref", [Cur(c).ref EXCEPT ![l] = SetQuads(@, qs, r)])
PutMvd(c, l, qs, d) ==
  Put(c, "mvd", [Cur(c).mvd EXCEPT ![l] = SetQuads(@, qs, d)])

-----------------------------------------------------------------------------
(* Skipped and direct macroblocks *)

PutBoth(c, qs, p) == PutPred(PutPred(c, "y", qs, p), "uv", qs, p)
decode_p_skip_mb(c) == PutRef(PutBoth(c, Quads, Predict(c, 0, -1)), 0, Quads, 0)

(* The references the quadrants qs derive (d: quadrant -> <<r0, r1>>, from  *)
(* the neighbours or the co-located picture: module MvPred) go to both     *)
(* stores.                                                                 *)
derive_direct_mvs(c, qs, d) ==
  Put(c, "ref", [l \in 0..1 |->
    [q \in Quads |-> IF q \in qs THEN d[q][l + 1] ELSE Cur(c).ref[l][q]]])

(* The skip path indexes the lists with the stored index itself. *)
PredictUnscaled(c, r0, r1) ==
  LET Pic(l, r) == <<ref_pic_safe(c, l, r), mc_params(c, r)>>
      One(l, r) == <<"uni", l, Pic(l, r), apply_uni(c, l, r)>>
  IN IF r0 >= 0 /\ r1 >= 0 THEN <<"bi", Pic(0, r0), Pic(1, r1), apply_bi(c, r0, r1)>>
     ELSE IF r0 >= 0 THEN One(0, r0) ELSE One(1, r1)

(* One prediction of the whole macroblock when all its blocks agree. *)
UniformBSkip(c) ==
  \A q \in Quads, l \in 0..1 : Cur(c).ref[l][q] = Cur(c).ref[l][0]
try_decode_uniform_b_skip_mb(c) ==
  PutBoth(c, Quads, PredictUnscaled(c, Cur(c).ref[0][0], Cur(c).ref[1][0]))

PredictBSkip(c) ==
  LET Blk(k, q) == PutBoth(k, {q}, PredictUnscaled(k, Cur(k).ref[0][q], Cur(k).ref[1][q]))
  IN IF UniformBSkip(c) THEN try_decode_uniform_b_skip_mb(c) ELSE FoldLeft(Blk, c, InOrder)
decode_b_skip_mb(c, d) ==
  Put(Put(PredictBSkip(derive_direct_mvs(c, Quads, d)), "direct", TRUE), "bdirect", Quads)

SetInfo(c, type, qp) ==
  Put(c, "info", [type |-> type, qp |-> qp, t8 |-> FALSE, nnz |-> {}, lists |-> 0])

(* finalize_mb_info, for the macroblocks first..last of the slice. *)
finalize_mb_info(c, mbs) ==
  [c EXCEPT !.arr = [i \in DOMAIN @ |->
     IF i \notin mbs THEN @[i]
     ELSE [@[i] EXCEPT !.info.t8 = c.arr[i].t8,
                       !.info.nnz = {q \in Quads : c.arr[i].nz[q] > 0},
                       !.info.lists = IF c.type = "B" THEN 2 ELSE IF c.type = "P" THEN 1 ELSE 0]]]

-----------------------------------------------------------------------------
(* Which edges the deblocking filter works on and how strongly             *)
(* (filter_frame_inner and derive_bs, deblock.rs), from the MbInfo records *)
(* finalize_mb_info leaves behind.  Edges are those of quadrants: edges 0  *)
(* and 2 of the code lie between quadrants, 1 and 3 inside one.            *)

IntraInfo(info) == info.type \in {"Intra", "Ipcm"}

(* Mutant: an edge inside a macroblock counts as a macroblock edge. *)
StrongInside(c, p, q) ==
  LET info(n) == c.arr[n[1]].info
  IN IF IntraInfo(info(p)) \/ IntraInfo(info(q)) THEN "4"
     ELSE IF p[2] \in info(p).nnz \/ q[2] \in info(q).nnz THEN "2" ELSE "motion"

(* p, q: <<macroblock, quadrant>> on either side of the edge; "motion":     *)
(* check_mv_diff decides between 1 and 0.                                  *)
derive_bs(c, p, q) ==
  LET info(n) == c.arr[n[1]].info
  IN IF IntraInfo(info(p)) \/ IntraInfo(info(q)) THEN IF p[1] # q[1] THEN "4" ELSE "3"
     ELSE IF p[2] \in info(p).nnz \/ q[2] \in info(q).nnz THEN "2" ELSE "motion"

(* The neighbour's place, by address and whatever the slice. *)
filter_left(c, i) ==
  LET col == IF c.mbaff THEN (i \div 2) % c.w ELSE i % c.w
  IN IF col = 0 THEN None ELSE IF c.mbaff THEN (i \div 2 - 1) * 2 + (i % 2) ELSE i - 1

filter_above(c, i) ==
  IF c.mbaff
  THEN IF i % 2 = 1 THEN i - 1
       ELSE IF i \div 2 < c.w THEN None ELSE (i \div 2 - c.w) * 2 + 1
  ELSE IF i < c.w THEN None ELSE i - c.w

vertical_edge(c, i, q) ==
  IF q \in {1, 3} THEN derive_bs(c, <<i, q - 1>>, <<i, q>>)
  ELSE IF filter_left(c, i) = None THEN "none" ELSE derive_bs(c, <<filter_left(c, i), q + 1>>, <<i, q>>)

horizontal_edge(c, i, q) ==
  IF q \in {2, 3} THEN derive_bs(c, <<i, q - 2>>, <<i, q>>)
  ELSE IF filter_above(c, i) = None THEN "none" ELSE derive_bs(c, <<filter_above(c, i), q + 2>>, <<i, q>>)

(* Edges 1 and 3, skipped for an 8x8 transform. *)
inner_edges(c, i, q) ==
  IF c.arr[i].info.t8 THEN "none" ELSE derive_bs(c, <<i, q>>, <<i, q>>)
=============================================================================

------------------------------ MODULE MvLayer ------------------------------
(***************************************************************************)
(* The motion of one picture: macroblock after macroblock the vectors are  *)
(* predicted, the differences added and both stores written, in the order  *)
(* decode_cabac_mb and decode_cavlc_mb do it; at the end the deblocking    *)
(* filter compares neighbouring blocks.                                    *)
(***************************************************************************)
EXTENDS MvPred, SequencesExt

CONSTANTS
  TotalMbs,   \* macroblocks of the picture
  MaxSlices,
  Headers     \* sequence of records: w, mbaff, fields, type, early (the CABAC
              \* order of storing), spatial, infer8x8, col, longTerm (the
              \* co-located picture is a long-term reference), colPoc, poc
              \* (both lists), current, menu

Mbs == 0..(TotalMbs - 1)
Blocks == (0..3) \X (0..3)

VARIABLES
  m,        \* the stores and what the neighbour functions look at
  hdr,      \* the header, by its place in Headers
  phase,    \* "slice" or "done"
  hist      \* macroblock -> its partitions with their vectors (not in the code)

vars == <<m, hdr, phase, hist>>
Hdr == Headers[hdr]
S == INSTANCE MvStandard

-----------------------------------------------------------------------------

FreshCell == [mv |-> Zero, ref |-> -1]
Init ==
  /\ hdr \in DOMAIN Headers
  /\ m = [cell |-> [l \in 0..1 |-> [i \in Mbs |-> [b \in Blocks |-> FreshCell]]],
          slice |-> [i \in Mbs |-> 0], field |-> [p \in 0..(TotalMbs \div 2) |-> FALSE],
          i |-> 0, id |-> 0, w |-> Hdr.w, mbaff |-> Hdr.mbaff]
  /\ phase = "slice"
  /\ hist = <<>>

Inside(rect) == {b \in Blocks : /\ b[1] \in rect[1]..(rect[1] + rect[3] - 1)
                                /\ b[2] \in rect[2]..(rect[2] + rect[4] - 1)}
PutMv(k, l, rect, mv) ==
  [k EXCEPT !.cell[l][k.i] = [b \in Blocks |-> IF b \in Inside(rect) THEN [@[b] EXCEPT !.mv = mv] ELSE @[b]]]
PutRefs(k, l, rect, ref) ==
  [k EXCEPT !.cell[l][k.i] = [b \in Blocks |-> IF b \in Inside(rect) THEN [@[b] EXCEPT !.ref = ref] ELSE @[b]]]

PredictPart(k, l, p) ==
  IF p.shape = "sub" THEN predict_mv_sub(k, l, p.rect[1], p.rect[2], p.rect[3], p.ref[l + 1])
  ELSE predict_mv(k, l, p.shape, p.part, p.ref[l + 1])

Add(mv, d) == <<mv[1] + d[1], mv[2] + d[2]>>

(* Mutant: the list a partition does not use gets a vector as well. *)
VectorOfUnusedList(k, l, p) ==
  IF p.direct THEN k
  ELSE PutRefs(PutMv(k, l, p.rect, Add(PredictPart(k, l, p), p.mvd[l + 1])), l, p.rect, p.ref[l + 1])

OneVector(k, l, p) ==
  IF p.direct \/ p.ref[l + 1] < 0 THEN k
  ELSE PutRefs(PutMv(k, l, p.rect, Add(PredictPart(k, l, p), p.mvd[l + 1])), l, p.rect, p.ref[l + 1])

DirectBlock(k, x, y) ==
  IF Hdr.spatial THEN derive_spatial_direct_blk(k, Hdr.col, x, y, Hdr.infer8x8)
  ELSE derive_temporal_direct_blk(Hdr.col, Hdr.poc[1], Hdr.current, Hdr.colPoc, x, y, Hdr.infer8x8)

(* derive_direct_mvs: with the inference flag once for an 8x8 block. *)
DirectPart(k, p) ==
  LET Store(n, l, d) == PutRefs(PutMv(n, l, p.rect, d.mv[l]), l, p.rect, d.ref[l])
      StoreBoth(d) == Store(Store(k, 0, d), 1, d)
  IN IF p.direct THEN StoreBoth(DirectBlock(k, p.rect[1], p.rect[2])) ELSE k

(* Indices first, then the direct blocks, then the vectors of list 0 and    *)
(* those of list 1.  CABAC stores the indices at once, CAVLC only those of  *)
(* B_8x8; its other partitions store an index with their vector.           *)
DecodeMotion(k, y) ==
  LET early == Hdr.early \/ (Hdr.type = "B" /\ \E n \in DOMAIN y.parts : y.parts[n].shape = "sub")
      Ref(n, p) == IF p.direct THEN n ELSE PutRefs(PutRefs(n, 0, p.rect, p.ref[1]), 1, p.rect, p.ref[2])
      V0(n, p) == OneVector(n, 0, p)
      V1(n, p) == OneVector(n, 1, p)
      k1 == IF early THEN FoldLeft(Ref, k, y.parts) ELSE k
      k2 == FoldLeft(DirectPart, k1, y.parts)
  IN FoldLeft(V1, FoldLeft(V0, k2, y.parts), y.parts)

DecodePSkip(k, y) ==
  PutRefs(PutMv(k, 0, <<0, 0, 4, 4>>, predict_mv_skip(k)), 0, <<0, 0, 4, 4>>, 0)

Decoded(k, y) ==
  CASE y.kind = "Intra" -> k
    [] y.kind = "Skip" /\ Hdr.type = "P" -> DecodePSkip(k, y)
    [] OTHER -> DecodeMotion(k, y)

(* The partitions with the references and vectors now in the stores. *)
WithVectors(k, y) ==
  [n \in DOMAIN y.parts |->
     LET b == <<y.parts[n].rect[1], y.parts[n].rect[2]>>
     IN [y.parts[n] EXCEPT !.ref = [l \in 1..2 |-> k.cell[l - 1][k.i][b].ref],
                           !.mv  = [l \in 1..2 |-> k.cell[l - 1][k.i][b].mv]]]

DecodeMb(y) ==
  /\ phase = "slice" /\ m.i < TotalMbs
  /\ \E k \in {Decoded([m EXCEPT !.slice[m.i] = m.id, !.field[m.i \div 2] = Hdr.fields], y)} :
       /\ m' = [k EXCEPT !.i = @ + 1]
       /\ hist' = [i \in DOMAIN hist \cup {m.i} |->
                     IF i = m.i THEN [kind |-> y.kind, slice |-> m.id, parts |-> WithVectors(k, y)]
                     ELSE hist[i]]
  /\ UNCHANGED <<hdr, phase>>

NextSlice ==
  /\ phase = "slice" /\ m.i \in 1..(TotalMbs - 1) /\ m.id + 1 < MaxSlices
  /\ m.mbaff => m.i % 2 = 0
  /\ hist[m.i - 1].slice = m.id
  /\ m' = [m EXCEPT !.id = @ + 1]
  /\ UNCHANGED <<hdr, phase, hist>>

PictureDone == phase = "slice" /\ m.i = TotalMbs /\ phase' = "done" /\ UNCHANGED <<m, hdr, hist>>

Next ==
  \/ \E y \in Hdr.menu : DecodeMb(y)
  \/ NextSlice
  \/ PictureDone
  \/ phase = "done" /\ UNCHANGED vars

Spec == Init /\ [][Next]_vars

-----------------------------------------------------------------------------
(* Properties *)

(* A block without a reference in a list has the zero vector there: the     *)
(* medians of later blocks take it as it is (8.4.1.3.2).                   *)
TypeOK ==
  /\ phase \in {"slice", "done"} /\ m.i \in 0..TotalMbs /\ m.id \in 0..(MaxSlices - 1)
  /\ DOMAIN hist = 0..(m.i - 1)
  /\ \A l \in 0..1, i \in Mbs, b \in Blocks :
       LET n == m.cell[l][i][b] IN n.ref \in -1..31 /\ (n.ref < 0 => n.mv = Zero)

(* Where the code is known to differ (README, 6): the macroblock above a    *)
(* bottom field macroblock; a co-located block predicted from list 1 only.  *)
(* It does not look at longTerm, which is FALSE in MCMvLayer.              *)
BottomField(i) == Hdr.fields /\ i % 2 = 1
ColocatedList1(p) ==
  ~Hdr.spatial /\ Hdr.col # <<>> /\ Hdr.col[effective_blk(p.rect[1], p.rect[2], Hdr.infer8x8)].ref[0] < 0

JustDecoded == IF phase = "done" \/ m.i = 0 THEN {} ELSE {m.i - 1}

(* Each vector is the prediction of 8.4.1.3 from the partitions around it,  *)
(* in whatever order the stores were filled, plus the difference: the       *)
(* neighbour functions of mv_pred.rs and predict_mv, predict_mv_sub,        *)
(* predict_mv_skip.                                                        *)
VectorsFollowStandard ==
  \A i \in JustDecoded : ~BottomField(i) /\ hist[i].kind # "Intra" =>
    \A n \in DOMAIN hist[i].parts :
      LET p == hist[i].parts[n]
      IN \A l \in 0..1 : ~p.direct /\ p.ref[l + 1] >= 0 =>
           p.mv[l + 1] = IF hist[i].kind = "Skip" THEN S!PSkipVector(Hdr, hist, i)
                         ELSE Add(S!Predicted(Hdr, hist, i, n, l), p.mvd[l + 1])

(* A direct block gets the references and vectors of 8.4.1.2, from the      *)
(* neighbours of the macroblock or from the co-located picture, whatever    *)
(* has been written for other blocks of the macroblock before it           *)
(* (derive_direct_mvs).                                                    *)
DirectFollowsStandard ==
  \A i \in JustDecoded : ~BottomField(i) =>
    \A n \in DOMAIN hist[i].parts :
      LET p == hist[i].parts[n]
      IN p.direct /\ ~ColocatedList1(p) =>
           IF Hdr.spatial
           THEN [ref |-> p.ref, mv |-> p.mv]
                  = S!SpatialDirect(Hdr, hist, i, p.rect[1], p.rect[2], Hdr.col, Hdr.infer8x8)
           ELSE S!TemporalDirect(p, p.rect[1], p.rect[2], Hdr.col, Hdr.infer8x8,
                                 Hdr.poc[1], Hdr.current, Hdr.colPoc)

(* The block of a part as finalize_mb_info hands it to the filter. *)
Info(p) ==
  [ref |-> [l \in 0..1 |-> p.ref[l + 1]], mv |-> [l \in 0..1 |-> p.mv[l + 1]],
   poc |-> [l \in 0..1 |-> IF p.ref[l + 1] >= 0 THEN Hdr.poc[l + 1][p.ref[l + 1] + 1] ELSE -1]]

(* Two inter-predicted partitions count as moving differently (bS 1) just   *)
(* when pictures or vectors differ as 8.7.2.1 says, whichever list and      *)
(* index they come from (check_mv_diff).                                   *)
MotionEdgesFollowStandard ==
  \A i \in JustDecoded : \A j \in {k \in DOMAIN hist : k >= i - 1} :
    \A p \in {hist[i].parts[n] : n \in DOMAIN hist[i].parts},
       q \in {hist[j].parts[n] : n \in DOMAIN hist[j].parts} :
      check_mv_diff(Info(p), Info(q), IF Hdr.type = "B" THEN 2 ELSE 1)
        = S!MotionDiffers(p, q, Hdr.poc)
=============================================================================

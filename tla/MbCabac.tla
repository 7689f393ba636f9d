------------------------------ MODULE MbCabac ------------------------------
(***************************************************************************)
(* decode_cabac_mb (decode_cabac.rs): what one macroblock of a CABAC slice *)
(* reads, in which order and with which contexts, and what it writes.      *)
(*                                                                         *)
(* The routine holds the residual and intra code several times over (intra *)
(* in a P or B slice, P, B, intra slice); every copy has its operator here *)
(* so that each can be compared with the standard and with the others.     *)
(*                                                                         *)
(* x is the macroblock's syntax, already binarised (module MbSyntax).      *)
(* Elements read are logged as <<name, where, increment>>.                 *)
(***************************************************************************)
EXTENDS SliceContext, MbSyntax

Incs(l, t) == Inc(l) + 2 * Inc(t)

-----------------------------------------------------------------------------
(* Pieces the copies share *)

decode_mbaff_field_flag(c, x) ==
  LET pair == c.i \div 2
      a == pair % c.w > 0 /\ c.field[pair - 1]
      b == pair >= c.w /\ c.field[pair - c.w]
  IN Read([c EXCEPT !.field[pair] = x.field], <<"field_flag", Inc(a) + Inc(b)>>)

(* transform_size_8x8_flag, and mb_is_8x8dct. *)
Transform8x8(c, x, present) ==
  IF present
  THEN Put(Read(c, <<"t8", Inc(LeftOr(c, "t8", FALSE)) + Inc(AboveOr(c, "t8", FALSE))>>),
           "t8", x.t8)
  ELSE Put(c, "t8", FALSE)

(* The four (or sixteen) intra modes, each read against its predicted mode. *)
PredModes(c, x) ==
  LET One(k, q) == PutQuad(Read(k, <<"pred_mode", q, predict_i4x4_mode(k, q)>>),
                           "modes", q, x.modes[q])
  IN FoldLeft(One, c, InOrder)

ChromaMode(c, x) ==
  LET inc == Inc(LeftOr(c, "cpm", 0) # 0) + Inc(AboveOr(c, "cpm", 0) # 0)
  IN Put(Read(c, <<"chroma_mode", inc>>), "cpm", x.cpm)

(* Mutant: the left macroblock's right column is confused with its left. *)
CbpLeftColumn(c, x) ==
  LET left == LeftOr(c, "luma", Quads)
      top  == AboveOr(c, "luma", Quads)
      L(q) == IF q \in {1, 3} THEN q - 1 \in x.luma ELSE q \in left
      T(q) == IF q \in {2, 3} THEN q - 2 \in x.luma ELSE q + 2 \in top
      luma == [q \in 1..4 |-> <<"cbp_luma", q - 1, Incs(~L(q - 1), ~T(q - 1))>>]
  IN Put(Put([c EXCEPT !.used = @ \o luma], "luma", x.luma), "chroma", x.chroma)

(* cabac_cbp_context, decode_cbp_luma, decode_cbp_chroma. *)
CodedBlockPattern(c, x) ==
  LET left == LeftOr(c, "luma", Quads)
      top  == AboveOr(c, "luma", Quads)
      L(q) == IF q \in {1, 3} THEN q - 1 \in x.luma ELSE q + 1 \in left
      T(q) == IF q \in {2, 3} THEN q - 2 \in x.luma ELSE q + 2 \in top
      lc   == LeftOr(c, "chroma", 0)
      tc   == AboveOr(c, "chroma", 0)
      luma == [q \in 1..4 |-> <<"cbp_luma", q - 1, Incs(~L(q - 1), ~T(q - 1))>>]
      chroma == <<<<"cbp_chroma", 0, Incs(lc > 0, tc > 0)>>>>
                \o IF x.chroma = 0 THEN <<>> ELSE <<<<"cbp_chroma", 1, 4 + Incs(lc = 2, tc = 2)>>>>
  IN Put(Put([c EXCEPT !.used = @ \o luma \o chroma], "luma", x.luma), "chroma", x.chroma)

(* Mutant: the sum is not brought back into 0..51. *)
QpDeltaUnwrapped(c, x) ==
  [Read(c, <<"qp_delta", Inc(c.lastd)>>) EXCEPT !.qp = c.qp + x.delta, !.lastd = x.delta # 0]

QpDelta(c, x) ==
  LET qp == (((c.qp + x.delta + 52) % 52) + 52) % 52
  IN [Read(c, <<"qp_delta", Inc(c.lastd)>>) EXCEPT !.qp = qp, !.lastd = x.delta # 0]

(* mb_qp_delta is read when a coefficient may follow. *)
Qp(c, x) ==
  IF x.luma # {} \/ x.chroma # 0 THEN QpDelta(c, x) ELSE [c EXCEPT !.lastd = FALSE]

(* A block without levels keeps the count it had. *)
PutLevels(c, f, q, n) == IF n > 0 THEN PutQuad(c, f, q, n) ELSE c

(* A 4x4 luma block: coded_block_flag with category name, then its levels. *)
LumaBlock(c, x, q, cat, intra) ==
  PutLevels(Read(c, <<cat, q, Incs(cabac_neighbor_nz_luma(c, LeftOf(c, q), intra),
                                   cabac_neighbor_nz_luma(c, AboveOf(c, q), intra))>>),
            "nz", q, x.nz[q])

(* An 8x8 block has no flag; its count is spread over its four blocks. *)
Luma8x8(c, x, q) == PutQuad(c, "nz", q, (x.nz[q] + 3) \div 4)

DcCoded(c, n, plane, intra) == IF n = None THEN intra ELSE plane \in c.arr[n].dc
PutDc(c, x, plane) == IF plane \in x.dc THEN Put(c, "dc", Cur(c).dc \cup {plane}) ELSE c
DcFlag(c, x, plane, intra) ==
  PutDc(Read(c, <<"cbf_dc", plane, Incs(DcCoded(c, LeftMb(c, c.i), plane, intra),
                                        DcCoded(c, AboveMb(c, c.i), plane, intra))>>), x, plane)

AcBlock(c, x, plane, q, intra) ==
  PutLevels(Read(c, <<"cbf_ac", plane, q, Incs(cabac_neighbor_nz_chroma(c, plane, LeftOf(c, q), intra),
                                               cabac_neighbor_nz_chroma(c, plane, AboveOf(c, q), intra))>>),
            plane, q, x[plane][q])

AcPlane(c, x, plane, intra) ==
  FoldLeft(LAMBDA k, q : AcBlock(k, x, plane, q, intra), c, InOrder)

Residual(x, q) == q \in x.luma /\ x.nz[q] > 0

AddLuma(c, x) ==
  Put(c, "y", [q \in Quads |-> [Cur(c).y[q] EXCEPT !.resid = Residual(x, q)]])

InLuma(x) == SelectSeq(InOrder, LAMBDA q : q \in x.luma)

(* Flags and levels of the chroma blocks. *)
ChromaDc(c, x, intra) ==
  IF x.chroma = 0 THEN c ELSE DcFlag(DcFlag(c, x, "cb", intra), x, "cr", intra)
ChromaAc(c, x, intra) ==
  IF x.chroma < 2 THEN c ELSE AcPlane(AcPlane(c, x, "cb", intra), x, "cr", intra)
ChromaBlocks(c, x, intra) == ChromaAc(ChromaDc(c, x, intra), x, intra)

AddChroma(c, x) ==
  reconstruct_chroma_plane(reconstruct_chroma_plane(c, "cb", x.dc, x.cb), "cr", x.dc, x.cr)

(* Samples from the byte position; the arithmetic decoder starts again. *)
Pcm(c, x) ==
  LET whole(v) == [q \in Quads |-> v]
      c1 == Put(Put(Put(c, "nz", whole(16)), "cb", whole(16)), "cr", whole(16))
      c2 == Put(Put(c1, "y", whole([pred |-> <<"pcm">>, resid |-> FALSE])),
                "uv", whole([pred |-> <<"pcm">>, cb |-> <<FALSE, FALSE>>, cr |-> <<FALSE, FALSE>>]))
      c3 == Put(Put(Put(Put(c2, "i16", TRUE), "luma", {}), "chroma", 0), "dc", {})
  IN SetInfo([Read(c3, <<"pcm">>) EXCEPT !.qp = 0, !.lastd = FALSE], "Ipcm", 0)

-----------------------------------------------------------------------------
(* P and B slices: skip flag, field flag, macroblock type *)

MaybeFieldFlag(c, x, present) == IF c.mbaff /\ present THEN decode_mbaff_field_flag(c, x) ELSE c

SkipAndField(c, x) ==
  LET inc == Inc(~LeftOr(c, "skip", TRUE)) + Inc(~AboveOr(c, "skip", TRUE))
      present == x.kind # "Skip" /\ (c.i % 2 = 0 \/ c.arr[c.i - 1].skip)
  IN set_mb_layout(MaybeFieldFlag(Read(c, <<"skip_flag", inc>>), x, present))

SkippedMb(c, x) ==
  LET c1 == Put(c, "skip", TRUE)
      c2 == IF c.type = "P" THEN decode_p_skip_mb(c1) ELSE decode_b_skip_mb(c1, x.refs)
      c3 == PutMvd(PutMvd(c2, 0, Quads, 0), 1, Quads, 0)
  IN [SetInfo(c3, "Inter", c.qp) EXCEPT !.lastd = FALSE]

MbType(c) ==
  LET inc == IF c.type = "P" THEN 0
             ELSE Inc(~LeftOr(c, "direct", TRUE)) + Inc(~AboveOr(c, "direct", TRUE))
  IN Read(c, <<"mb_type", inc>>)

-----------------------------------------------------------------------------
(* Intra macroblocks of P and B slices *)

ClearRefs(c) == PutRef(PutRef(c, 0, Quads, -1), 1, Quads, -1)

NxN_PB(c, x) ==
  Qp(CodedBlockPattern(ChromaMode(PredModes(Transform8x8(c, x, c.t8mode), x), x), x), x)

MaybeBlock(c, x, q) == IF q \in x.luma THEN LumaBlock(c, x, q, "cbf_4x4", TRUE) ELSE c
NxN_PB_Luma(c, x, mb) ==
  LET Levels8(k, q) == Luma8x8(k, x, q)
      Recon8(k, q)  == reconstruct_luma_8x8_block(k, q, x.modes[q], Residual(x, q), mb)
      Block4(k, q)  ==
        reconstruct_luma_4x4_block(MaybeBlock(k, x, q), q, x.modes[q], Residual(x, q), mb)
  IN IF Cur(c).t8 THEN FoldLeft(Recon8, FoldLeft(Levels8, c, InLuma(x)), InOrder)
     ELSE FoldLeft(Block4, c, InOrder)

NxN_PB_Chroma(c, x, mb) ==
  AddChroma(ChromaBlocks(predict_chroma_intra(c, x.cpm, mb), x, TRUE), x)

AcBlocks16(c, x) ==
  LET Ac(k, q) == LumaBlock(k, x, q, "cbf_ac16", TRUE)
  IN IF x.luma = {} THEN c ELSE FoldLeft(Ac, c, InOrder)
I16_PB(c, x, mb) ==
  LET Start == QpDelta(ChromaMode(Put(c, "i16", TRUE), x), x)
  IN reconstruct_luma_16x16(AcBlocks16(DcFlag(Start, x, "y", TRUE), x),
                            "y" \in x.dc, {q \in Quads : Residual(x, q)}, mb)

I16_PB_Chroma(c, x, mb) ==
  LET c1 == ChromaBlocks(predict_chroma_intra(c, x.cpm, mb), x, TRUE)
  IN AddChroma(Put(Put(c1, "luma", x.luma), "chroma", x.chroma), x)

Pcm_PB(c, x) == Pcm(c, x)

Finished(c, type) == SetInfo(c, type, c.qp)

IntraOfPB(c, x, mb) ==
  CASE x.kind = "I_NxN"   -> Finished(NxN_PB_Chroma(NxN_PB_Luma(NxN_PB(c, x), x, mb), x, mb), "Intra")
    [] x.kind = "I_16x16" -> Finished(I16_PB_Chroma(I16_PB(c, x, mb), x, mb), "Intra")
    [] x.kind = "I_PCM"   -> Pcm_PB(c, x)
IntraInPB(c, x) == IntraOfPB(ClearRefs(c), x, IntraSides(c))

-----------------------------------------------------------------------------
(* References and motion vector differences *)

SubTypes(c, x) ==
  [c EXCEPT !.used = @ \o [k \in 1..4 |-> <<"sub_mb_type", k - 1>>]]

(* The index is stored at once: the next partition is its neighbour. *)
RefIdx(c, l, p) ==
  LET Bins(n) == <<"ref_idx", l, Corner(p), Incs(n[1] > 0, n[2] > 0)>>
  IN PutRef(IF p.ref[l + 1] >= 0 /\ effective_num_ref(c, l) > 1
            THEN Read(c, Bins(cabac_neighbor_ref(c, l, Corner(p)))) ELSE c,
            l, p.quads, p.ref[l + 1])

(* Sum of the neighbours' differences: below 3, up to 32, above. *)
MvdClass(sum) == IF sum < 3 THEN 0 ELSE IF sum > 32 THEN 2 ELSE 1
Mvd(c, l, p) ==
  LET q == Corner(p)
  IN PutMvd(Read(c, <<"mvd", l, q, MvdClass(cabac_amvd(c, l, q))>>), l, p.quads, p.mvd[l + 1])

MvdOrZero(c, l, p) ==
  IF p.ref[l + 1] >= 0 THEN Mvd(c, l, p) ELSE PutMvd(c, l, p.quads, 0)

PUni(c, f, p) == PutPred(c, f, p.quads, Predict(c, p.ref[1], -1))

-----------------------------------------------------------------------------
(* P macroblocks *)

P8x8_Refs(c, x) ==
  LET Ref(k, p) == RefIdx(k, 0, p) IN FoldLeft(Ref, SubTypes(c, x), x.parts)

P8x8_Motion(c, x) ==
  LET One(k, p) == PUni(PutRef(Mvd(k, 0, p), 0, p.quads, p.ref[1]), "y", p)
  IN FoldLeft(One, c, x.parts)

P8x8_Chroma(c, x) ==
  LET One(k, p) == PUni(k, "uv", p) IN FoldLeft(One, c, x.parts)

P_Refs(c, x) ==
  LET Ref(k, p) == RefIdx(k, 0, p) IN FoldLeft(Ref, c, x.parts)

P_Motion(c, x) ==
  LET One(k, p) == PUni(PUni(PutRef(Mvd(k, 0, p), 0, p.quads, p.ref[1]), "y", p), "uv", p)
  IN FoldLeft(One, c, x.parts)

P_Cbp(c, x) ==
  LET c1 == CodedBlockPattern(c, x)
      present == c.t8mode /\ x.luma # {} /\ NoSmallParts(x, c.infer8x8)
  IN Qp(Transform8x8(c1, x, present), x)

(* Luma levels: whole 8x8 blocks, or 4x4 blocks with their flags. *)
P_Luma(c, x) ==
  LET Levels8(k, q) == Luma8x8(k, x, q)
      Block4(k, q)  == LumaBlock(k, x, q, "cbf_4x4", FALSE)
  IN AddLuma(IF Cur(c).t8 THEN FoldLeft(Levels8, c, InLuma(x)) ELSE FoldLeft(Block4, c, InLuma(x)), x)

P_Chroma(c, x) == AddChroma(ChromaBlocks(c, x, FALSE), x)

InterP(c, x) ==
  LET c1 == IF Is8x8(x) THEN P8x8_Chroma(P8x8_Motion(P8x8_Refs(c, x), x), x)
            ELSE P_Motion(P_Refs(c, x), x)
  IN Finished(P_Chroma(P_Luma(P_Cbp(c1, x), x), x), "Inter")

-----------------------------------------------------------------------------
(* B macroblocks *)

B_Direct16(c, x) ==
  LET c1 == Put(Put(c, "direct", TRUE), "bdirect", Quads)
      c2 == derive_direct_mvs(c1, Quads, x.refs)
  IN PutMvd(PutMvd(c2, 0, Quads, 0), 1, Quads, 0)

(* The indices of both lists are read before either is stored. *)
B_16x16(c, x) ==
  LET p == x.parts[1]
      Ask(k, l) == [RefIdx(k, l, p) EXCEPT !.arr = k.arr]
      List(k, l) == PutRef(MvdOrZero(k, l, p), l, Quads, p.ref[l + 1])
  IN List(List(Ask(Ask(c, 0), 1), 0), 1)

B_PartRefs(c, x) ==
  LET Ref0(k, p) == RefIdx(k, 0, p)
      Ref1(k, p) == RefIdx(k, 1, p)
  IN FoldLeft(Ref1, FoldLeft(Ref0, c, x.parts), x.parts)

B_PartMvds0(c, x) == LET One(k, p) == MvdOrZero(k, 0, p) IN FoldLeft(One, c, x.parts)
B_PartMvds1(c, x) == LET One(k, p) == MvdOrZero(k, 1, p) IN FoldLeft(One, c, x.parts)

B8x8_Refs(c, x) ==
  LET Ref0(k, p) == RefIdx(k, 0, p)
      Ref1(k, p) == RefIdx(k, 1, p)
  IN FoldLeft(Ref1, FoldLeft(Ref0, SubTypes(c, x), x.parts), x.parts)

(* Direct quadrants derive their motion before any difference is read. *)
B8x8_Direct(c, x) ==
  LET qs == {q \in Quads : DirectQuad(x, q)}
      c1 == derive_direct_mvs(c, qs, x.refs)
  IN Put(PutMvd(PutMvd(c1, 0, qs, 0), 1, qs, 0), "bdirect", Cur(c).bdirect \cup qs)

B8x8_Mvds0(c, x) ==
  LET One(k, p) == IF p.direct THEN k ELSE MvdOrZero(k, 0, p) IN FoldLeft(One, c, x.parts)
B8x8_Mvds1(c, x) ==
  LET One(k, p) == IF p.direct THEN k ELSE MvdOrZero(k, 1, p) IN FoldLeft(One, c, x.parts)

B_LumaMc(c) ==
  Put(c, "y", [q \in Quads |->
    [Cur(c).y[q] EXCEPT !.pred = Predict(c, Cur(c).ref[0][q], Cur(c).ref[1][q])]])

(* Prediction from list 1 alone is never weighted in the chroma planes. *)
B_ChromaMc(c) ==
  LET P(r0, r1) == IF r0 < 0 THEN <<"uni", 1, RefPic(c, 1, r1), <<>>>> ELSE Predict(c, r0, r1)
  IN Put(c, "uv", [q \in Quads |->
       [Cur(c).uv[q] EXCEPT !.pred = P(Cur(c).ref[0][q], Cur(c).ref[1][q])]])

B_Cbp(c, x) ==
  LET c1 == CodedBlockPattern(c, x)
      present == c.t8mode /\ x.luma # {} /\ NoSmallParts(x, c.infer8x8)
  IN Qp(Transform8x8(c1, x, present), x)

B_Luma(c, x) ==
  LET Levels8(k, q) == Luma8x8(k, x, q)
      Block4(k, q)  == LumaBlock(k, x, q, "cbf_4x4", FALSE)
  IN AddLuma(IF Cur(c).t8 THEN FoldLeft(Levels8, c, InLuma(x)) ELSE FoldLeft(Block4, c, InLuma(x)), x)

B_Chroma(c, x) == AddChroma(ChromaBlocks(c, x, FALSE), x)

InterB(c, x) ==
  LET c1 == CASE x.kind = "Direct"   -> B_Direct16(c, x)
              [] Len(x.parts) = 1    -> B_16x16(c, x)
              [] Len(x.parts) = 2    -> B_PartMvds1(B_PartMvds0(B_PartRefs(c, x), x), x)
              [] OTHER -> B8x8_Mvds1(B8x8_Mvds0(B8x8_Direct(B8x8_Refs(c, x), x), x), x)
  IN Finished(B_Chroma(B_Luma(B_Cbp(B_ChromaMc(B_LumaMc(c1)), x), x), x), "Inter")

-----------------------------------------------------------------------------
(* Intra slices *)

MbTypeI(c) ==
  Read(c, <<"mb_type", Inc(LeftOr(c, "i16", FALSE)) + Inc(AboveOr(c, "i16", FALSE))>>)

Pcm_I(c, x) == Pcm(c, x)

NxN_I(c, x) ==
  Qp(CodedBlockPattern(ChromaMode(PredModes(Transform8x8(c, x, c.t8mode), x), x), x), x)

NxN_I_Luma8x8(c, x, mb) ==
  LET Levels8(k, q) == IF q \in x.luma THEN Luma8x8(k, x, q) ELSE PutQuad(k, "nz", q, 0)
      Recon8(k, q)  == reconstruct_luma_8x8_block(k, q, x.modes[q], Residual(x, q), mb)
  IN FoldLeft(Recon8, FoldLeft(Levels8, c, InOrder), InOrder)

NxN_I_Luma4x4(c, x, mb) ==
  LET Block4(k, q) ==
        reconstruct_luma_4x4_block(MaybeBlock(k, x, q), q, x.modes[q], Residual(x, q), mb)
  IN FoldLeft(Block4, c, InOrder)

NxN_I_Chroma(c, x, mb) ==
  AddChroma(ChromaBlocks(predict_chroma_intra(c, x.cpm, mb), x, TRUE), x)

I16_I(c, x, mb) ==
  LET Start == QpDelta(ChromaMode(Put(c, "i16", TRUE), x), x)
  IN reconstruct_luma_16x16(AcBlocks16(DcFlag(Start, x, "y", TRUE), x),
                            "y" \in x.dc, {q \in Quads : Residual(x, q)}, mb)

I16_I_Chroma(c, x, mb) ==
  LET c1 == AddChroma(ChromaBlocks(predict_chroma_intra(c, x.cpm, mb), x, TRUE), x)
  IN Put(Put(c1, "luma", x.luma), "chroma", x.chroma)

NxN_I_Luma(c, x, mb) ==
  IF Cur(c).t8 THEN NxN_I_Luma8x8(c, x, mb) ELSE NxN_I_Luma4x4(c, x, mb)
IntraOfI(c, x, mb) ==
  CASE x.kind = "I_NxN"   -> Finished(NxN_I_Chroma(NxN_I_Luma(NxN_I(c, x), x, mb), x, mb), "Intra")
    [] x.kind = "I_16x16" -> Finished(I16_I_Chroma(I16_I(c, x, mb), x, mb), "Intra")
    [] x.kind = "I_PCM"   -> Pcm_I(c, x)
StartI(c, x) == MbTypeI(set_mb_layout(MaybeFieldFlag(c, x, c.i % 2 = 0)))
IntraSlice(c, x) ==
  LET From(k) == IntraOfI(k, x, IntraSides(k)) IN From(StartI(c, x))

PB(c, x) ==
  CASE x.kind = "Skip" -> SkippedMb(c, x)
    [] Intra(x)        -> IntraInPB(MbType(c), x)
    [] c.type = "P" /\ x.kind = "Inter" -> InterP(MbType(c), x)
    [] c.type = "B" /\ x.kind \in {"Inter", "Direct"} -> InterB(MbType(c), x)
decode_cabac_mb(c, x) ==
  IF c.type = "I" THEN IntraSlice(c, x) ELSE PB(SkipAndField(c, x), x)
=============================================================================

------------------------------ MODULE MbCavlc ------------------------------
(***************************************************************************)
(* decode_cavlc_mb (decode_cavlc.rs): one macroblock of a CAVLC slice that *)
(* is not skipped.  Elements read are logged with what their parsing       *)
(* depends on: the nC of a coeff_token, the range of a truncated index,    *)
(* the predicted intra mode.                                               *)
(*                                                                         *)
(* Nothing here writes mb_is_8x8dct, mb_cbp or the other arrays that only  *)
(* the CABAC contexts are taken from; mb_is_8x8dct is also what            *)
(* finalize_mb_info hands to the deblocking filter.                        *)
(***************************************************************************)
EXTENDS SliceContext, MbSyntax

Element(c, name) == Read(c, <<name, 0>>)
LumaQuads(x) == SelectSeq(InOrder, LAMBDA q : q \in x.luma)

-----------------------------------------------------------------------------
(* Pieces the three copies share *)

CavlcQp(c, x) ==
  [Element(c, "qp_delta") EXCEPT !.qp = (((c.qp + x.delta + 52) % 52) + 52) % 52]
CavlcQpIf(c, x) == IF x.luma # {} \/ x.chroma # 0 THEN CavlcQp(c, x) ELSE c

Token(c, plane, q, count) ==
  PutQuad(Read(c, <<"coeff_token", plane, q, compute_nc(c, plane, q)>>), plane, q, count)

LumaTokens(c, x) ==
  LET One(k, q) == Token(k, "nz", q, x.nz[q]) IN FoldLeft(One, c, LumaQuads(x))

(* DC of both planes with nC = -1, then AC block by block. *)
ChromaTokens(c, x) ==
  LET Dc(k, plane) == Read(k, <<"coeff_token_dc", plane, -1>>)
      Cb(k, q) == Token(k, "cb", q, x.cb[q])
      Cr(k, q) == Token(k, "cr", q, x.cr[q])
      dc == IF x.chroma = 0 THEN c ELSE Dc(Dc(c, "cb"), "cr")
  IN IF x.chroma < 2 THEN dc ELSE FoldLeft(Cr, FoldLeft(Cb, dc, InOrder), InOrder)

WithResidual(c, x) ==
  Put(c, "y", [q \in Quads |->
    [Cur(c).y[q] EXCEPT !.resid = q \in x.luma /\ x.nz[q] > 0]])

WithChroma(c, x) ==
  reconstruct_chroma_plane(reconstruct_chroma_plane(c, "cb", x.dc, x.cb), "cr", x.dc, x.cr)

(* read_te over `range` + 1 values; with one value nothing is read. *)
ReadRef(c, l, p, num) ==
  IF p.ref[l + 1] >= 0 /\ num > 1
  THEN Read(c, <<"ref_idx", l, Corner(p), num - 1>>) ELSE c
Difference(c, l, p) ==
  IF p.direct \/ p.ref[l + 1] < 0 THEN c ELSE Read(c, <<"mvd", l, Corner(p), 0>>)

CavlcSubTypes(c) == [c EXCEPT !.used = @ \o [k \in 1..4 |-> <<"sub_mb_type", k - 1>>]]

(* coded_block_pattern, transform_size_8x8_flag, mb_qp_delta of inter. *)
CbpAndQp(c, x) ==
  LET c1 == Element(c, "cbp")
      c2 == IF c.t8mode /\ x.luma # {} /\ NoSmallParts(x, c.infer8x8)
            THEN Element(c1, "t8") ELSE c1
  IN CavlcQpIf(c2, x)

-----------------------------------------------------------------------------
(* B macroblocks *)

CavlcB_16x16Uni(c, x) ==
  LET p == x.parts[1]
      l == IF p.ref[1] >= 0 THEN 0 ELSE 1
      c1 == Difference(ReadRef(c, l, p, c.numref[l]), l, p)
  IN PutRef(c1, l, Quads, p.ref[l + 1])

CavlcB_Direct16(c, x) == derive_direct_mvs(c, Quads, x.refs)

CavlcB_16x16Bi(c, x) ==
  LET p == x.parts[1]
      c1 == ReadRef(ReadRef(c, 0, p, c.numref[0]), 1, p, c.numref[1])
      c2 == Difference(Difference(c1, 0, p), 1, p)
  IN PutRef(PutRef(c2, 0, Quads, p.ref[1]), 1, Quads, p.ref[2])

(* The index of a list a partition does not use stays as it was. *)
CavlcB_Parts(c, x) ==
  LET Ref0(k, p) == ReadRef(k, 0, p, c.numref[0])
      Ref1(k, p) == ReadRef(k, 1, p, c.numref[1])
      Store(k, l, p) == IF p.ref[l + 1] >= 0 THEN PutRef(k, l, p.quads, p.ref[l + 1]) ELSE k
      Mvd0(k, p) == Difference(Store(k, 0, p), 0, p)
      Mvd1(k, p) == Difference(Store(k, 1, p), 1, p)
      refs == FoldLeft(Ref1, FoldLeft(Ref0, c, x.parts), x.parts)
  IN FoldLeft(Mvd1, FoldLeft(Mvd0, refs, x.parts), x.parts)

CavlcB_8x8Refs(c, x) ==
  LET Ref0(k, p) == ReadRef(k, 0, p, c.numref[0])
      Ref1(k, p) == ReadRef(k, 1, p, c.numref[1])
      Store(k, p) == PutRef(PutRef(k, 0, p.quads, p.ref[1]), 1, p.quads, p.ref[2])
  IN FoldLeft(Store, FoldLeft(Ref1, FoldLeft(Ref0, CavlcSubTypes(c), x.parts), x.parts), x.parts)

CavlcB_8x8Direct(c, x) == derive_direct_mvs(c, {q \in Quads : DirectQuad(x, q)}, x.refs)

CavlcB_8x8Mvds(c, x) ==
  LET Mvd0(k, p) == Difference(k, 0, p)
      Mvd1(k, p) == Difference(k, 1, p)
  IN FoldLeft(Mvd1, FoldLeft(Mvd0, c, x.parts), x.parts)

CavlcB_Cbp(c, x) == CbpAndQp(c, x)
CavlcB_Luma(c, x) == LumaTokens(c, x)

CavlcB_LumaMc(c, x) ==
  WithResidual(Put(c, "y", [q \in Quads |-> [Cur(c).y[q] EXCEPT
    !.pred = PredictUnscaled(c, Cur(c).ref[0][q], Cur(c).ref[1][q])]]), x)

CavlcB_ChromaTokens(c, x) == ChromaTokens(c, x)
CavlcB_Chroma(c, x) ==
  WithChroma(Put(c, "uv", [q \in Quads |-> [Cur(c).uv[q] EXCEPT
    !.pred = PredictUnscaled(c, Cur(c).ref[0][q], Cur(c).ref[1][q])]]), x)

CavlcB(c, x) ==
  LET c1 == CASE x.kind = "Direct" -> CavlcB_Direct16(c, x)
              [] Len(x.parts) = 1  -> IF x.parts[1].ref[1] >= 0 /\ x.parts[1].ref[2] >= 0
                                      THEN CavlcB_16x16Bi(c, x) ELSE CavlcB_16x16Uni(c, x)
              [] Len(x.parts) = 2  -> CavlcB_Parts(c, x)
              [] OTHER -> CavlcB_8x8Mvds(CavlcB_8x8Direct(CavlcB_8x8Refs(c, x), x), x)
      c2 == CavlcB_LumaMc(CavlcB_Luma(CavlcB_Cbp(c1, x), x), x)
      c3 == CavlcB_Chroma(CavlcB_ChromaTokens(c2, x), x)
  IN SetInfo(c3, "Inter", c3.qp)

-----------------------------------------------------------------------------
(* P macroblocks *)

(* P_8x8 and P_8x8ref0, which has no indices. *)
CavlcP_8x8(c, x) ==
  LET Ref(k, p) == ReadRef(k, 0, p, effective_num_ref(c, 0))
      One(k, p) == PutRef(Difference(k, 0, p), 0, p.quads, IF x.ref0 THEN 0 ELSE p.ref[1])
      c1 == CavlcSubTypes(c)
  IN FoldLeft(One, IF x.ref0 THEN c1 ELSE FoldLeft(Ref, c1, x.parts), x.parts)

CavlcP_Parts(c, x) ==
  LET Ref(k, p) == ReadRef(k, 0, p, effective_num_ref(c, 0))
      One(k, p) == PutRef(Difference(k, 0, p), 0, p.quads, p.ref[1])
  IN FoldLeft(One, FoldLeft(Ref, c, x.parts), x.parts)

CavlcP_Cbp(c, x) == CbpAndQp(c, x)
CavlcP_Luma(c, x) == LumaTokens(c, x)

CavlcP_LumaMc(c, x) ==
  WithResidual(Put(c, "y", [q \in Quads |-> [Cur(c).y[q] EXCEPT
    !.pred = Predict(c, Cur(c).ref[0][q], -1)]]), x)

CavlcP_ChromaTokens(c, x) == ChromaTokens(c, x)
CavlcP_Chroma(c, x) ==
  WithChroma(Put(c, "uv", [q \in Quads |-> [Cur(c).uv[q] EXCEPT
    !.pred = Predict(c, Cur(c).ref[0][q], -1)]]), x)

CavlcP(c, x) ==
  LET c1 == IF Is8x8(x) THEN CavlcP_8x8(c, x) ELSE CavlcP_Parts(c, x)
      c2 == CavlcP_LumaMc(CavlcP_Luma(CavlcP_Cbp(c1, x), x), x)
      c3 == CavlcP_Chroma(CavlcP_ChromaTokens(c2, x), x)
  IN SetInfo(c3, "Inter", c3.qp)

-----------------------------------------------------------------------------
(* Intra macroblocks; the references keep their initial -1 *)

CavlcModes(c, x) ==
  LET One(k, q) == PutQuad(Read(k, <<"pred_mode", q, predict_i4x4_mode(k, q)>>),
                           "modes", q, x.modes[q])
  IN FoldLeft(One, IF c.t8mode THEN Element(c, "t8") ELSE c, InOrder)

CavlcNxN_Cbp(c, x) == CavlcQpIf(Element(Element(c, "chroma_mode"), "cbp"), x)

CavlcI8x8(c, x, mb) ==
  LET Recon(k, q) == reconstruct_luma_8x8_block(k, q, x.modes[q],
                       q \in x.luma /\ x.nz[q] > 0, mb)
  IN FoldLeft(Recon, LumaTokens(c, x), InOrder)

CavlcI4x4(c, x, mb) ==
  LET Block(k, q) ==
        reconstruct_luma_4x4_block(IF q \in x.luma THEN Token(k, "nz", q, x.nz[q]) ELSE k,
                                   q, x.modes[q], q \in x.luma /\ x.nz[q] > 0, mb)
  IN FoldLeft(Block, c, InOrder)

(* The DC block is read with the nC of block 0 and its count is not kept. *)
CavlcI16x16(c, x, mb) ==
  LET c1 == CavlcQp(Element(c, "chroma_mode"), x)
      c2 == Read(c1, <<"coeff_token_16", 0, compute_nc(c1, "nz", 0)>>)
      c3 == LumaTokens(c2, x)
  IN reconstruct_luma_16x16(c3, "y" \in x.dc, {q \in x.luma : x.nz[q] > 0}, mb)

CavlcPcm(c) ==
  LET whole(v) == [q \in Quads |-> v]
      c1 == Put(Put(Put(c, "nz", whole(16)), "cb", whole(16)), "cr", whole(16))
      c2 == Put(Put(c1, "y", whole([pred |-> <<"pcm">>, resid |-> FALSE])),
                "uv", whole([pred |-> <<"pcm">>, cb |-> <<FALSE, FALSE>>, cr |-> <<FALSE, FALSE>>]))
  IN SetInfo([Read(c2, <<"pcm">>) EXCEPT !.qp = 0], "Ipcm", 0)

(* Both kinds end in the chroma blocks and their reconstruction. *)
CavlcIntraChroma(c, x, mb) == WithChroma(predict_chroma_intra(ChromaTokens(c, x), x.cpm, mb), x)

CavlcIntra(c, x) ==
  LET mb == IntraSides(c)
      nxn == CavlcNxN_Cbp(CavlcModes(c, x), x)
      luma == CASE x.kind = "I_16x16" -> CavlcI16x16(c, x, mb)
                [] x.kind = "I_NxN" /\ x.t8  -> CavlcI8x8(nxn, x, mb)
                [] x.kind = "I_NxN" /\ ~x.t8 -> CavlcI4x4(nxn, x, mb)
  IN IF x.kind = "I_PCM" THEN CavlcPcm(c)
     ELSE CavlcIntraChroma(SetInfo(luma, "Intra", luma.qp), x, mb)

decode_cavlc_mb(c, x) ==
  LET c1 == Element(c, "mb_type")
  IN IF Intra(x) THEN CavlcIntra(c1, x) ELSE IF c.type = "B" THEN CavlcB(c1, x) ELSE CavlcP(c1, x)
=============================================================================

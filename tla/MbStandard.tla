----------------------------- MODULE MbStandard -----------------------------
(***************************************************************************)
(* What ITU-T H.264 says of the macroblocks of a slice, stated by          *)
(* coordinates and without the arrays of the code: which syntax elements   *)
(* are present and in which order (7.3.5), with which context increments   *)
(* (9.3.3.1.1) or nC (9.2.1), from which samples and pictures a quadrant   *)
(* is predicted (8.3, 8.4) and how strong an edge is filtered (8.7.2.1).   *)
(*                                                                         *)
(* s carries the header fields (the context record of SliceContext), h     *)
(* what has been decoded: macroblock -> [x, slice, type, ...].             *)
(***************************************************************************)
EXTENDS Integers, MbSyntax, SequencesExt

NoMb == -1
Flag(b) == IF b THEN 1 ELSE 0
ZOrder == <<0, 1, 2, 3>>

-----------------------------------------------------------------------------
(* Where a macroblock is: the plane its rows belong to, column and row in   *)
(* units of macroblocks.  The operators are applied to pictures whose pairs *)
(* are all frame or all field pairs.                                       *)

FieldPair(s, h, i) ==
  s.mbaff /\ \E j \in DOMAIN h : j \div 2 = i \div 2 /\ h[j].x.kind # "Skip" /\ h[j].x.field

Origin(s, h, i) ==
  IF ~s.mbaff THEN <<"frame", i % s.w, i \div s.w>>
  ELSE LET row == (i \div 2) \div s.w
           col == (i \div 2) % s.w
       IN IF FieldPair(s, h, i)
          THEN <<IF i % 2 = 0 THEN "top field" ELSE "bottom field", col, row>>
          ELSE <<"frame", col, 2 * row + (i % 2)>>

(* The macroblock at a place, when it is decoded already and of the slice  *)
(* of macroblock i (6.4.9).                                                *)
OneOf(js) == IF js = {} THEN NoMb ELSE CHOOSE j \in js : TRUE
MbAt(s, h, place) == OneOf({j \in DOMAIN h : Origin(s, h, j) = place})
AvailableAt(s, h, i, place) ==
  OneOf({j \in DOMAIN h : j <= i /\ h[j].slice = h[i].slice /\ Origin(s, h, j) = place})

MbBeside(s, h, i, dx, dy) ==
  LET Place(o) == <<o[1], o[2] + dx, o[3] + dy>>
  IN AvailableAt(s, h, i, Place(Origin(s, h, i)))
MbA(s, h, i) == MbBeside(s, h, i, -1, 0)
MbB(s, h, i) == MbBeside(s, h, i, 0, -1)

(* Blocks, n to a macroblock's side, and their order of decoding. *)
ZIndex(n, col, row) ==
  IF n = 2 THEN 2 * row + col
  ELSE 8 * (row \div 2) + 4 * (col \div 2) + 2 * (row % 2) + (col % 2)

(* <<macroblock, column, row>> of the block dx, dy away, or NoMb. *)
BlockBeside(s, h, i, n, col, row, dx, dy) ==
  LET Place(o) == <<o[1], o[2] + ((col + dx) \div n), o[3] + ((row + dy) \div n)>>
      x == (col + dx) % n
      y == (row + dy) % n
      Block(j) == IF j = NoMb \/ (j = i /\ ZIndex(n, x, y) >= ZIndex(n, col, row))
                  THEN <<NoMb, 0, 0>> ELSE <<j, x, y>>
  IN Block(AvailableAt(s, h, i, Place(Origin(s, h, i))))

QuadBeside(s, h, i, q, dx, dy) ==
  LET Quad(b) == <<b[1], b[2] + 2 * b[3]>>
  IN Quad(BlockBeside(s, h, i, 2, q % 2, q \div 2, dx, dy))
QuadA(s, h, i, q) == QuadBeside(s, h, i, q, -1, 0)
QuadB(s, h, i, q) == QuadBeside(s, h, i, q, 0, -1)

-----------------------------------------------------------------------------
(* The elements of macroblock_layer and around it, in order *)

Seq4(name) == [k \in 1..4 |-> <<name, k - 1>>]
OnlyIf(b, e) == IF b THEN <<e>> ELSE <<>>
ForQuads(s, E(_)) == FlattenSeq([k \in DOMAIN s |-> E(s[k])])
NumRef(s, h, i, l) == IF FieldPair(s, h, i) THEN 2 * s.numref[l] ELSE s.numref[l]

Prediction(s, h, i) ==
  LET x == h[i].x
      ref(l) == ForQuads(x.parts, LAMBDA p :
        OnlyIf(~x.ref0 /\ ~p.direct /\ p.ref[l + 1] >= 0 /\ NumRef(s, h, i, l) > 1,
               <<"ref_idx", l, Corner(p)>>))
      mvd(l) == ForQuads(x.parts, LAMBDA p :
        OnlyIf(~p.direct /\ p.ref[l + 1] >= 0, <<"mvd", l, Corner(p)>>))
  IN CASE x.kind = "I_NxN" ->
            OnlyIf(s.t8mode, <<"t8">>) \o Seq4("pred_mode") \o <<<<"chroma_mode">>>>
       [] x.kind = "I_16x16" -> <<<<"chroma_mode">>>>
       [] x.kind = "Direct"  -> <<>>
       [] x.kind = "Inter"   ->
            (IF Len(x.parts) = 4 THEN Seq4("sub_mb_type") ELSE <<>>)
            \o ref(0) \o ref(1) \o mvd(0) \o mvd(1)

Pattern(s, x) ==
  IF x.kind = "I_16x16" THEN <<>>
  ELSE (IF s.cabac
        THEN Seq4("cbp_luma") \o <<<<"cbp_chroma", 0>>>> \o OnlyIf(x.chroma > 0, <<"cbp_chroma", 1>>)
        ELSE <<<<"cbp">>>>)
       \o OnlyIf(x.kind # "I_NxN" /\ s.t8mode /\ x.luma # {} /\ NoSmallParts(x, s.infer8x8), <<"t8">>)

HasQpDelta(x) == x.kind = "I_16x16" \/ (x.kind # "I_PCM" /\ (x.luma # {} \/ x.chroma > 0))

Coefficients(s, x) ==
  LET coded == SelectSeq(ZOrder, LAMBDA q : q \in x.luma)
      block(name) == [k \in DOMAIN coded |-> <<name, coded[k]>>]
      token(plane, qs) == [k \in DOMAIN qs |-> <<"coeff_token", plane, qs[k]>>]
      ac(plane) == [k \in 1..4 |-> <<"cbf_ac", plane, k - 1>>]
      i16 == x.kind = "I_16x16"
  IN IF s.cabac
     THEN OnlyIf(i16, <<"cbf_dc", "y">>)
          \o (IF x.t8 THEN <<>> ELSE block(IF i16 THEN "cbf_ac16" ELSE "cbf_4x4"))
          \o (IF x.chroma > 0 THEN <<<<"cbf_dc", "cb">>, <<"cbf_dc", "cr">>>> ELSE <<>>)
          \o (IF x.chroma = 2 THEN ac("cb") \o ac("cr") ELSE <<>>)
     ELSE OnlyIf(i16, <<"coeff_token_16", 0>>)
          \o token("nz", coded)
          \o (IF x.chroma > 0 THEN <<<<"coeff_token_dc", "cb">>, <<"coeff_token_dc", "cr">>>> ELSE <<>>)
          \o (IF x.chroma = 2 THEN token("cb", ZOrder) \o token("cr", ZOrder) ELSE <<>>)

SyntaxOf(s, h, i) ==
  LET x == h[i].x
      flag == /\ s.mbaff /\ x.kind # "Skip"
              /\ i % 2 = 0 \/ (h[i].type # "I" /\ h[i - 1].x.kind = "Skip")
  IN OnlyIf(s.cabac /\ h[i].type # "I", <<"skip_flag">>)
     \o OnlyIf(flag, <<"field_flag">>)
     \o CASE x.kind = "Skip"  -> <<>>
          [] x.kind = "I_PCM" -> <<<<"mb_type">>, <<"pcm">>>>
          [] OTHER -> <<<<"mb_type">>>> \o Prediction(s, h, i) \o Pattern(s, x)
                      \o OnlyIf(HasQpDelta(x), <<"qp_delta">>) \o Coefficients(s, x)

-----------------------------------------------------------------------------
(* Context increments *)

(* Sum over the macroblocks A and B that are available and satisfy T. *)
Beside(s, h, i, T(_)) ==
  LET Counts(n) == Flag(n # NoMb /\ T(h[n].x)) IN <<Counts(MbA(s, h, i)), Counts(MbB(s, h, i))>>
Plus(p) == p[1] + p[2]
Twice(p) == p[1] + 2 * p[2]

Pcm(x) == x.kind = "I_PCM"

CodedBlock(s, h, i, n, missing, Coded(_, _)) ==
  Flag(IF n[1] = NoMb THEN missing ELSE Pcm(h[n[1]].x) \/ Coded(h[n[1]].x, n[2]))
BlockContext(s, h, i, q, Coded(_, _)) ==
  LET missing == Intra(h[i].x)
  IN Twice(<<CodedBlock(s, h, i, QuadA(s, h, i, q), missing, Coded),
             CodedBlock(s, h, i, QuadB(s, h, i, q), missing, Coded)>>)
DcContext(s, h, i, Coded(_)) ==
  LET T(n) == Flag(IF n = NoMb THEN Intra(h[i].x) ELSE Pcm(h[n].x) \/ Coded(h[n].x))
  IN Twice(<<T(MbA(s, h, i)), T(MbB(s, h, i))>>)

LumaBit(s, h, i, q) ==
  LET T(n) == Flag(n[1] # NoMb /\ ~Pcm(h[n[1]].x) /\ n[2] \notin h[n[1]].x.luma)
  IN Twice(<<T(QuadA(s, h, i, q)), T(QuadB(s, h, i, q))>>)

RefContext(s, h, i, l, q) ==
  LET T(n) == Flag(n[1] # NoMb /\ ~DirectQuad(h[n[1]].x, n[2]) /\ RefOf(h[n[1]].x, l, n[2]) > 0)
  IN Twice(<<T(QuadA(s, h, i, q)), T(QuadB(s, h, i, q))>>)

MvdContext(s, h, i, l, q) ==
  LET D(n) == IF n[1] = NoMb THEN 0 ELSE MvdOf(h[n[1]].x, l, n[2])
      Class(sum) == IF sum < 3 THEN 0 ELSE IF sum > 32 THEN 2 ELSE 1
  IN Class(D(QuadA(s, h, i, q)) + D(QuadB(s, h, i, q)))

FieldFlagContext(s, h, i) ==
  LET row == (i \div 2) \div s.w
      T(p) == p >= 0 /\ h[2 * p].slice = h[i].slice /\ FieldPair(s, h, 2 * p)
  IN Flag((i \div 2) % s.w > 0 /\ T(i \div 2 - 1)) + Flag(T(i \div 2 - s.w))

(* 8.3.1.1: DC when a neighbour is missing, or not to be used. *)
PredictedMode(s, h, i, q) ==
  LET M(n) == IF n[1] = NoMb THEN -1
              ELSE IF ~Intra(h[n[1]].x) THEN IF s.constrained THEN -1 ELSE 2
              ELSE IF h[n[1]].x.kind = "I_NxN" THEN h[n[1]].x.modes[n[2]] ELSE 2
      Least(a, b) == IF a = -1 \/ b = -1 THEN 2 ELSE IF a < b THEN a ELSE b
  IN Least(M(QuadA(s, h, i, q)), M(QuadB(s, h, i, q)))

(* 9.2.1 *)
TotalCoeff(x, plane, q) ==
  CASE x.kind = "I_PCM" -> 16
    [] x.kind = "Skip"  -> 0
    [] x.kind \notin {"I_PCM", "Skip"} /\ plane = "nz" -> IF q \in x.luma THEN x.nz[q] ELSE 0
    [] OTHER -> IF x.chroma = 2 THEN x[plane][q] ELSE 0
NC(s, h, i, plane, q) ==
  LET N(n) == TotalCoeff(h[n[1]].x, plane, n[2])
      Average(a, b) ==
        CASE a[1] # NoMb /\ b[1] # NoMb -> (N(a) + N(b) + 1) \div 2
          [] a[1] # NoMb /\ b[1] = NoMb -> N(a)
          [] a[1] = NoMb /\ b[1] # NoMb -> N(b)
          [] OTHER -> 0
  IN Average(QuadA(s, h, i, q), QuadB(s, h, i, q))

LastDelta(h, i) ==
  /\ i > 0 /\ h[i - 1].slice = h[i].slice
  /\ h[i - 1].x.kind # "Skip" /\ HasQpDelta(h[i - 1].x) /\ h[i - 1].x.delta # 0

CabacContext(s, h, i, e) ==
  CASE e[1] = "skip_flag"  -> Plus(Beside(s, h, i, LAMBDA y : y.kind # "Skip"))
    [] e[1] = "field_flag" -> FieldFlagContext(s, h, i)
    [] e[1] = "mb_type" ->
         CASE h[i].type = "I" -> Plus(Beside(s, h, i, LAMBDA y : y.kind # "I_NxN"))
           [] h[i].type = "B" -> Plus(Beside(s, h, i, LAMBDA y : y.kind \notin {"Skip", "Direct"}))
           [] OTHER -> 0
    [] e[1] = "t8" -> Plus(Beside(s, h, i, LAMBDA y : y.t8))
    [] e[1] = "pred_mode" -> PredictedMode(s, h, i, e[2])
    [] e[1] = "chroma_mode" ->
         Plus(Beside(s, h, i, LAMBDA y : y.kind \in {"I_NxN", "I_16x16"} /\ y.cpm # 0))
    [] e[1] = "cbp_luma" -> LumaBit(s, h, i, e[2])
    [] e[1] = "cbp_chroma" ->
         IF e[2] = 0 THEN Twice(Beside(s, h, i, LAMBDA y : Pcm(y) \/ y.chroma > 0))
         ELSE 4 + Twice(Beside(s, h, i, LAMBDA y : Pcm(y) \/ y.chroma = 2))
    [] e[1] = "qp_delta" -> Flag(LastDelta(h, i))
    [] e[1] = "ref_idx"  -> RefContext(s, h, i, e[2], e[3])
    [] e[1] = "mvd"      -> MvdContext(s, h, i, e[2], e[3])
    [] e[1] = "cbf_dc" ->
         IF e[2] = "y" THEN DcContext(s, h, i, LAMBDA y : y.kind = "I_16x16" /\ "y" \in y.dc)
         ELSE DcContext(s, h, i, LAMBDA y : y.chroma > 0 /\ e[2] \in y.dc)
    [] e[1] \in {"cbf_4x4", "cbf_ac16"} ->
         BlockContext(s, h, i, e[2], LAMBDA y, q : q \in y.luma /\ (y.t8 \/ y.nz[q] > 0))
    [] e[1] = "cbf_ac" ->
         BlockContext(s, h, i, e[3], LAMBDA y, q : y.chroma = 2 /\ y[e[2]][q] > 0)

CavlcDetail(s, h, i, e) ==
  CASE e[1] = "pred_mode"      -> PredictedMode(s, h, i, e[2])
    [] e[1] = "ref_idx"        -> NumRef(s, h, i, e[2]) - 1
    [] e[1] = "coeff_token"    -> NC(s, h, i, e[2], e[3])
    [] e[1] = "coeff_token_16" -> NC(s, h, i, "nz", 0)
    [] e[1] = "coeff_token_dc" -> -1
    [] OTHER -> 0

ElementsOf(s, h, i) ==
  LET With(e) == IF e[1] \in {"sub_mb_type", "pcm"} THEN e
                 ELSE Append(e, IF s.cabac THEN CabacContext(s, h, i, e) ELSE CavlcDetail(s, h, i, e))
      Each(syntax) == [k \in DOMAIN syntax |-> With(syntax[k])]
  IN Each(SyntaxOf(s, h, i))

-----------------------------------------------------------------------------
(* Samples *)

(* Samples intra prediction may use: available, and of an intra macroblock  *)
(* when constrained_intra_pred_flag asks for it.                           *)
Usable(s, h, n) == n # NoMb /\ (s.constrained => Intra(h[n].x))

Delta(side) == CASE side = "A" -> <<-1, 0>> [] side = "B" -> <<0, -1>>
                 [] side = "C" -> <<1, -1>> [] side = "D" -> <<-1, -1>>
(* No mode uses the samples above and to the right without those above.    *)
SidesOf(s, h, i, n, col, row) ==
  LET Has(side) ==
        Usable(s, h, BlockBeside(s, h, i, n, col, row, Delta(side)[1], Delta(side)[2])[1])
  IN {side \in {"A", "B", "C", "D"} : Has(side) /\ (side = "C" => Has("B"))}
MbSides(s, h, i) ==
  {side \in {"A", "B", "D"} : Usable(s, h, MbBeside(s, h, i, Delta(side)[1], Delta(side)[2]))}

IntraRecipe(s, h, i, q) ==
  LET x == h[i].x
  IN CASE x.kind = "I_PCM"   -> <<"pcm">>
       [] x.kind = "I_16x16" -> <<"16x16", MbSides(s, h, i)>>
       [] x.kind = "I_NxN" /\ x.t8 ->
            <<"8x8", x.modes[q], SidesOf(s, h, i, 2, q % 2, q \div 2)>>
       [] x.kind = "I_NxN" /\ ~x.t8 ->
            <<"4x4", x.modes[q], [p \in {0, 1} \X {0, 1} |->
               SidesOf(s, h, i, 4, 2 * (q % 2) + p[2], 2 * (q \div 2) + p[1])]>>

(* 8.4.2.1: in a field macroblock an index counts fields, the same parity   *)
(* first; 8.4.2.3: the weights belong to the frame.                        *)
InterRecipe(s, h, i, q) ==
  LET x == h[i].x
      field == FieldPair(s, h, i)
      Of(r) == IF field THEN r \div 2 ELSE r
      parity == IF i % 2 = 0 THEN <<"top", "bottom">> ELSE <<"bottom", "top">>
      Pic(r) == <<Of(r), IF field THEN parity[(r % 2) + 1] ELSE "frame">>
      r0 == RefOf(x, 0, q)
      r1 == RefOf(x, 1, q)
      Single(l, r) == <<"uni", l, Pic(r), IF s.weight = 1 THEN <<Of(r)>> ELSE <<>>>>
  IN CASE r0 >= 0 /\ r1 >= 0 ->
            <<"bi", Pic(r0), Pic(r1), IF s.weight > 0 THEN <<Of(r0), Of(r1)>> ELSE <<>>>>
       [] r0 >= 0 /\ r1 < 0 -> Single(0, r0)
       [] r0 < 0 /\ r1 >= 0 -> Single(1, r1)

RecipeOf(s, h, i, q) ==
  IF Intra(h[i].x) THEN IntraRecipe(s, h, i, q) ELSE InterRecipe(s, h, i, q)
LumaOf(s, h, i) ==
  LET x == h[i].x
  IN [q \in 0..3 |-> [pred  |-> RecipeOf(s, h, i, q),
                      resid |-> \/ x.kind = "I_16x16" /\ "y" \in x.dc
                                \/ q \in x.luma /\ x.nz[q] > 0]]
ChromaOf(s, h, i, q) ==
  LET x == h[i].x
  IN [pred |-> IF Pcm(x) THEN <<"pcm">>
               ELSE IF Intra(x) THEN <<"chroma", x.cpm, MbSides(s, h, i)>> ELSE InterRecipe(s, h, i, q),
      cb   |-> <<"cb" \in x.dc, x.cb[q] > 0>>,
      cr   |-> <<"cr" \in x.dc, x.cr[q] > 0>>]

(* QP_Y of a macroblock: 7.4.5. *)
QpOf(h, i, sliceQp) ==
  LET first == CHOOSE j \in 0..i : h[j].slice = h[i].slice /\ (j = 0 \/ h[j - 1].slice # h[i].slice)
      Step(qp, j) == IF h[j].x.kind = "Skip" \/ ~HasQpDelta(h[j].x) THEN qp
                     ELSE (qp + h[j].x.delta + 52) % 52
  IN FoldLeft(Step, sliceQp, [k \in 1..(i - first + 1) |-> first + k - 1])

-----------------------------------------------------------------------------
(* Edges (8.7.2.1), of frame macroblocks.  e: <<macroblock, quadrant,       *)
(* <<dx, dy>>>>, the edge of the quadrant towards dx, dy; strength "motion" *)
(* where references and vectors decide.                                    *)
StrengthBetween(h, i, q, j, p) ==
  LET coded(k, r) == h[k].x.kind \in {"Inter", "Direct"} /\ r \in h[k].x.luma /\ h[k].x.nz[r] > 0
  IN CASE j = NoMb -> "none"
       [] j # NoMb /\ (Intra(h[i].x) \/ Intra(h[j].x)) -> IF i = j THEN "3" ELSE "4"
       [] j # NoMb /\ ~Intra(h[i].x) /\ ~Intra(h[j].x) ->
            IF coded(i, q) \/ coded(j, p) THEN "2" ELSE "motion"
EdgeStrength(s, h, i, q, d) ==
  LET x == (q % 2) + d[1]
      y == (q \div 2) + d[2]
      Beyond(o) == <<"frame", o[2] + (x \div 2), o[3] + (y \div 2)>>
  IN StrengthBetween(h, i, q, MbAt(s, h, Beyond(Origin(s, h, i))), (x % 2) + 2 * (y % 2))

(* The edges inside a quadrant are transform edges only without the 8x8     *)
(* transform.                                                              *)
InnerStrength(h, i, q) ==
  LET x == h[i].x
  IN IF x.t8 THEN "none" ELSE IF Intra(x) THEN "3"
     ELSE IF x.kind \in {"Inter", "Direct"} /\ q \in x.luma /\ x.nz[q] > 0 THEN "2" ELSE "motion"
=============================================================================

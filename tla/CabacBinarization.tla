------------------------- MODULE CabacBinarization -------------------------
(***************************************************************************)
(* Clauses 9.3.2 and 9.3.3.1 as the standard writes them: the bin string  *)
(* of every value of a syntax element, and by binIdx the context variable  *)
(* of each of its bins.  CabacSyntax is compared with it.                  *)
(*                                                                         *)
(* e is [elem, val, a, b], a and b what the neighbours say; a coding is    *)
(* [bins, ctxs].  Bins are counted from 0.                                 *)
(***************************************************************************)
EXTENDS CabacSyntax, SequencesExt

Coding(bins, ctxs) == [bins |-> bins, ctxs |-> ctxs]
BinContexts(bins, Ctx(_)) == Coding(bins, [k \in 1..Len(bins) |-> Ctx(k - 1)])
Flag(c) == IF c THEN 1 ELSE 0

-----------------------------------------------------------------------------
(* 9.3.2: binarizations *)

FixedLength(v, n) == [k \in 1..n |-> (v \div (2 ^ (n - k))) % 2]
UnaryBins(v) == [k \in 1..v + 1 |-> IF k <= v THEN 1 ELSE 0]
Truncated(v, cMax) == IF v < cMax THEN UnaryBins(v) ELSE [k \in 1..cMax |-> 1]

ExpGolomb(v, k0) ==
  LET suffix[k \in k0..k0 + 20, s \in 0..v] ==
        IF s >= 2 ^ k THEN <<1>> \o suffix[k + 1, s - (2 ^ k)] ELSE <<0>> \o FixedLength(s, k)
  IN suffix[k0, v]

Abs(v) == IF v < 0 THEN -v ELSE v
UEG(v, k, uCoff) == Truncated(v, uCoff) \o (IF v < uCoff THEN <<>> ELSE ExpGolomb(v - uCoff, k))
SignBin(v) == IF v = 0 THEN <<>> ELSE <<Flag(v < 0)>>
MappedCode(v) == IF v > 0 THEN (2 * v) - 1 ELSE -2 * v

(* Tables 9-36 and 9-37 *)
IntraBins(v) ==
  IF v = 0 THEN <<0>> ELSE IF v = 25 THEN <<1, 1>>
  ELSE <<1, 0, (v - 1) \div 12>> \o Truncated(((v - 1) \div 4) % 3, 2)
       \o FixedLength((v - 1) % 4, 2)
PBins == <<<<0, 0, 0>>, <<0, 1, 1>>, <<0, 1, 0>>, <<0, 0, 1>>>>
BBins ==
  <<<<0>>, <<1, 0, 0>>, <<1, 0, 1>>>>
  \o [k \in 1..8 |-> <<1, 1>> \o FixedLength(k - 1, 4)]
  \o <<<<1, 1, 1, 1, 1, 0>>>>
  \o [k \in 1..10 |-> <<1, 1>> \o FixedLength(15 + k, 5)]
  \o <<<<1, 1, 1, 1, 1, 1>>>>
PSubBins == <<<<1>>, <<0, 0>>, <<0, 1, 1>>, <<0, 1, 0>>>>
BSubBins ==
  <<<<0>>, <<1, 0, 0>>, <<1, 0, 1>>, <<1, 1, 0, 0, 0>>, <<1, 1, 0, 0, 1>>, <<1, 1, 0, 1, 0>>,
    <<1, 1, 0, 1, 1>>, <<1, 1, 1, 0, 0, 0>>, <<1, 1, 1, 0, 0, 1>>, <<1, 1, 1, 0, 1, 0>>,
    <<1, 1, 1, 0, 1, 1>>, <<1, 1, 1, 1, 0>>, <<1, 1, 1, 1, 1>>>>

-----------------------------------------------------------------------------
(* 9.3.3.1: context indices *)

Neighbours(e) == Flag(e.a) + Flag(e.b)

IntraSliceType(v, inc) ==
  LET bins == IntraBins(v)
  IN BinContexts(bins, LAMBDA k :
       IF k = 0 THEN 3 + inc ELSE IF k = 1 THEN "terminate" ELSE IF k < 4 THEN 4 + k
       ELSE IF k = 4 THEN 3 + (IF bins[4] # 0 THEN 5 ELSE 6)
       ELSE IF k = 5 THEN 3 + (IF bins[4] # 0 THEN 6 ELSE 7) ELSE 10)
IntraSuffix(v, offset) ==
  LET bins == IntraBins(v)
  IN BinContexts(bins, LAMBDA k :
       IF k = 0 THEN offset ELSE IF k = 1 THEN "terminate" ELSE IF k < 4 THEN offset + k - 1
       ELSE IF k = 4 THEN offset + (IF bins[4] # 0 THEN 2 ELSE 3) ELSE offset + 3)
Prefixed(prefix, suffix) == Coding(prefix.bins \o suffix.bins, prefix.ctxs \o suffix.ctxs)

PType(v) ==
  IF v >= 5 THEN Prefixed(Coding(<<1>>, <<14>>), IntraSuffix(v - 5, 17))
  ELSE LET bins == PBins[v + 1]
       IN BinContexts(bins, LAMBDA k : IF k < 2 THEN 14 + k ELSE IF bins[2] # 1 THEN 16 ELSE 17)
BPrefix(bins, inc) ==
  BinContexts(bins, LAMBDA k :
    IF k = 0 THEN 27 + inc ELSE IF k = 1 THEN 30
    ELSE IF k = 2 /\ bins[2] # 0 THEN 31 ELSE 32)
BType4(v, inc) ==
  IF v >= 23 THEN Prefixed(BPrefix(<<1, 1, 1, 1, 0, 1>>, inc), IntraSuffix(v - 23, 32))
  ELSE BPrefix(BBins[v + 1], inc)
BSubType(bins) ==
  BinContexts(bins, LAMBDA k :
    36 + (IF k < 2 THEN k ELSE IF k = 2 /\ bins[2] # 0 THEN 2 ELSE 3))

(* A mode that is not the predicted one is coded without it. *)
IntraMode(mode, pred) ==
  IF mode = pred THEN Coding(<<1>>, <<68>>)
  ELSE Coding(<<0>> \o Reverse(FixedLength(IF mode > pred THEN mode - 1 ELSE mode, 3)),
              <<68, 69, 69, 69>>)

(* 9.3.3.1.1.4: a neighbouring 8x8 block without coefficients counts. *)
CbpLuma(cbp, left, top) ==
  LET Here(k) == Flag(k \notin cbp)
  IN Coding([k \in 1..4 |-> Flag(k - 1 \in cbp)],
            <<73 + Flag(1 \notin left) + (2 * Flag(2 \notin top)),
              73 + Here(0) + (2 * Flag(3 \notin top)),
              73 + Flag(3 \notin left) + (2 * Here(0)),
              73 + Here(2) + (2 * Here(1))>>)
CbpChroma(v, left, top) ==
  BinContexts(Truncated(v, 2), LAMBDA k :
    77 + (IF k = 0 THEN Flag(left # 0) + (2 * Flag(top # 0))
          ELSE 4 + Flag(left = 2) + (2 * Flag(top = 2))))

UnaryContexts(bins, first, second) ==
  BinContexts(bins, LAMBDA k : IF k = 0 THEN first ELSE second + Flag(k > 1))

Mvd(v, offset, sum) ==
  LET prefix == Truncated(Abs(v), 9)
      bins   == UEG(Abs(v), 3, 9) \o SignBin(v)
  IN BinContexts(bins, LAMBDA k :
       IF k >= Len(prefix) THEN "bypass"
       ELSE IF k = 0 THEN offset + Flag(sum > 2) + Flag(sum > 32)
       ELSE IF k < 4 THEN offset + 2 + k ELSE offset + 6)

-----------------------------------------------------------------------------
(* 7.3.5.3.3: residual_block_cabac; val is the sequence of <<place, level>>  *)
(* of increasing places.  The context indices of 8x8 blocks (Table 9-43,     *)
(* frame coded) are those of the code.                                       *)

BlockCatOffset == <<0, 15, 29, 44, 47, 0>>
MapCtx(cat, first, first8x8, table, place) ==
  IF cat = 5 THEN first8x8 + table[place + 1] ELSE first + BlockCatOffset[cat + 1] + place

SignificantCtx(cat, field, place) ==
  MapCtx(cat, IF field THEN 277 ELSE 105, IF field THEN 436 ELSE 402,
         SIGNIFICANT_COEFF_FLAG_OFFSET_8X8, place)
LastSignificantCtx(cat, field, place) ==
  MapCtx(cat, IF field THEN 338 ELSE 166, IF field THEN 451 ELSE 417,
         LAST_COEFF_FLAG_OFFSET_8X8, place)

(* The flags of a place: none at the end of the block, where it is inferred. *)
MapOf(val, cat, max, field, place) ==
  LET places == {val[k][1] : k \in 1..Len(val)}
      end    == Max(places)
  IN IF place > end \/ place = max - 1 THEN Coding(<<>>, <<>>)
     ELSE IF place \notin places THEN Coding(<<0>>, <<SignificantCtx(cat, field, place)>>)
     ELSE Coding(<<1, Flag(place = end)>>,
                 <<SignificantCtx(cat, field, place), LastSignificantCtx(cat, field, place)>>)

LevelOffset == <<227, 237, 247, 257, 266, 426>>
LevelOf(val, cat, n) ==
  LET later  == n + 1..Len(val)
      gt1    == Cardinality({k \in later : Abs(val[k][2]) > 1})
      eq1    == Cardinality({k \in later : Abs(val[k][2]) = 1})
      prefix == Truncated(Abs(val[n][2]) - 1, 14)
      bins   == UEG(Abs(val[n][2]) - 1, 0, 14) \o SignBin(val[n][2])
  IN BinContexts(bins, LAMBDA k :
       IF k >= Len(prefix) THEN "bypass"
       ELSE IF k = 0 THEN LevelOffset[cat + 1] + (IF gt1 # 0 THEN 0 ELSE Min({4, 1 + eq1}))
       ELSE LevelOffset[cat + 1] + 5 + Min({IF cat = 3 THEN 3 ELSE 4, gt1}))

Joined(codings) ==
  Coding(FlattenSeq([k \in 1..Len(codings) |-> codings[k].bins]),
         FlattenSeq([k \in 1..Len(codings) |-> codings[k].ctxs]))
Residual(val, cat, max, field) ==
  Prefixed(Joined([k \in 1..max |-> MapOf(val, cat, max, field, k - 1)]),
           Joined([k \in 1..Len(val) |-> LevelOf(val, cat, Len(val) + 1 - k)]))

-----------------------------------------------------------------------------
(* The coding of a syntax element. *)
StandardCoding(e) ==
  CASE e.elem = "mb_skip_p"  -> Coding(<<e.val>>, <<11 + 2 - Neighbours(e)>>)
    [] e.elem = "mb_skip_b"  -> Coding(<<e.val>>, <<24 + 2 - Neighbours(e)>>)
    [] e.elem = "mb_type_i"  -> IntraSliceType(e.val, Neighbours(e))
    [] e.elem = "mb_type_p"  -> PType(e.val)
    [] e.elem = "mb_type_b"  -> BType4(e.val, Neighbours(e))
    [] e.elem = "sub_type_p" -> BinContexts(PSubBins[e.val + 1], LAMBDA k : 21 + k)
    [] e.elem = "sub_type_b" -> BSubType(BSubBins[e.val + 1])
    [] e.elem = "intra_mode" -> IntraMode(e.val, e.a)
    [] e.elem = "chroma_mode" ->
         BinContexts(Truncated(e.val, 3), LAMBDA k :
           IF k = 0 THEN 64 + Flag(e.a # 0) + Flag(e.b # 0) ELSE 67)
    [] e.elem = "cbp_luma"   -> CbpLuma(e.val, e.a, e.b)
    [] e.elem = "cbp_chroma" -> CbpChroma(e.val, e.a, e.b)
    [] e.elem = "ref_idx"    ->
         UnaryContexts(UnaryBins(e.val), 54 + Flag(e.a > 0) + (2 * Flag(e.b > 0)), 58)
    [] e.elem = "qp_delta"   -> UnaryContexts(UnaryBins(MappedCode(e.val)), 60 + Flag(e.a), 62)
    [] e.elem = "mvd_x"      -> Mvd(e.val, 40, e.a)
    [] e.elem = "mvd_y"      -> Mvd(e.val, 47, e.a)
    [] e.elem = "coded_block" ->
         Coding(<<e.val>>,
                <<(IF e.a = 5 THEN 1012 ELSE 85 + (4 * e.a))
                  + Flag(1 \in e.b) + (2 * Flag(2 \in e.b))>>)
    [] e.elem = "residual"   -> Residual(e.val, e.a.cat, e.a.max, e.b)
=============================================================================

------------------------------ MODULE MbLayer ------------------------------
(***************************************************************************)
(* The macroblocks of one picture: the slices' loop of decode_slice        *)
(* (decoder.rs) over decode_cabac_mb and decode_cavlc_mb, then the edges   *)
(* the deblocking filter sees.                                             *)
(*                                                                         *)
(* A behaviour decodes one picture of TotalMbs macroblocks: a header is    *)
(* chosen, then slice by slice and macroblock by macroblock the syntax     *)
(* comes from the header's menu.  Slices arrive complete and in order.     *)
(***************************************************************************)
EXTENDS MbCabac, MbCavlc

CONSTANTS
  TotalMbs,   \* macroblocks of the picture
  SliceQp,    \* SliceQPY of every slice
  Headers     \* sequence of records: the header fields of SliceContext, `types`
              \* (slice types used), `menu` (type -> syntaxes), `slices` (most)

Mbs == 0..(TotalMbs - 1)

VARIABLES
  c,        \* the arrays and variables of decode_slice (SliceContext)
  hdr,      \* the header, by its place in Headers
  phase,    \* "between" slices, in a "slice", "done"
  first,    \* first_mb of the slice
  skipRun,  \* mb_skip_run
  hist      \* what has been decoded: macroblock -> record (not in the code)

vars == <<c, hdr, phase, first, skipRun, hist>>

S == INSTANCE MbStandard
Hdr == Headers[hdr]

-----------------------------------------------------------------------------

(* make_ctx and SliceParams over the arrays of a new PictureState. *)
NewContext(h) ==
  [arr |-> [i \in Mbs |-> FreshMb], field |-> [p \in 0..(TotalMbs \div 2) |-> FALSE],
   i |-> 0, id |-> 0, w |-> h.w, mbaff |-> h.mbaff, type |-> "I", numref |-> h.numref,
   constrained |-> h.constrained, t8mode |-> h.t8mode, weight |-> h.weight,
   infer8x8 |-> TRUE, cabac |-> h.cabac, qp |-> 0, lastd |-> FALSE, used |-> <<>>,
   rows |-> {}]

Init ==
  /\ hdr \in DOMAIN Headers
  /\ c = NewContext(Hdr)
  /\ phase = "between" /\ first = 0 /\ skipRun = -1
  /\ hist = <<>>

Decoded == DOMAIN hist
Total == TotalMbs

(* Mutant: the QP of the last slice goes on. *)
StartSliceKeepsQp(type) ==
  /\ phase = "between"
  /\ c' = [c EXCEPT !.type = type, !.id = IF c.i = 0 THEN 0 ELSE @ + 1,
                    !.qp = IF c.i = 0 THEN SliceQp ELSE @, !.lastd = FALSE]
  /\ phase' = "slice" /\ first' = c.i /\ skipRun' = -1
  /\ UNCHANGED <<hdr, hist>>

(* Mutant: a continued picture keeps the slice number. *)
StartSliceKeepsId(type) ==
  /\ phase = "between"
  /\ c' = [c EXCEPT !.type = type, !.qp = SliceQp, !.lastd = FALSE]
  /\ phase' = "slice" /\ first' = c.i /\ skipRun' = -1
  /\ UNCHANGED <<hdr, hist>>

(* A slice is continued with the next number and its own QP. *)
StartSlice(type) ==
  /\ phase = "between"
  /\ c' = [c EXCEPT !.type = type, !.id = IF c.i = 0 THEN 0 ELSE @ + 1,
                    !.qp = SliceQp, !.lastd = FALSE]
  /\ phase' = "slice" /\ first' = c.i /\ skipRun' = -1
  /\ UNCHANGED <<hdr, hist>>

(* The macroblock is stamped with the slice before anything is read. *)
Stamped == [c EXCEPT !.arr[c.i].slice = c.id, !.used = <<>>]

Log(k, x) ==
  hist' = [i \in Decoded \cup {c.i} |->
             IF i = c.i THEN [x |-> x, slice |-> c.id, type |-> c.type,
                              used |-> k.used, rows |-> k.rows] ELSE hist[i]]

(* The arrays hold the macroblock; on to the next. *)
Advance(k) == [k EXCEPT !.i = @ + 1]

DecodeCabacMb(x) ==
  /\ phase = "slice" /\ Hdr.cabac /\ c.i < Total
  /\ \E k \in {decode_cabac_mb(Stamped, x)} : c' = Advance(k) /\ Log(k, x)
  /\ UNCHANGED <<hdr, phase, first, skipRun>>

(* end_of_slice_flag: before every macroblock but the slice's first, after  *)
(* the bottom one of a pair in MBAFF.  The stamp is already there.         *)
CabacEndOfSlice ==
  /\ phase = "slice" /\ Hdr.cabac /\ c.i > first
  /\ Hdr.mbaff => c.i % 2 = 0
  /\ LET k == IF c.i < Total /\ ~Hdr.mbaff THEN Stamped ELSE c
     IN c' = finalize_mb_info(k, first..(c.i - 1))
  /\ phase' = IF c.i = Total THEN "done" ELSE "between"
  /\ UNCHANGED <<hdr, first, skipRun, hist>>

(* mb_skip_run is read, and its first macroblock decoded at once. *)
ReadSkipRun(n) ==
  /\ phase = "slice" /\ ~Hdr.cabac /\ c.type # "I" /\ c.i < Total /\ skipRun = -1
  /\ n \in 1..(Total - c.i)
  /\ skipRun' = n
  /\ UNCHANGED <<c, hdr, phase, first, hist>>

Skipped(k, x) ==
  SetInfo(IF c.type = "P" THEN decode_p_skip_mb(k) ELSE decode_b_skip_mb(k, x.refs), "Inter", c.qp)

(* Mutant: a skipped macroblock forgets the MBAFF layout. *)
SkippedKeepsLayout(x) ==
  /\ phase = "slice" /\ ~Hdr.cabac /\ c.i < Total /\ skipRun > 0 /\ x.kind = "Skip"
  /\ skipRun' = skipRun - 1
  /\ \E k \in {Skipped(Put(Stamped, "skip", TRUE), x)} : c' = Advance(k) /\ Log(k, x)
  /\ UNCHANGED <<hdr, phase, first>>

SkipCavlcMb(x) ==
  /\ phase = "slice" /\ ~Hdr.cabac /\ c.i < Total /\ skipRun > 0 /\ x.kind = "Skip"
  /\ skipRun' = skipRun - 1
  /\ \E k \in {Skipped(set_mb_layout(Put(Stamped, "skip", TRUE)), x)} : c' = Advance(k) /\ Log(k, x)
  /\ UNCHANGED <<hdr, phase, first>>

(* A run of zero: the macroblock follows, in MBAFF after the pair's flag    *)
(* when this is its first macroblock that is not skipped.                  *)
DecodeCavlcMb(x) ==
  LET flag == /\ c.mbaff
              /\ c.i % 2 = 0 \/ (c.type # "I" /\ c.arr[c.i - 1].skip)
      k1 == IF flag THEN Read([Stamped EXCEPT !.field[c.i \div 2] = x.field], <<"field_flag", 0>>)
            ELSE Stamped
  IN /\ phase = "slice" /\ ~Hdr.cabac /\ c.i < Total /\ skipRun <= 0 /\ x.kind # "Skip"
     /\ skipRun' = -1
     /\ \E k \in {decode_cavlc_mb(set_mb_layout(k1), x)} : c' = Advance(k) /\ Log(k, x)
     /\ UNCHANGED <<hdr, phase, first>>

(* more_rbsp_data is false, or the picture is full. *)
CavlcEndOfSlice ==
  /\ phase = "slice" /\ ~Hdr.cabac /\ c.i > first /\ skipRun <= 0
  /\ Hdr.mbaff => c.i % 2 = 0
  /\ c' = finalize_mb_info(c, first..(c.i - 1))
  /\ phase' = IF c.i = Total THEN "done" ELSE "between"
  /\ UNCHANGED <<hdr, first, skipRun, hist>>

(* The two macroblocks of a pair carry the same flag. *)
Fits(x) ==
  (Hdr.mbaff /\ c.i % 2 = 1 /\ x.kind # "Skip" /\ hist[c.i - 1].x.kind # "Skip")
     => x.field = hist[c.i - 1].x.field

SliceCount == c.id + 1

Next ==
  \/ \E type \in Hdr.types : (c.i > 0 => SliceCount < Hdr.slices) /\ StartSlice(type)
  \/ \E x \in Hdr.menu[c.type] : Fits(x) /\ (DecodeCabacMb(x) \/ SkipCavlcMb(x) \/ DecodeCavlcMb(x))
  \/ (\E x \in Hdr.menu[c.type] : x.kind = "Skip") /\ \E n \in 1..Total : ReadSkipRun(n)
  \/ (c.i < Total => SliceCount < Hdr.slices) /\ (CabacEndOfSlice \/ CavlcEndOfSlice)
  \/ phase = "done" /\ UNCHANGED vars

Spec == Init /\ [][Next]_vars

-----------------------------------------------------------------------------
(* Properties *)

TypeOK ==
  /\ phase \in {"between", "slice", "done"}
  /\ c.i \in 0..Total /\ Decoded = 0..(c.i - 1)
  /\ c.qp \in 0..51 /\ skipRun \in -1..Total
  /\ \A i \in Mbs :
       /\ c.arr[i].luma \subseteq Quads /\ c.arr[i].chroma \in 0..2
       /\ \A q \in Quads : c.arr[i].nz[q] \in 0..16

(* The macroblocks that are complete with this step: one, or in MBAFF a     *)
(* pair, for only then its flag is known for certain.                      *)
JustDone ==
  IF phase # "slice" \/ c.i = first THEN {}
  ELSE IF ~Hdr.mbaff THEN {c.i - 1} ELSE IF c.i % 2 = 0 THEN {c.i - 2, c.i - 1} ELSE {}

(* The neighbours in a picture of frame and field pairs are not compared:   *)
(* all pairs are of one kind, the field pairs in one row.                  *)
FieldAt(i) == S!FieldPair(c, hist, i)
OneKindOfPair ==
  \/ \A i \in Decoded : ~FieldAt(i)
  \/ TotalMbs <= 2 * Hdr.w /\ \A i \in Decoded : FieldAt(i)

(* Where the code is known to differ from the standard (README, 6). *)
BesidePcm(i) ==
  \E n \in {S!MbA(c, hist, i), S!MbB(c, hist, i)} : n # None /\ hist[n].x.kind = "I_PCM"
PairOfOtherSlice(i) ==
  \E d \in {1, Hdr.w} : i \div 2 >= d /\ hist[2 * (i \div 2 - d)].slice # hist[i].slice
FlagAfterSkippedTop(i) ==
  Hdr.mbaff /\ FieldAt(i) /\ hist[2 * (i \div 2)].x.kind = "Skip"
FieldIndexUnscaled(i) ==
  FieldAt(i) /\ hist[i].type = "B" /\ (~Hdr.cabac \/ hist[i].x.kind = "Skip")
FieldIndexOfWeights(i) == FieldAt(i) /\ Hdr.weight > 0
ChromaOfList1(i, q) ==
  /\ Hdr.cabac /\ Hdr.weight = 1 /\ hist[i].type = "B" /\ hist[i].x.kind # "Skip"
  /\ ~Intra(hist[i].x) /\ RefOf(hist[i].x, 0, q) < 0
PcmBefore(i) ==
  \E j \in 0..(i - 1) : hist[j].slice = hist[i].slice /\ hist[j].x.kind = "I_PCM"

KnownElement(i, e) ==
  \/ Hdr.cabac /\ BesidePcm(i) /\ e[1] \in {"cbp_luma", "cbp_chroma", "cbf_dc"}
  \/ PairOfOtherSlice(i) /\ e[1] = "field_flag"
  \/ FieldIndexUnscaled(i) /\ e[1] = "ref_idx"

(* The elements of every macroblock are read in the standard's order, each  *)
(* with the context increment, nC, range or predicted mode the standard     *)
(* derives from the neighbours: decode_cabac_mb, decode_cavlc_mb and        *)
(* neighbor.rs keep the arrays those are taken from.                       *)
ContextsFollowStandard ==
  OneKindOfPair =>
    \A i \in JustDone :
      LET Compared(e) == ~KnownElement(i, e)
      IN SelectSeq(hist[i].used, Compared) = SelectSeq(S!ElementsOf(c, hist, i), Compared)

(* Every quadrant is predicted from the neighbouring samples, pictures,     *)
(* fields and weights of the standard, and gets the residual it has levels  *)
(* for (reconstruct_*, IntraSides, mc_params, apply_uni, apply_bi).        *)
SamplesFollowStandard ==
  OneKindOfPair =>
    \A i \in {j \in JustDone : ~(FlagAfterSkippedTop(j) \/ FieldIndexUnscaled(j) \/ FieldIndexOfWeights(j))} :
      /\ c.arr[i].y = S!LumaOf(c, hist, i)
      /\ \A q \in Quads : ChromaOfList1(i, q) \/ c.arr[i].uv[q] = S!ChromaOf(c, hist, i, q)

(* The QP the deblocking filter is given is QP_Y, zero for I_PCM: carried   *)
(* through skipped and uncoded macroblocks, started again by every slice.   *)
QpFollowsStandard ==
  \A i \in JustDone :
    PcmBefore(i) \/ c.arr[i].info.qp =
      (IF hist[i].x.kind = "I_PCM" THEN 0 ELSE S!QpOf(hist, i, SliceQp))

(* Once the slices are finalised the filter sees every edge with the        *)
(* strength of the standard, across slices too (finalize_mb_info,           *)
(* derive_bs); with CAVLC it takes 8x8 transforms for 4x4.                 *)
EdgesFollowStandard ==
  phase = "done" /\ (\A i \in Mbs : ~FieldAt(i)) =>
    \A i \in Mbs, q \in Quads :
      /\ vertical_edge(c, i, q) = S!EdgeStrength(c, hist, i, q, <<-1, 0>>)
      /\ horizontal_edge(c, i, q) = S!EdgeStrength(c, hist, i, q, <<0, -1>>)
      /\ (Hdr.cabac \/ ~hist[i].x.t8) => inner_edges(c, i, q) = S!InnerStrength(hist, i, q)

(* "True if this MB uses 8x8 transform (High profile                       *)
(* transform_size_8x8_flag)": MbInfo::is_8x8dct, deblock.rs:41-42.         *)
TransformFlagReachesFilter ==
  phase = "done" => \A i \in Mbs : c.arr[i].info.t8 = hist[i].x.t8

(* A picture is complete: each row of each column of macroblocks has been   *)
(* written by exactly one macroblock (set_mb_layout), unless a field pair's *)
(* flag came after its skipped top macroblock.                             *)
RowsWrittenOnce ==
  phase = "done" /\ (\A i \in Mbs : ~FlagAfterSkippedTop(i)) =>
    \A col \in 0..(Hdr.w - 1), row \in 0..(16 * (TotalMbs \div Hdr.w) - 1) :
      Cardinality({i \in Mbs : /\ (IF Hdr.mbaff THEN i \div 2 ELSE i) % Hdr.w = col
                               /\ row \in hist[i].rows}) = 1
=============================================================================

------------------------------ MODULE BitInput ------------------------------
(***************************************************************************)
(* From the bytes of a stream to parameter sets, slice headers, bins and   *)
(* syntax elements: NalFraming, BitReader, HeaderSyntax, CabacEngine and   *)
(* CabacSyntax or CavlcSyntax as decode_nal and decode_slice (decoder.rs)  *)
(* compose them.                                                           *)
(*                                                                         *)
(* A stream is written as the standard says (StreamWriter) from the        *)
(* headers of Streams, framed as Framings say, and read.  What is read is  *)
(* compared with what was written.                                         *)
(***************************************************************************)
EXTENDS CabacEngine, HeaderSyntax, NalFraming, CabacSyntax, SequencesExt

CONSTANTS Streams,    \* [sps, pps, nal, slice, payload, order, framing, elems, maxBins]
          Elements,   \* families [elem, vals, as, bs] of syntax elements
          Follow      \* what may follow the bins of an element

VARIABLES stream,     \* the stream that was written, or None
          units,      \* the units read from it
          handled,    \* how many of them decode_nal has seen
          sps, pps, slice, \* what was parsed: [r, h], or None
          lists,      \* the scaling lists of the PPS
          bins,       \* bins decoded since the slice started
          element     \* the syntax element decoded last

input == <<stream, units, handled, sps, pps, slice, lists, bins, element>>
None == [none |-> TRUE]

Writer == INSTANCE StreamWriter

-----------------------------------------------------------------------------
(* What is written *)

SliceBits(s) == Writer!slice_header(s.slice, s.nal, s.sps, s.pps)
SliceRbsp(s) ==
  IF s.pps.entropy_coding_mode_flag = 1
  THEN Writer!Bytes(Writer!Aligned(SliceBits(s))) \o s.payload
  ELSE Writer!Bytes(Writer!Trailing(SliceBits(s))) \o s.payload
Unit(s, kind) ==
  IF kind = "sps"
  THEN [ref |-> 3, type |-> 7,
        rbsp |-> Writer!Bytes(Writer!Trailing(Writer!seq_parameter_set_data(s.sps)))]
  ELSE IF kind = "pps"
  THEN [ref |-> 3, type |-> 8,
        rbsp |-> Writer!Bytes(Writer!Trailing(Writer!pic_parameter_set(s.pps)))]
  ELSE IF kind = "slice" THEN [ref |-> s.nal.ref, type |-> s.nal.type, rbsp |-> SliceRbsp(s)]
  ELSE [ref |-> 0, type |-> 6, rbsp |-> s.payload]
Sent(s) == [k \in 1..Len(s.order) |-> Unit(s, s.order[k])]

Uncut(bytes, cut) == SubSeq(bytes, 1, Len(bytes) - cut)
FromConfig(config, sample) == config.sps \o config.pps \o ParseAvcc(sample, config.size)
Received(s, f) ==
  IF f.kind = "annexb" THEN ParseAnnexB(Writer!ByteStream(Sent(s), f))
  ELSE IF f.kind = "avcc" THEN ParseAvcc(Uncut(Writer!Sample(Sent(s), f.size), f.cut), f.size)
  ELSE FromConfig(ParseAvccConfig(Writer!avcC(<<Unit(s, "sps")>>, <<Unit(s, "pps")>>, f.size)),
                  Writer!Sample(SubSeq(Sent(s), 3, Len(s.order)), f.size))

-----------------------------------------------------------------------------
(* Which streams can be written *)

(* An RBSP ends in its stop bit or in pairs of zero bytes behind it, as      *)
(* cabac_zero_words are; type 0 is unspecified.                              *)
LegalUnit(n) ==
  /\ n.ref \in 0..3 /\ n.type \in 1..31 /\ n.rbsp \in Seq(0..255)
  /\ Writer!ZerosBefore(n.rbsp, Len(n.rbsp) + 1) % 2 = 0
(* The length of the unit n fits in size bytes. *)
Fits(n, size) == Len(Writer!nal_unit(n)) \div (256 ^ (size - 1)) < 256

LegalAnnexB(f) ==
  f.start \in {<<0, 0, 1>>, <<0, 0, 0, 1>>} /\ f.leading \in Seq({0}) /\ f.trailing \in Seq({0})
LegalSample(sent, size) == size \in LengthSizes /\ \A k \in 1..Len(sent) : Fits(sent[k], size)
LegalCut(sent, f) ==
  \/ f.cut = 0
  \/ Len(sent) > 0 /\ f.cut \in 1..f.size + Len(Writer!nal_unit(sent[Len(sent)]))
LegalFraming(s, f) ==
  \/ f.kind = "annexb" /\ LegalAnnexB(f)
  \/ f.kind = "avcc" /\ LegalSample(Sent(s), f.size) /\ LegalCut(Sent(s), f)
  \/ /\ f.kind = "mp4" /\ LegalSample(Sent(s), f.size)
     /\ Len(s.order) >= 2 /\ s.order[1] = "sps" /\ s.order[2] = "pps"
     /\ Fits(Unit(s, "sps"), 2) /\ Fits(Unit(s, "pps"), 2)
LegalStream(s) ==
  /\ s.order \in Seq({"sps", "pps", "sei", "slice"})
  /\ \A k \in 1..Len(s.order) : LegalUnit(Unit(s, s.order[k]))
  /\ LegalFraming(s, s.framing)

ASSUME StreamsAssumption == \A s \in Streams : LegalStream(s)

-----------------------------------------------------------------------------
(* decode_nal *)

Deliver(s) ==
  /\ stream = None
  /\ stream' = s
  /\ units' = Received(s, s.framing)
  /\ UNCHANGED <<vars, handled, sps, pps, slice, lists, bins, element>>

Handle(type) ==
  /\ handled < Len(units)
  /\ units[handled + 1].type \in type
  /\ handled' = handled + 1

Parsed(x) == IF x.r.ok THEN x ELSE None
ReadSps ==
  /\ Handle({7})
  /\ sps' = Parsed(parse_sps(units[handled + 1].rbsp))
  /\ UNCHANGED <<vars, stream, units, pps, slice, lists, bins, element>>

(* The lists of the SPS are taken over now, whichever SPS is active later. *)
ReadPps ==
  /\ Handle({8})
  /\ pps' = Parsed(parse_pps(units[handled + 1].rbsp))
  /\ lists' = IF pps' = None THEN <<>>
              ELSE PpsLists(pps'.h, IF sps = None THEN Nothing ELSE sps.h)
  /\ UNCHANGED <<vars, stream, units, sps, slice, bins, element>>

Header(unit) ==
  Parsed(parse_slice_header(unit.rbsp, sps.h, pps.h, unit.type = 5, unit.ref > 0))
ReadSlice ==
  /\ engine = Stopped
  /\ Handle({1, 5})
  /\ IF sps = None \/ pps = None THEN UNCHANGED <<slice, data>>
     ELSE slice' = Header(units[handled + 1]) /\ data' = units[handled + 1].rbsp
  /\ bins' = 0
  /\ UNCHANGED <<engine, state, bin, stream, units, sps, pps, lists, element>>

Ignore ==
  /\ Handle(0..31 \ {1, 5, 7, 8})
  /\ UNCHANGED <<vars, stream, units, sps, pps, slice, lists, bins, element>>

-----------------------------------------------------------------------------
(* decode_slice: the arithmetic decoder starts at the byte behind the header. *)
StartCabac ==
  /\ slice # None
  /\ bins = 0
  /\ pps.h.entropy_coding_mode_flag = 1
  /\ StartSlice(AlignToByte(slice.r).byte, qp_y(slice.h, pps.h))
  /\ UNCHANGED input

(* The macroblock layer asks for bins of any kind in any order. *)
DecodeBin ==
  /\ engine # Stopped
  /\ bins < stream.maxBins
  /\ bins' = bins + 1
  /\ \/ \E ctx \in Contexts : GetCabac(ctx)
     \/ GetCabacBypass
     \/ GetCabacTerminate
  /\ UNCHANGED <<stream, units, handled, sps, pps, slice, lists, element>>

(* A syntax element e, of which b are the bins that come; of a residual      *)
(* block without CABAC the bits.                                             *)
Cavlc == INSTANCE CavlcCoding
Decoded(e, b) ==
  CASE e.elem = "residual_cavlc" -> Cavlc!parse_residual_block_cavlc(b, e.a.max, e.b)
    [] e.elem = "mb_skip_p"   -> decode_mb_skip(b, e.a, e.b, FALSE)
    [] e.elem = "mb_skip_b"   -> decode_mb_skip(b, e.a, e.b, TRUE)
    [] e.elem = "mb_type_i"   -> decode_intra_mb_type(b, 3, Inc(e.a) + Inc(e.b), TRUE)
    [] e.elem = "mb_type_p"   -> decode_p_mb_type(b)
    [] e.elem = "mb_type_b"   -> decode_b_mb_type(b, e.a, e.b)
    [] e.elem = "sub_type_p"  -> decode_p_sub_mb_type(b)
    [] e.elem = "sub_type_b"  -> decode_b_sub_mb_type(b)
    [] e.elem = "intra_mode"  -> decode_intra4x4_pred_mode(b, e.a)
    [] e.elem = "chroma_mode" -> decode_chroma_pred_mode(b, e.a, e.b)
    [] e.elem = "cbp_luma"    -> decode_cbp_luma(b, e.a, e.b)
    [] e.elem = "cbp_chroma"  -> decode_cbp_chroma(b, e.a, e.b)
    [] e.elem = "ref_idx"     -> decode_ref_idx(b, e.a, e.b)
    [] e.elem = "qp_delta"    -> decode_mb_qp_delta(b, e.a)
    [] e.elem = "mvd_x"       -> decode_mvd_comp(b, 40, e.a)
    [] e.elem = "mvd_y"       -> decode_mvd_comp(b, 47, e.a)
    [] e.elem = "coded_block" -> decode_coded_block_flag(b, e.a, 1 \in e.b, 2 \in e.b)
    [] e.elem = "residual"    -> decode_residual_cabac_field(b, e.a.cat, e.a.max, e.b)

Binarization == INSTANCE CabacBinarization
CodingOf(e) ==
  IF e.elem = "residual_cavlc" THEN Cavlc!StandardBlock(e) ELSE Binarization!StandardCoding(e)

DecodeElement(e, follow) ==
  /\ element = None
  /\ slice # None
  /\ pps.h.entropy_coding_mode_flag = 1 => engine # Stopped
  /\ bins = 0
  /\ element' = [e |-> e, out |-> Decoded(e, CodingOf(e).bins \o follow)]
  /\ UNCHANGED <<vars, stream, units, handled, sps, pps, slice, lists, bins>>

-----------------------------------------------------------------------------
InputInit ==
  /\ data = <<>> /\ engine = Stopped /\ state = [c \in Contexts |-> 0] /\ bin = -1
  /\ stream = None /\ units = <<>> /\ handled = 0
  /\ sps = None /\ pps = None /\ slice = None /\ lists = <<>>
  /\ bins = 0 /\ element = None

Asked == IF stream = None THEN {} ELSE {family \in Elements : family.elem \in stream.elems}
InputNext ==
  \/ \E s \in Streams : Deliver(s)
  \/ ReadSps
  \/ ReadPps
  \/ ReadSlice
  \/ Ignore
  \/ StartCabac
  \/ DecodeBin
  \/ \E family \in Asked, follow \in Follow :
       \E v \in family.vals, a \in family.as, b \in family.bs :
         DecodeElement([elem |-> family.elem, val |-> v, a |-> a, b |-> b], follow)

InputSpec == InputInit /\ [][InputNext]_<<vars, input>>

-----------------------------------------------------------------------------
(* parse_annex_b, parse_avcc and parse_avcc_config give back the units that  *)
(* were sent, whatever zeros and threes their payloads hold and however they *)
(* are framed; of a sample that is cut off, those that are whole.  Zero      *)
(* bytes behind the RBSP may stay.                                           *)
Significant(rbsp) == SubSeq(rbsp, 1, Max({0} \cup {k \in 1..Len(rbsp) : rbsp[k] # 0}))
SameUnit(m, n) == m.ref = n.ref /\ m.type = n.type /\ Significant(m.rbsp) = Significant(n.rbsp)
Whole(f) == f.kind # "avcc" \/ f.cut = 0
Recovered(sent) ==
  /\ IF Whole(stream.framing) THEN Len(units) = Len(sent) ELSE Len(units) = Len(sent) - 1
  /\ \A k \in 1..Len(units) : SameUnit(units[k], sent[k])
UnitsRecovered == stream # None /\ handled = 0 => Recovered(Sent(stream))

(* What is parsed is what was sent or is inferred, and the reader ends where *)
(* the header does: neither a field more nor one less was read.              *)
Agrees(x, fields, bits) ==
  /\ x # None
  /\ \A f \in DOMAIN x.h : x.h[f] = fields[f]
  /\ At(x.r) = Len(bits)
SpsAgrees == Agrees(sps, Writer!InferredSps(stream.sps), Writer!seq_parameter_set_data(stream.sps))
PpsAgrees ==
  /\ Agrees(pps, Writer!InferredPps(stream.pps), Writer!pic_parameter_set(stream.pps))
  /\ \A k \in 1..8 : lists[k] = Writer!PpsList(stream.pps, stream.sps, k)
SliceAgrees == Agrees(slice, Writer!InferredSlice(stream.slice, stream.pps), SliceBits(stream))
HeadersRecovered ==
  handled > 0 /\ bins = 0 /\ engine = Stopped =>
    /\ units[handled].type = 7 => SpsAgrees
    /\ units[handled].type = 8 => PpsAgrees
    /\ units[handled].type \in {1, 5} =>
         IF sps = None \/ pps = None THEN slice = None ELSE SliceAgrees

(* A syntax element is decoded from the bins the standard gives it, each     *)
(* with the context variable the standard assigns, and no bin more; a CAVLC  *)
(* block from the bits of clause 9.2, whatever codes the levels, zeros and   *)
(* runs need, and no bit more.                                               *)
ElementsFollowStandard ==
  element # None =>
    \E coding \in {CodingOf(element.e)} :
      /\ element.out.val = element.e.val
      /\ element.out.ctxs = coding.ctxs
=============================================================================

------------------------------ MODULE MbSyntax ------------------------------
(***************************************************************************)
(* The syntax of one macroblock, as far as the decoder branches on it:     *)
(*   kind    "Skip", "Direct" (B_Direct_16x16), "Inter", "I_NxN",          *)
(*           "I_16x16" or "I_PCM"                                          *)
(*   parts   the partitions of an inter macroblock in order: the           *)
(*           quadrants, the reference of each list (-1: not used), the     *)
(*           size of the motion vector difference of each list, whether    *)
(*           the quadrant is B_Direct_8x8, and whether it is cut below 8x8 *)
(*   ref0    the type is P_8x8ref0: CAVLC, no index sent, all indices 0    *)
(*   refs    the references a direct quadrant derives                      *)
(*   t8      transform_size_8x8_flag                                       *)
(*   luma, chroma     coded block pattern: quadrants, and 0..2             *)
(*   dc      the DC blocks with levels, of "y" (I_16x16), "cb", "cr"       *)
(*   nz, cb, cr       levels per quadrant: luma, chroma AC                 *)
(*   modes, cpm, delta, field                                              *)
(***************************************************************************)
EXTENDS Integers, Sequences, FiniteSets

Intra(x) == x.kind \in {"I_NxN", "I_16x16", "I_PCM"}

PartOf(x, q) == CHOOSE p \in {x.parts[k] : k \in DOMAIN x.parts} : q \in p.quads
Corner(p) == CHOOSE q \in p.quads : \A r \in p.quads : q <= r
Is8x8(x) == Len(x.parts) = 4

DirectQuad(x, q) ==
  \/ x.kind \in {"Skip", "Direct"}
  \/ x.kind = "Inter" /\ PartOf(x, q).direct

(* The reference a quadrant ends up with in list l. *)
RefOf(x, l, q) ==
  IF Intra(x) THEN -1
  ELSE IF DirectQuad(x, q) THEN x.refs[q][l + 1] ELSE PartOf(x, q).ref[l + 1]

MvdOf(x, l, q) ==
  IF x.kind # "Inter" \/ DirectQuad(x, q) \/ RefOf(x, l, q) < 0 THEN 0
  ELSE PartOf(x, q).mvd[l + 1]

(* noSubMbPartSizeLessThan8x8Flag *)
NoSmallParts(x, infer8x8) ==
  CASE x.kind = "Direct" -> infer8x8
    [] x.kind = "Inter"  -> \A k \in DOMAIN x.parts :
                              IF x.parts[k].direct THEN infer8x8 ELSE ~x.parts[k].small
    [] OTHER -> TRUE
=============================================================================

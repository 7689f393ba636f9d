------------------------------- MODULE PocLsb -------------------------------
(***************************************************************************)
(* Picture order count of type 0 (Dpb::compute_poc_type0, src/src/dpb.rs), *)
(* with the calls that touch its state: decode_slice computes the POC once *)
(* per slice, Dpb::clear and Dpb::clear_all_refs reset the state when an   *)
(* IDR picture or one with MMCO 5 is finalized, which is before the next   *)
(* picture's first slice is decoded.                                       *)
(*                                                                         *)
(* The stream sends the low bits of an order count that the decoder has to *)
(* recover.  An encoder may move that count by half the range of the low   *)
(* bits at most, from one reference picture to the next picture.           *)
(***************************************************************************)
EXTENDS Integers

CONSTANTS
    Half,          \* half of MaxPicOrderCntLsb
    BottomDeltas,  \* values of delta_pic_order_cnt_bottom in frames
    BottomFirst,   \* do frames that reset the counts ever show the bottom
                   \* field first
    MaxCount       \* bound on the high parts of a stream

MaxPocLsb == 2 * Half

ASSUME PocLsbAssumption ==
    /\ Half \in Nat \ {0}
    /\ BottomDeltas \subseteq -(MaxPocLsb - 1)..(MaxPocLsb - 1)
    /\ BottomFirst \in BOOLEAN
    /\ MaxCount \in Nat

VARIABLES
    prev_poc_msb, prev_poc_lsb,  \* Dpb's fields of that name
    poc,                         \* what the last slice's compute_poc returned
    ref,      \* the stream: [msb, lsb] of the last reference picture
    pic       \* the stream: the picture being sent, a slice header

vars == <<prev_poc_msb, prev_poc_lsb, poc, ref, pic>>

-----------------------------------------------------------------------------
(* compute_poc_type0.  A slice header h has the fields that the code reads *)
(* and, for the stream's side, the true high part of its order count.      *)

\* Mutant: the range's middle falls to the wrong side.
PocMsbStrict(prev_msb, prev_lsb, lsb) ==
    IF lsb < prev_lsb /\ prev_lsb - lsb > Half THEN prev_msb + MaxPocLsb
    ELSE IF lsb > prev_lsb /\ lsb - prev_lsb > Half THEN prev_msb - MaxPocLsb
    ELSE prev_msb

PocMsb(prev_msb, prev_lsb, lsb) ==
    IF lsb < prev_lsb /\ prev_lsb - lsb >= Half THEN prev_msb + MaxPocLsb
    ELSE IF lsb > prev_lsb /\ lsb - prev_lsb > Half THEN prev_msb - MaxPocLsb
    ELSE prev_msb

\* The order count of a picture: its own, or a frame's lower field's.
Count(msb, h) ==
    LET top == msb + h.lsb
        bottom == top + h.delta_bottom
    IN  IF h.field_pic_flag
        THEN IF h.bottom_field_flag THEN bottom ELSE top
        ELSE IF top <= bottom THEN top ELSE bottom

\* Mutant: the order count is stored for the low part of the next picture.
ComputePocStoresCount(msb, lsb, h) ==
    LET now == PocMsb(msb, lsb, h.lsb)
    IN  IF h.idr THEN [poc |-> 0, msb |-> 0, lsb |-> 0]
        ELSE [poc |-> Count(now, h), msb |-> now, lsb |-> Count(now, h)]

\* The result, and the fields prev_poc_msb and prev_poc_lsb it leaves.
ComputePoc(msb, lsb, h) ==
    LET now == PocMsb(msb, lsb, h.lsb)
    IN  IF h.idr THEN [poc |-> 0, msb |-> 0, lsb |-> 0]
        ELSE IF h.nal_ref_idc > 0
        THEN [poc |-> Count(now, h), msb |-> now, lsb |-> h.lsb]
        ELSE [poc |-> Count(now, h), msb |-> msb, lsb |-> lsb]

\* Dpb::clear for an IDR picture, Dpb::clear_all_refs for MMCO 5.
Resets(h) == h.idr \/ h.mmco5

-----------------------------------------------------------------------------
(* The stream.  Header fields as they are parsed: delta_bottom is zero in  *)
(* a field.  mmco5 comes with reference pictures only.  The lower order    *)
(* count of an IDR frame is 0, so its top field's is not when the bottom   *)
(* field comes first.                                                      *)

Idr(lsb) ==
    [idr |-> TRUE, nal_ref_idc |-> 1, mmco5 |-> FALSE, msb |-> 0, lsb |-> lsb,
     delta_bottom |-> -lsb, field_pic_flag |-> FALSE, bottom_field_flag |-> FALSE]

Idrs == {Idr(0)} \cup {Idr(-b) : b \in {x \in BottomDeltas : BottomFirst /\ x < 0}}

Headers(msb, lsb) ==
    {h \in [idr : {FALSE}, nal_ref_idc : {0, 1}, mmco5 : BOOLEAN, msb : {msb}, lsb : {lsb},
            delta_bottom : BottomDeltas \cup {0}, field_pic_flag : BOOLEAN,
            bottom_field_flag : BOOLEAN] :
       /\ h.mmco5 => h.nal_ref_idc > 0 /\ (BottomFirst \/ h.delta_bottom >= 0)
       /\ h.field_pic_flag => h.delta_bottom = 0
       /\ h.bottom_field_flag => h.field_pic_flag}

\* What the low part of the next picture is relative to (8.2.1.1).  After
\* op 5 the picture counts from 0, its lower field's order count.
RefAfter(h) ==
    IF h.mmco5 THEN [msb |-> 0, lsb |-> IF h.delta_bottom < 0 THEN -h.delta_bottom ELSE 0]
    ELSE IF h.nal_ref_idc > 0 THEN [msb |-> h.msb, lsb |-> h.lsb]
    ELSE ref

\* Within reach of the low part: what an encoder keeps to.
InReach(r, msb, lsb) ==
    LET distance == (msb + lsb) - (r.msb + r.lsb)
    IN  -Half < distance /\ distance <= Half

Init ==
    /\ pic = Idr(0)
    /\ poc = 0 /\ prev_poc_msb = 0 /\ prev_poc_lsb = 0
    /\ ref = [msb |-> 0, lsb |-> 0]

Computed(c) == poc' = c.poc /\ prev_poc_msb' = c.msb /\ prev_poc_lsb' = c.lsb

\* Another slice of the picture.
NextSlice ==
    /\ Computed(ComputePoc(prev_poc_msb, prev_poc_lsb, pic))
    /\ UNCHANGED <<ref, pic>>

\* The picture is finalized and the first slice of the next one decoded.
NextPicture(h) ==
    /\ h.idr \/ (InReach(RefAfter(pic), h.msb, h.lsb) /\ -MaxCount <= h.msb /\ h.msb <= MaxCount)
    /\ pic' = h
    /\ ref' = RefAfter(pic)
    /\ IF Resets(pic) THEN Computed(ComputePoc(0, 0, h))
       ELSE Computed(ComputePoc(prev_poc_msb, prev_poc_lsb, h))

Next ==
    \/ NextSlice
    \/ \E h \in Idrs : NextPicture(h)
    \/ \E turn \in {-1, 0, 1}, lsb \in 0..MaxPocLsb - 1 :
         \E h \in Headers(RefAfter(pic).msb + turn * MaxPocLsb, lsb) : NextPicture(h)

Spec == Init /\ [][Next]_vars

-----------------------------------------------------------------------------
TypeOK ==
    /\ prev_poc_msb \in Int /\ poc \in Int
    /\ prev_poc_lsb \in 0..MaxPocLsb - 1
    /\ ref \in [msb : Int, lsb : 0..MaxPocLsb - 1]
    /\ pic \in Idrs \/ pic \in Headers(pic.msb, pic.lsb)
    /\ pic.msb \in Int /\ pic.lsb \in 0..MaxPocLsb - 1

(* After every slice, whichever picture and slice it is, the order count   *)
(* is the one the encoder gave the picture, although only its low bits     *)
(* were sent: compute_poc_type0 finds the high part, a second slice does   *)
(* not move it, and the resets come in time.                               *)
PocRecovered == poc = Count(pic.msb, pic)

(* The state that compute_poc leaves is always the last reference          *)
(* picture's, this one if it is one, as 8.2.1.1 has it for the next        *)
(* picture: a non-reference picture must not move it (dpb.rs:473-476).     *)
StateIsReference ==
    LET r == IF pic.nal_ref_idc > 0 THEN pic ELSE ref
    IN  prev_poc_msb = r.msb /\ prev_poc_lsb = r.lsb
=============================================================================

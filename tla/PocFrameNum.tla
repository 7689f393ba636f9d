---------------------------- MODULE PocFrameNum ----------------------------
(***************************************************************************)
(* Picture order count of types 1 and 2 (Dpb::compute_poc_type1 and        *)
(* compute_poc_type2, src/src/dpb.rs).  Both compute the count of a        *)
(* picture from its frame_num alone, in closed form, and keep no state;    *)
(* clause 8.2.1 lets the count advance by one offset of a cycle with every *)
(* reference frame, which is how the stream's side keeps it here.          *)
(***************************************************************************)
EXTENDS Integers, Sequences

CONSTANTS
    Spss,          \* the sequence parameter sets a stream may begin with
    MaxFrameNum,   \* frame_num is sent modulo this
    MaxRefFrames,  \* bound on the reference frames between two resets
    Deltas,        \* values of each delta_pic_order_cnt
    NonReference,  \* are there non-reference pictures under type 1
    Wraps          \* does frame_num ever wrap between two resets

ASSUME PocFrameNumAssumption ==
    /\ MaxFrameNum \in Nat \ {0, 1} /\ MaxRefFrames \in Nat \ {0}
    /\ NonReference \in BOOLEAN /\ Wraps \in BOOLEAN
    /\ Deltas \subseteq Int /\ 0 \in Deltas
    /\ Spss \subseteq [pic_order_cnt_type : 0..2, offset_for_ref_frame : Seq(Int),
                       offset_for_non_ref_pic : Int, offset_for_top_to_bottom_field : Int]

VARIABLES
    sps,      \* pic_order_cnt_type and the offsets that go with it
    picture,  \* the stream: the slice header of the picture being sent
    count,    \* what compute_poc returned for it
    last      \* the stream: the last reference frame

frameNumVars == <<sps, picture, count, last>>

-----------------------------------------------------------------------------
(* compute_poc_type1 and compute_poc_type2. *)

\* iter().sum(), element after element.
Sum(s) ==
    LET f[k \in 0..Len(s)] == IF k = 0 THEN 0 ELSE f[k - 1] + s[k]
    IN  f[Len(s)]

\* Mutant: the part of a cycle ends before this frame, `..idx` for `..=idx`.
ExpectedPocShort(h) ==
    LET cycle == sps.offset_for_ref_frame
        n     == h.frame_num
    IN  IF n = 0 \/ cycle = <<>> THEN 0
        ELSE ((n - 1) \div Len(cycle)) * Sum(cycle)
             + Sum(SubSeq(cycle, 1, (n - 1) % Len(cycle)))

\* expected_poc: whole cycles, and the part of one up to this frame.
ExpectedPoc(h) ==
    LET cycle == sps.offset_for_ref_frame
        n     == h.frame_num
        own   == ((n - 1) \div Len(cycle)) * Sum(cycle)
                 + Sum(SubSeq(cycle, 1, ((n - 1) % Len(cycle)) + 1))
    IN  IF n = 0 \/ cycle = <<>> THEN 0
        ELSE IF h.nal_ref_idc = 0 THEN own + sps.offset_for_non_ref_pic ELSE own

ComputePocType1(h) ==
    LET top    == ExpectedPoc(h) + h.delta[1]
        bottom == top + sps.offset_for_top_to_bottom_field + h.delta[2]
    IN  IF h.idr THEN 0
        ELSE IF h.field_pic_flag THEN IF h.bottom_field_flag THEN bottom ELSE top
        ELSE IF top <= bottom THEN top ELSE bottom

ComputePocType2(h) ==
    IF h.idr THEN 0
    ELSE IF h.nal_ref_idc > 0 THEN 2 * h.frame_num ELSE 2 * h.frame_num - 1

ComputePocByFrameNum(h) ==
    IF sps.pic_order_cnt_type = 1 THEN ComputePocType1(h) ELSE ComputePocType2(h)

-----------------------------------------------------------------------------
(* The stream.  last.frames counts the reference frames since the last     *)
(* reset, an IDR picture or one with op 5, whose number is 0; last.count   *)
(* is where their offsets have led.                                        *)

Reset == [frames |-> 0, count |-> 0]

\* 8.2.1.2 and 8.2.1.3: type 2 advances by 2, and an order count between two
\* frames is left for a non-reference one.
Cycle == IF sps.pic_order_cnt_type = 2 THEN <<2>> ELSE sps.offset_for_ref_frame
NonRefOffset == IF sps.pic_order_cnt_type = 2 THEN 1 ELSE sps.offset_for_non_ref_pic
TopToBottom ==
    IF sps.pic_order_cnt_type = 2 THEN 0 ELSE sps.offset_for_top_to_bottom_field

Advance(r) ==
    [frames |-> r.frames + 1,
     count  |-> IF Cycle = <<>> THEN 0 ELSE r.count + Cycle[(r.frames % Len(Cycle)) + 1]]

\* Deltas are sent with type 1 only, the second one with frames only.
Pictures ==
    {h \in [idr : BOOLEAN, nal_ref_idc : {0, 1}, mmco5 : BOOLEAN,
            frame_num : 0..MaxFrameNum - 1, field_pic_flag : BOOLEAN,
            bottom_field_flag : BOOLEAN, second : BOOLEAN, delta : Deltas \X Deltas] :
       /\ h.bottom_field_flag \/ h.second => h.field_pic_flag
       /\ h.field_pic_flag => h.delta[2] = 0
       /\ sps.pic_order_cnt_type = 2 => h.delta = <<0, 0>>
       /\ h.mmco5 => h.nal_ref_idc > 0 /\ ~h.idr /\ ~h.field_pic_flag
       /\ h.idr => h.nal_ref_idc > 0 /\ h.frame_num = 0 /\ h.delta = <<0, 0>> /\ ~h.second}

\* The last reference frame, as the picture after the current one sees it.
LastAfter == IF picture.mmco5 THEN Reset ELSE last

\* A field of the same frame, of the other parity.
SecondField(h) ==
    /\ h.second /\ picture.field_pic_flag /\ ~picture.second
    /\ h.frame_num = picture.frame_num /\ h.nal_ref_idc = picture.nal_ref_idc
    /\ h.bottom_field_flag # picture.bottom_field_flag
    /\ UNCHANGED last

\* The number after the last reference frame's, whether it is taken up (by a
\* reference frame) or not.  Type 2 has no two non-reference frames in a row.
NewFrame(h) ==
    /\ ~h.idr /\ ~h.second
    /\ LastAfter.frames < MaxRefFrames
    /\ Wraps \/ LastAfter.frames + 1 < MaxFrameNum
    /\ h.frame_num = (LastAfter.frames + 1) % MaxFrameNum
    /\ h.nal_ref_idc = 0 =>
         IF sps.pic_order_cnt_type = 1 THEN NonReference ELSE picture.nal_ref_idc > 0
    /\ last' = IF h.nal_ref_idc > 0 THEN Advance(LastAfter) ELSE LastAfter

SendPicture(h) ==
    /\ \/ h.idr /\ last' = Reset
       \/ SecondField(h)
       \/ NewFrame(h)
    /\ picture' = h
    /\ count' = ComputePocByFrameNum(h)
    /\ UNCHANGED sps

FrameNumInit ==
    /\ sps \in Spss
    /\ picture = [idr |-> TRUE, nal_ref_idc |-> 1, mmco5 |-> FALSE, frame_num |-> 0,
                  field_pic_flag |-> FALSE, bottom_field_flag |-> FALSE, second |-> FALSE,
                  delta |-> <<0, 0>>]
    /\ count = 0
    /\ last = Reset

FrameNumNext == \E h \in Pictures : SendPicture(h)

-----------------------------------------------------------------------------
\* The count of a picture whose frame's offsets add up to e (8.2.1.2).
OwnCount(e, h) ==
    LET first  == e + h.delta[1]
        second == first + TopToBottom + h.delta[2]
    IN  CASE h.field_pic_flag /\ h.bottom_field_flag -> e + TopToBottom + h.delta[1]
          [] h.field_pic_flag /\ ~h.bottom_field_flag -> first
          [] OTHER -> IF second < first THEN second ELSE first

(* The count that compute_poc gives a reference picture from its frame_num *)
(* is the sum of the offsets of all reference frames since the last reset, *)
(* in frames and fields, after IDR pictures and after op 5; of a           *)
(* non-reference picture under type 2, the one between its neighbours.     *)
CountsAccumulate ==
    ~picture.idr /\ (picture.nal_ref_idc > 0 \/ sps.pic_order_cnt_type = 2) =>
      count = OwnCount(last.count + IF picture.nal_ref_idc > 0 THEN 0 ELSE NonRefOffset, picture)

(* "POC type 1 (spec 8.2.1.2)", dpb.rs:481: a non-reference picture counts *)
(* from the reference frame before it, offset_for_non_ref_pic away.        *)
NonReferenceCounts ==
    picture.nal_ref_idc = 0 => count = OwnCount(last.count + NonRefOffset, picture)
=============================================================================

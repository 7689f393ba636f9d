--------------------------- MODULE PicOrderProofs ---------------------------
(***************************************************************************)
(* Theorems about compute_poc (src/src/dpb.rs), in module PicOrder and its *)
(* parts PocLsb (type 0) and PocFrameNum (types 1 and 2): for every width  *)
(* of the low part, every cycle of offsets and every stream, without a     *)
(* bound on its length.                                                    *)
(*                                                                         *)
(* Type 0: the state is that of the last reference picture, and within     *)
(* half the range of the low bits there is one order count with those the  *)
(* header sends.  Types 1 and 2: the closed form over frame_num grows by   *)
(* the next offset of the cycle with each reference frame (OwnGrows), and  *)
(* frame_num says how many these were (FrameNumInv).                       *)
(***************************************************************************)
EXTENDS PicOrder, WellFoundedInduction, TLAPS

-----------------------------------------------------------------------------
(* Type 0.                                                                 *)

(* A picture that is not an IDR picture stays within reach of the          *)
(* reference picture before it.                                            *)
PicInReach ==
    ~pic.idr => \E turn \in {-1, 0, 1} :
                   /\ pic.msb = ref.msb + turn * MaxPocLsb
                   /\ InReach(ref, pic.msb, pic.lsb)

IInv == TypeOK /\ PocRecovered /\ StateIsReference /\ PicInReach

(* What a header of a picture that is not an IDR picture holds.            *)
LEMMA HeaderFields ==
    ASSUME NEW m, NEW l, NEW x \in Headers(m, l)
    PROVE  /\ x.idr = FALSE /\ x.msb = m /\ x.lsb = l
           /\ x.nal_ref_idc \in {0, 1}
           /\ x.delta_bottom \in Int
           /\ x.mmco5 => x.nal_ref_idc > 0
           /\ x.mmco5 /\ BottomFirst = FALSE => x.delta_bottom >= 0
           /\ x \in Headers(x.msb, x.lsb)
<1>1. /\ x \in [idr : {FALSE}, nal_ref_idc : {0, 1}, mmco5 : BOOLEAN, msb : {m},
                lsb : {l}, delta_bottom : BottomDeltas \cup {0},
                field_pic_flag : BOOLEAN, bottom_field_flag : BOOLEAN]
      /\ x.mmco5 => x.nal_ref_idc > 0 /\ (BottomFirst \/ x.delta_bottom >= 0)
  BY DEF Headers
<1>2. /\ x.idr \in {FALSE} /\ x.msb \in {m} /\ x.lsb \in {l}
      /\ x.nal_ref_idc \in {0, 1} /\ x.delta_bottom \in BottomDeltas \cup {0}
  BY <1>1
<1>3. BottomDeltas \subseteq Int
  BY PocLsbAssumption DEF MaxPocLsb
<1>4. x.delta_bottom \in Int
  <2>1. x.delta_bottom \in BottomDeltas \/ x.delta_bottom = 0
    BY <1>2
  <2>2. CASE x.delta_bottom \in BottomDeltas
    BY <1>3, <2>2, Zenon
  <2>3. CASE x.delta_bottom = 0
    BY <2>3
  <2> QED BY <2>1, <2>2, <2>3
<1>5. x \in Headers(x.msb, x.lsb)
  <2>1. x.msb = m /\ x.lsb = l
    BY <1>2
  <2> QED BY <2>1, Zenon
<1> QED BY <1>1, <1>2, <1>4, <1>5

(* The high part is recovered from the low one: within reach of the last   *)
(* reference picture there is one order count with these low bits, and the *)
(* comparisons of compute_poc_type0 find it (dpb.rs:446-456).              *)
LEMMA HighPartFound ==
    ASSUME NEW r \in [msb : Int, lsb : 0..MaxPocLsb - 1],
           NEW turn \in {-1, 0, 1}, NEW lsb \in 0..MaxPocLsb - 1,
           InReach(r, r.msb + turn * MaxPocLsb, lsb)
    PROVE  PocMsb(r.msb, r.lsb, lsb) = r.msb + turn * MaxPocLsb
<1>1. r.msb \in Int /\ r.lsb \in Int /\ lsb \in Int /\ Half \in Nat \ {0}
  BY PocLsbAssumption DEF MaxPocLsb
<1>2. /\ 0 <= r.lsb /\ r.lsb < 2 * Half
      /\ 0 <= lsb /\ lsb < 2 * Half
  BY PocLsbAssumption DEF MaxPocLsb
<1>3. CASE turn = -1
  BY <1>1, <1>2, <1>3 DEF InReach, PocMsb, MaxPocLsb
<1>4. CASE turn = 0
  BY <1>1, <1>2, <1>4 DEF InReach, PocMsb, MaxPocLsb
<1>5. CASE turn = 1
  BY <1>1, <1>2, <1>5 DEF InReach, PocMsb, MaxPocLsb
<1> QED BY <1>3, <1>4, <1>5

(* The reference of the next picture is always a pair of a high and a low  *)
(* part, and it is what the decoder holds when that picture's first slice  *)
(* comes.                                                                  *)
LEMMA ReferenceHeld ==
    ASSUME IInv, BottomFirst = FALSE
    PROVE  /\ RefAfter(pic) \in [msb : Int, lsb : 0..MaxPocLsb - 1]
           /\ Resets(pic) => RefAfter(pic) = [msb |-> 0, lsb |-> 0]
           /\ ~Resets(pic) => RefAfter(pic) = [msb |-> prev_poc_msb, lsb |-> prev_poc_lsb]
<1> USE PocLsbAssumption DEF MaxPocLsb
<1>1. CASE pic \in Idrs
  <2>1. pic = Idr(0)
    BY <1>1 DEF Idrs
  <2> QED BY <2>1 DEF Idr, RefAfter, Resets
<1>2. CASE pic \in Headers(pic.msb, pic.lsb)
  <2>1. pic.idr = FALSE /\ (pic.mmco5 => pic.delta_bottom >= 0 /\ pic.delta_bottom \in Int)
    BY <1>2, HeaderFields
  <2>2. CASE pic.mmco5
    <3>1. RefAfter(pic) = [msb |-> 0, lsb |-> 0]
      BY <2>1, <2>2 DEF RefAfter
    <3> QED BY <3>1, <2>2 DEF Resets
  <2>3. CASE ~pic.mmco5
    <3>1. ~Resets(pic)
      BY <2>1, <2>3 DEF Resets
    <3>2. ASSUME pic.nal_ref_idc > 0
          PROVE  RefAfter(pic) = [msb |-> prev_poc_msb, lsb |-> prev_poc_lsb]
      <4>1. RefAfter(pic) = [msb |-> pic.msb, lsb |-> pic.lsb]
        BY <2>3, <3>2 DEF RefAfter
      <4>2. prev_poc_msb = pic.msb /\ prev_poc_lsb = pic.lsb
        BY <3>2 DEF IInv, StateIsReference
      <4> QED BY <4>1, <4>2
    <3>3. ASSUME ~(pic.nal_ref_idc > 0)
          PROVE  RefAfter(pic) = [msb |-> prev_poc_msb, lsb |-> prev_poc_lsb]
      <4>1. RefAfter(pic) = ref
        BY <2>3, <3>3 DEF RefAfter
      <4>2. prev_poc_msb = ref.msb /\ prev_poc_lsb = ref.lsb
        BY <3>3 DEF IInv, StateIsReference
      <4>3. ref = [msb |-> ref.msb, lsb |-> ref.lsb]
        BY DEF IInv, TypeOK
      <4> QED BY <4>1, <4>2, <4>3
    <3>4. RefAfter(pic) = [msb |-> prev_poc_msb, lsb |-> prev_poc_lsb]
      BY <3>2, <3>3
    <3> QED BY <3>1, <3>4 DEF IInv, TypeOK
  <2> QED BY <2>2, <2>3
<1> QED BY <1>1, <1>2 DEF IInv, TypeOK

(* Before the first picture: the state of an IDR picture.                  *)
LEMMA Start == Init => IInv
<1> SUFFICES ASSUME Init PROVE IInv
  OBVIOUS
<1>1. TypeOK
  <2>1. 0 \in 0..MaxPocLsb - 1
    BY PocLsbAssumption DEF MaxPocLsb
  <2>2. pic \in Idrs
    BY DEF Init, Idrs
  <2>3. pic.msb = 0 /\ pic.lsb = 0
    BY DEF Init, Idr
  <2> QED BY <2>1, <2>2, <2>3 DEF Init, TypeOK
<1>2. PocRecovered
  BY DEF Init, PocRecovered, Count, Idr
<1>3. StateIsReference
  BY DEF Init, StateIsReference, Idr
<1>4. PicInReach
  BY DEF Init, PicInReach, Idr
<1> QED BY <1>1, <1>2, <1>3, <1>4 DEF IInv

(* A picture within reach: the first slice finds its order count.          *)
LEMMA PictureStep ==
    ASSUME IInv, BottomFirst = FALSE,
           NEW turn, turn \in {-1, 0, 1}, NEW lsb, lsb \in 0..MaxPocLsb - 1,
           NEW msb, msb = RefAfter(pic).msb + turn * MaxPocLsb,
           NEW h, h \in Headers(msb, lsb), NextPicture(h)
    PROVE  IInv'
<1> DEFINE r == RefAfter(pic)
<1>1. r \in [msb : Int, lsb : 0..MaxPocLsb - 1]
  BY ReferenceHeld
<1>2. h \in Headers(msb, lsb) /\ pic' = h /\ ref' = r
  BY DEF NextPicture
<1>3. /\ Resets(pic) => r = [msb |-> 0, lsb |-> 0] /\ Computed(ComputePoc(0, 0, h))
      /\ ~Resets(pic) => /\ r = [msb |-> prev_poc_msb, lsb |-> prev_poc_lsb]
                         /\ Computed(ComputePoc(prev_poc_msb, prev_poc_lsb, h))
  BY ReferenceHeld DEF NextPicture
<1>4. h.idr \/ InReach(r, h.msb, h.lsb)
  BY DEF NextPicture
<1>5. msb \in Int
  BY <1>1, PocLsbAssumption DEF MaxPocLsb
<1>6. msb = r.msb + turn * MaxPocLsb
  OBVIOUS
<1> HIDE DEF r
<1>7. /\ h.idr = FALSE /\ h.msb = msb /\ h.lsb = lsb
      /\ h.nal_ref_idc \in {0, 1} /\ h \in Headers(h.msb, h.lsb)
      /\ h.delta_bottom \in Int
  <2>1. h \in Headers(msb, lsb)
    OBVIOUS
  <2>2. h.idr = FALSE /\ h.msb = msb /\ h.lsb = lsb
    BY ONLY <2>1, HeaderFields, Zenon
  <2>3. h.nal_ref_idc \in {0, 1}
    BY ONLY <2>1, HeaderFields, Zenon
  <2>4. h \in Headers(h.msb, h.lsb) /\ h.delta_bottom \in Int
    BY ONLY <2>1, HeaderFields, Zenon
  <2> QED BY ONLY <2>2, <2>3, <2>4, Zenon
<1>8. /\ poc' = Count(h.msb, h)
      /\ h.nal_ref_idc > 0 => prev_poc_msb' = h.msb /\ prev_poc_lsb' = h.lsb
      /\ ~(h.nal_ref_idc > 0) => prev_poc_msb' = r.msb /\ prev_poc_lsb' = r.lsb
  <2>1. InReach(r, r.msb + turn * MaxPocLsb, lsb)
    BY <1>4, <1>6, <1>7
  <2>2. PocMsb(r.msb, r.lsb, h.lsb) = h.msb
    BY <1>1, <1>6, <1>7, <2>1, HighPartFound
  <2>3. Computed(ComputePoc(r.msb, r.lsb, h))
    <3>1. CASE Resets(pic)
      <4>1. r.msb = 0 /\ r.lsb = 0
        BY <1>3, <3>1
      <4> QED BY <1>3, <3>1, <4>1
    <3>2. CASE ~Resets(pic)
      <4>1. r.msb = prev_poc_msb /\ r.lsb = prev_poc_lsb
        BY <1>3, <3>2
      <4> QED BY <1>3, <3>2, <4>1
    <3> QED BY <3>1, <3>2
  <2> QED BY <1>7, <2>2, <2>3 DEF Computed, ComputePoc
<1>9. TypeOK'
  <2>1. Count(h.msb, h) \in Int
    <3>1. /\ h.msb \in Int /\ h.lsb \in Int /\ h.delta_bottom \in Int
      BY <1>5, <1>7, PocLsbAssumption DEF MaxPocLsb
    <3> QED BY <3>1 DEF Count
  <2>2. prev_poc_msb' \in Int /\ prev_poc_lsb' \in 0..MaxPocLsb - 1
    BY <1>1, <1>5, <1>7, <1>8
  <2>3. pic' \in Headers(pic'.msb, pic'.lsb)
    BY <1>2, <1>7
  <2>4. pic'.msb \in Int /\ pic'.lsb \in 0..MaxPocLsb - 1
    BY <1>2, <1>5, <1>7
  <2> QED BY <1>1, <1>2, <1>8, <2>1, <2>2, <2>3, <2>4 DEF TypeOK
<1>10. PocRecovered'
  BY <1>2, <1>8 DEF PocRecovered, Count
<1>11. StateIsReference'
  BY <1>2, <1>8 DEF StateIsReference
<1>12. PicInReach'
  <2>1. h.msb = r.msb + turn * MaxPocLsb /\ InReach(r, h.msb, h.lsb)
    BY <1>4, <1>6, <1>7
  <2> QED BY <1>2, <2>1 DEF PicInReach, InReach
<1> QED BY <1>9, <1>10, <1>11, <1>12 DEF IInv

(* An IDR picture starts over.                                             *)
LEMMA IdrStep ==
    ASSUME IInv, BottomFirst = FALSE, NEW h \in Idrs, NextPicture(h)
    PROVE  IInv'
<1>1. h = Idr(0)
  BY DEF Idrs
<1>2. /\ poc' = 0 /\ prev_poc_msb' = 0 /\ prev_poc_lsb' = 0
      /\ pic' = Idr(0) /\ ref' = RefAfter(pic)
  BY <1>1 DEF NextPicture, Computed, ComputePoc, Idr
<1>3. TypeOK'
  <2>1. ref' \in [msb : Int, lsb : 0..MaxPocLsb - 1]
    BY <1>2, ReferenceHeld
  <2>2. pic' \in Idrs'
    BY <1>1, <1>2 DEF Idrs
  <2>3. poc' \in Int /\ prev_poc_msb' \in Int /\ prev_poc_lsb' \in 0..MaxPocLsb - 1
    BY <1>2, PocLsbAssumption DEF MaxPocLsb
  <2>4. pic'.msb \in Int /\ pic'.lsb \in 0..MaxPocLsb - 1
    BY <1>2, <2>3 DEF Idr
  <2> QED BY <2>1, <2>2, <2>3, <2>4 DEF TypeOK
<1>4. PocRecovered'
  BY <1>2 DEF PocRecovered, Count, Idr
<1>5. StateIsReference'
  BY <1>2 DEF StateIsReference, Idr
<1>6. PicInReach'
  BY <1>2 DEF PicInReach, Idr
<1> QED BY <1>3, <1>4, <1>5, <1>6 DEF IInv

(* Another slice of the same picture changes nothing.                      *)
LEMMA SliceStep ==
    ASSUME IInv, BottomFirst = FALSE, NextSlice
    PROVE  UNCHANGED vars
<1>1. CASE pic \in Idrs
  <2>1. pic = Idr(0)
    BY <1>1 DEF Idrs
  <2>2. poc = 0 /\ prev_poc_msb = 0 /\ prev_poc_lsb = 0
    BY <2>1 DEF IInv, PocRecovered, StateIsReference, Count, Idr
  <2> QED BY <2>1, <2>2 DEF NextSlice, Computed, ComputePoc, Idr, vars
<1>2. CASE pic \in Headers(pic.msb, pic.lsb)
  <2>1. pic.idr = FALSE /\ pic.nal_ref_idc \in {0, 1}
    BY <1>2, HeaderFields
  <2>2. PocMsb(prev_poc_msb, prev_poc_lsb, pic.lsb) = pic.msb
    <3>1. CASE pic.nal_ref_idc > 0
      <4>1. prev_poc_msb = pic.msb /\ prev_poc_lsb = pic.lsb
        BY <3>1 DEF IInv, StateIsReference
      <4>2. pic.lsb \in Int
        BY <4>1, PocLsbAssumption DEF IInv, TypeOK, MaxPocLsb
      <4> QED BY <4>1, <4>2 DEF PocMsb
    <3>2. CASE ~(pic.nal_ref_idc > 0)
      <4>1. prev_poc_msb = ref.msb /\ prev_poc_lsb = ref.lsb
        BY <3>2 DEF IInv, StateIsReference
      <4>2. PICK turn \in {-1, 0, 1} : /\ pic.msb = ref.msb + turn * MaxPocLsb
                                      /\ InReach(ref, pic.msb, pic.lsb)
        BY <2>1 DEF IInv, PicInReach
      <4>3. pic.lsb \in 0..MaxPocLsb - 1
        BY DEF IInv, TypeOK
      <4> QED BY <4>1, <4>2, <4>3, HighPartFound DEF IInv, TypeOK
    <3> QED BY <3>1, <3>2
  <2>3. poc = Count(pic.msb, pic)
    BY DEF IInv, PocRecovered
  <2>4. pic.nal_ref_idc > 0 => prev_poc_msb = pic.msb /\ prev_poc_lsb = pic.lsb
    BY DEF IInv, StateIsReference
  <2> QED BY <2>1, <2>2, <2>3, <2>4 DEF NextSlice, Computed, ComputePoc, vars
<1> QED BY <1>1, <1>2 DEF IInv, TypeOK

(* For every width of the low part, whatever the frames' bottom deltas and *)
(* however long the stream: compute_poc_type0 (dpb.rs:431-479) returns the *)
(* encoder's order count for every slice of every picture and leaves the   *)
(* state of the last reference picture, as long as no frame that resets    *)
(* the counts shows its bottom field first.                                *)
THEOREM OrderCountsRecovered ==
    ASSUME BottomFirst = FALSE
    PROVE  Spec => [](TypeOK /\ PocRecovered /\ StateIsReference)
<1>1. Init => IInv
  BY Start
<1>2. IInv /\ [Next]_vars => IInv'
  <2> SUFFICES ASSUME IInv, [Next]_vars PROVE IInv'
    OBVIOUS
  <2>1. CASE NextSlice
    <3>1. UNCHANGED vars
      BY <2>1, SliceStep
    <3> QED BY <3>1 DEF vars, IInv, TypeOK, PocRecovered, StateIsReference, PicInReach
  <2>2. CASE \E h \in Idrs : NextPicture(h)
    BY <2>2, IdrStep
  <2>3. CASE \E turn \in {-1, 0, 1}, lsb \in 0..MaxPocLsb - 1 :
               \E h \in Headers(RefAfter(pic).msb + turn * MaxPocLsb, lsb) : NextPicture(h)
    BY <2>3, PictureStep
  <2>4. CASE UNCHANGED vars
    BY <2>4 DEF vars, IInv, TypeOK, PocRecovered, StateIsReference, PicInReach
  <2> QED BY <2>1, <2>2, <2>3, <2>4 DEF Next
<1>3. IInv => TypeOK /\ PocRecovered /\ StateIsReference
  BY DEF IInv
<1> QED BY <1>1, <1>2, <1>3, PTL DEF Spec

-----------------------------------------------------------------------------
(* Types, which hold with bottom fields first as well.                     *)

(* A header says which order count it was made for.                        *)
LEMMA HeaderPlace ==
    ASSUME NEW m, NEW l, NEW x \in Headers(m, l)
    PROVE  x.msb = m /\ x.lsb = l /\ x \in Headers(x.msb, x.lsb)
<1>1. x \in Headers(m, l)
  OBVIOUS
<1>2. x.idr = FALSE /\ x.msb = m /\ x.lsb = l
  BY ONLY <1>1, HeaderFields, Zenon
<1> QED BY ONLY <1>1, <1>2, Zenon

(* Whatever its state, compute_poc_type0 leaves a low part that the syntax *)
(* has (dpb.rs:431-479).                                                   *)
LEMMA ComputePocType ==
    ASSUME NEW msb \in Int, NEW lsb \in 0..MaxPocLsb - 1, NEW h,
           h.lsb \in 0..MaxPocLsb - 1, h.delta_bottom \in Int,
           Computed(ComputePoc(msb, lsb, h))
    PROVE  poc' \in Int /\ prev_poc_msb' \in Int /\ prev_poc_lsb' \in 0..MaxPocLsb - 1
<1>1. /\ Half \in Nat \ {0} /\ MaxPocLsb \in Nat /\ MaxPocLsb >= 1
      /\ h.lsb \in Int /\ lsb \in Int
  BY PocLsbAssumption DEF MaxPocLsb
<1>2. PocMsb(msb, lsb, h.lsb) \in Int
  BY <1>1 DEF PocMsb
<1> DEFINE now == PocMsb(msb, lsb, h.lsb)
<1> HIDE DEF now
<1>3. Count(now, h) \in Int
  BY <1>1, <1>2 DEF Count, now
<1>4. 0 \in 0..MaxPocLsb - 1
  BY <1>1
<1>5. \/ /\ poc' = 0 /\ prev_poc_msb' = 0 /\ prev_poc_lsb' = 0
      \/ /\ poc' = Count(now, h) /\ prev_poc_msb' = now /\ prev_poc_lsb' = h.lsb
      \/ /\ poc' = Count(now, h) /\ prev_poc_msb' = msb /\ prev_poc_lsb' = lsb
  BY DEF Computed, ComputePoc, now
<1> QED BY <1>2, <1>3, <1>4, <1>5 DEF now

(* A header of the stream, IDR or not, has fields within their ranges.     *)
LEMMA FieldTypes ==
    ASSUME NEW h, h \in Idrs \/ h \in Headers(h.msb, h.lsb),
           h.msb \in Int, h.lsb \in 0..MaxPocLsb - 1
    PROVE  /\ h.delta_bottom \in Int
           /\ h.delta_bottom < 0 => -h.delta_bottom \in 0..MaxPocLsb - 1
<1> USE PocLsbAssumption DEF MaxPocLsb
<1>1. CASE h \in Idrs
  <2>1. \A b \in Idrs : -b.lsb = b.delta_bottom
    BY DEF Idrs, Idr
  <2> QED BY <1>1, <2>1
<1>2. CASE h \in Headers(h.msb, h.lsb)
  <2>1. h.delta_bottom \in Int
    BY <1>2, HeaderFields
  <2>2. h \in [idr : {FALSE}, nal_ref_idc : {0, 1}, mmco5 : BOOLEAN, msb : {h.msb},
               lsb : {h.lsb}, delta_bottom : BottomDeltas \cup {0},
               field_pic_flag : BOOLEAN, bottom_field_flag : BOOLEAN]
    BY <1>2 DEF Headers
  <2>3. h.delta_bottom \in BottomDeltas \cup {0}
    BY <2>2
  <2>4. \A b \in BottomDeltas \cup {0} : b < 0 => -b \in 0..MaxPocLsb - 1
    OBVIOUS
  <2> QED BY <2>1, <2>3, <2>4
<1> QED BY <1>1, <1>2

(* The fields of Dpb stay integers and legal low parts whatever is sent,   *)
(* frames that show their bottom field first included (dpb.rs:431-479).    *)
THEOREM TypeCorrect == Spec => []TypeOK
<1> DEFINE Picture(h) == /\ h \in Idrs \/ h \in Headers(h.msb, h.lsb)
                         /\ h.msb \in Int /\ h.lsb \in 0..MaxPocLsb - 1
<1>1. Init => TypeOK
  BY Start DEF IInv
<1>2. ASSUME TypeOK PROVE RefAfter(pic) \in [msb : Int, lsb : 0..MaxPocLsb - 1]
  <2>1. /\ pic.delta_bottom \in Int
        /\ pic.delta_bottom < 0 => -pic.delta_bottom \in 0..MaxPocLsb - 1
    BY <1>2, FieldTypes DEF TypeOK
  <2>2. 0 \in 0..MaxPocLsb - 1
    BY PocLsbAssumption DEF MaxPocLsb
  <2> QED BY <1>2, <2>1, <2>2 DEF RefAfter, TypeOK
<1>3. ASSUME TypeOK, NEW h, Picture(h), NextPicture(h) PROVE TypeOK'
  <2>1. /\ pic' = h
        /\ ref' = RefAfter(pic)
        /\ \/ Computed(ComputePoc(0, 0, h))
           \/ Computed(ComputePoc(prev_poc_msb, prev_poc_lsb, h))
    BY <1>3 DEF NextPicture
  <2>2. 0 \in 0..MaxPocLsb - 1 /\ h.delta_bottom \in Int
    BY <1>3, FieldTypes, PocLsbAssumption DEF MaxPocLsb
  <2>3. poc' \in Int /\ prev_poc_msb' \in Int /\ prev_poc_lsb' \in 0..MaxPocLsb - 1
    BY <1>3, <2>1, <2>2, ComputePocType DEF TypeOK
  <2>4. pic' \in Idrs' \/ pic' \in Headers(pic'.msb, pic'.lsb)
    BY <1>3, <2>1 DEF Idrs
  <2> QED BY <1>2, <1>3, <2>1, <2>3, <2>4 DEF TypeOK
<1>4. ASSUME TypeOK, NextSlice PROVE TypeOK'
  <2>1. pic.delta_bottom \in Int
    BY <1>4, FieldTypes DEF TypeOK
  <2>2. poc' \in Int /\ prev_poc_msb' \in Int /\ prev_poc_lsb' \in 0..MaxPocLsb - 1
    BY <1>4, <2>1, ComputePocType DEF TypeOK, NextSlice
  <2> QED BY <1>4, <2>2 DEF TypeOK, NextSlice, Idrs
<1>5. \A h \in Idrs : Picture(h)
  <2>1. \A b \in BottomDeltas : b < 0 => -b \in 0..MaxPocLsb - 1
    BY PocLsbAssumption DEF MaxPocLsb
  <2>2. 0 \in 0..MaxPocLsb - 1
    BY PocLsbAssumption DEF MaxPocLsb
  <2>3. \A h \in Idrs : h.msb = 0 /\ h.lsb \in 0..MaxPocLsb - 1
    BY <2>1, <2>2 DEF Idrs, Idr
  <2> QED BY <2>3
<1>6. ASSUME TypeOK, NEW turn \in {-1, 0, 1}, NEW lsb \in 0..MaxPocLsb - 1,
             NEW h \in Headers(RefAfter(pic).msb + turn * MaxPocLsb, lsb)
      PROVE  Picture(h)
  <2> DEFINE msb == RefAfter(pic).msb + turn * MaxPocLsb
  <2>1. msb \in Int
    BY <1>2, <1>6, PocLsbAssumption DEF MaxPocLsb
  <2> HIDE DEF msb
  <2>2. h \in Headers(msb, lsb)
    BY <1>6 DEF msb
  <2>3. h.msb = msb /\ h.lsb = lsb /\ h \in Headers(h.msb, h.lsb)
    BY <2>2, HeaderPlace
  <2> QED BY <1>6, <2>1, <2>3
<1>7. TypeOK /\ [Next]_vars => TypeOK'
  <2> SUFFICES ASSUME TypeOK, [Next]_vars PROVE TypeOK'
    OBVIOUS
  <2> HIDE DEF Picture
  <2>1. CASE UNCHANGED vars
    BY <2>1 DEF vars, TypeOK
  <2> QED BY <2>1, <1>3, <1>4, <1>5, <1>6 DEF Next
<1> QED BY <1>1, <1>7, PTL DEF Spec

-----------------------------------------------------------------------------
(* Sums of sequences (iter().sum() and the fold of compute_poc_type1).     *)

(* A set of natural numbers has a least one.                               *)
LEMMA LeastExists ==
    ASSUME NEW S \in SUBSET Nat, S # {}
    PROVE  \E m \in S : \A x \in S : m <= x
<1> DEFINE R == {q \in Nat \X Nat : q[1] < q[2]}
<1>1. IsWellFoundedOn(R, Nat)
  BY NatLessThanWellFounded DEF OpToRel
<1>2. \E m \in S : \A x \in S : ~ (<<x, m>> \in R)
  <2> HIDE DEF R
  <2> QED BY <1>1, WFMin
<1>3. PICK m \in S : \A x \in S : ~ (<<x, m>> \in R)
  BY <1>2
<1>4. \A x \in S : m <= x
  <2> TAKE x \in S
  <2>1. m \in Nat /\ x \in Nat
    OBVIOUS
  <2>2. ~ (x < m)
    BY <1>3, <2>1
  <2> QED BY <2>1, <2>2
<1> QED BY <1>4

(* What holds of 0 and of each successor up to n holds up to n.            *)
LEMMA EveryLength ==
    ASSUME NEW n \in Nat, NEW S, 0 \in S, \A k \in 1..n : k - 1 \in S => k \in S
    PROVE  \A k \in 0..n : k \in S
<1> DEFINE T == {k \in 0..n : k \notin S}
<1>1. SUFFICES ASSUME T # {} PROVE FALSE
  OBVIOUS
<1>2. T \in SUBSET Nat
  OBVIOUS
<1>3. PICK m \in T : \A x \in T : m <= x
  <2> HIDE DEF T
  <2> QED BY <1>1, <1>2, LeastExists
<1>4. m \in 0..n /\ m \notin S /\ m # 0
  OBVIOUS
<1>5. m \in 1..n /\ m - 1 \in 0..n /\ ~ (m <= m - 1)
  BY <1>4
<1>6. m - 1 \in S
  BY <1>3, <1>5
<1> QED BY <1>4, <1>5, <1>6

\* f has the sums of the first k elements of s.
Sums(f, s) == f = [k \in 0..Len(s) |-> IF k = 0 THEN 0 ELSE f[k - 1] + s[k]]

(* There is one such function, of integers if the elements are.            *)
LEMMA SumsExist ==
    ASSUME NEW s \in Seq(Int)
    PROVE  \E f \in [0..Len(s) -> Int] : Sums(f, s)
<1> DEFINE To(m) == \E f \in [0..m -> Int] : f[0] = 0 /\ \A k \in 1..m : f[k] = f[k - 1] + s[k]
           S == {m \in 0..Len(s) : To(m)}
<1>1. To(0)
  <2>1. PICK f : f = [k \in 0..0 |-> 0]
    OBVIOUS
  <2>2. f \in [0..0 -> Int] /\ f[0] = 0 /\ \A k \in 1..0 : FALSE
    BY <2>1
  <2> QED BY <2>2
<1>2. ASSUME NEW m \in 1..Len(s), To(m - 1) PROVE To(m)
  <2>1. PICK f \in [0..m - 1 -> Int] : f[0] = 0 /\ \A k \in 1..m - 1 : f[k] = f[k - 1] + s[k]
    BY <1>2
  <2>2. PICK g : g = [k \in 0..m |-> IF k = m THEN f[m - 1] + s[m] ELSE f[k]]
    OBVIOUS
  <2>3. g \in [0..m -> Int]
    <3>1. s[m] \in Int /\ f[m - 1] \in Int
      OBVIOUS
    <3>2. \A k \in 0..m : k # m => k \in 0..m - 1
      OBVIOUS
    <3> QED BY <2>2, <3>1, <3>2
  <2>4. g[0] = 0
    BY <2>1, <2>2
  <2>5. ASSUME NEW k \in 1..m PROVE g[k] = g[k - 1] + s[k]
    <3>1. g[k - 1] = f[k - 1]
      BY <2>2
    <3>2. CASE k = m
      BY <3>1, <3>2, <2>2
    <3>3. CASE k # m
      BY <3>1, <3>3, <2>1, <2>2
    <3> QED BY <3>2, <3>3
  <2> QED BY <2>3, <2>4, <2>5
<1>3. To(Len(s))
  <2> HIDE DEF To
  <2>1. Len(s) \in Nat /\ 0 \in S
    BY <1>1
  <2>2. \A k \in 1..Len(s) : k - 1 \in S => k \in S
    BY <1>2
  <2>3. \A k \in 0..Len(s) : k \in S
    <3> HIDE DEF S
    <3> QED BY <2>1, <2>2, EveryLength
  <2> QED BY <2>1, <2>3
<1>4. PICK f \in [0..Len(s) -> Int] :
          f[0] = 0 /\ \A k \in 1..Len(s) : f[k] = f[k - 1] + s[k]
  BY <1>3
<1>5. Len(s) \in Nat
  OBVIOUS
<1>6. f = [k \in 0..Len(s) |-> f[k]]
  OBVIOUS
<1>7. \A k \in 0..Len(s) : f[k] = IF k = 0 THEN 0 ELSE f[k - 1] + s[k]
  BY <1>4, <1>5
<1>8. Sums(f, s)
  BY <1>6, <1>7 DEF Sums
<1> QED BY <1>8

(* Sum looks up its last entry.                                            *)
LEMMA SumTable ==
    ASSUME NEW s \in Seq(Int)
    PROVE  \E f \in [0..Len(s) -> Int] : Sum(s) = f[Len(s)] /\ Sums(f, s)
<1> DEFINE g == CHOOSE f : Sums(f, s)
<1>1. \E f : Sums(f, s)
  BY SumsExist
<1>2. Sums(g, s)
  BY <1>1
<1>3. Sum(s) = g[Len(s)]
  BY DEF Sum, Sums
<1>4. PICK f \in [0..Len(s) -> Int] : Sums(f, s)
  BY SumsExist
<1> HIDE DEF g
<1>5. Len(s) \in Nat
  OBVIOUS
<1> DEFINE S == {k \in 0..Len(s) : f[k] = g[k]}
<1>6. f[0] = 0 /\ g[0] = 0 /\ \A k \in 1..Len(s) : f[k] = f[k - 1] + s[k] /\ g[k] = g[k - 1] + s[k]
  <2>1. 0 \in 0..Len(s) /\ \A k \in 1..Len(s) : k \in 0..Len(s) /\ k # 0
    BY <1>5
  <2>2. \A k \in 0..Len(s) : /\ f[k] = IF k = 0 THEN 0 ELSE f[k - 1] + s[k]
                             /\ g[k] = IF k = 0 THEN 0 ELSE g[k - 1] + s[k]
    BY <1>2, <1>4 DEF Sums
  <2> QED BY <2>1, <2>2
<1>7. 0 \in S /\ \A k \in 1..Len(s) : k - 1 \in S => k \in S
  BY <1>5, <1>6
<1>8. \A k \in 0..Len(s) : k \in S
  <2> HIDE DEF S
  <2> QED BY <1>5, <1>7, EveryLength
<1>9. f[Len(s)] = g[Len(s)]
  BY <1>5, <1>8
<1> QED BY <1>3, <1>4, <1>9

(* The sums of the beginnings of a sequence.                               *)
LEMMA SumGrows ==
    ASSUME NEW s \in Seq(Int)
    PROVE  /\ Sum(<<>>) = 0
           /\ \A k \in 1..Len(s) :
                Sum(SubSeq(s, 1, k)) = Sum(SubSeq(s, 1, k - 1)) + s[k]
           /\ Sum(SubSeq(s, 1, Len(s))) = Sum(s)
           /\ \A k \in 0..Len(s) : Sum(SubSeq(s, 1, k)) \in Int
<1>1. Sum(<<>>) = 0
  <2>1. <<>> \in Seq(Int) /\ Len(<<>>) = 0
    OBVIOUS
  <2>2. PICK f \in [0..0 -> Int] : Sum(<<>>) = f[0] /\ Sums(f, <<>>)
    BY <2>1, SumTable
  <2> QED BY <2>1, <2>2 DEF Sums
<1>2. PICK f \in [0..Len(s) -> Int] : Sum(s) = f[Len(s)] /\ Sums(f, s)
  BY SumTable
<1>3. Len(s) \in Nat
  OBVIOUS
<1>4. f[0] = 0 /\ \A k \in 1..Len(s) : f[k] = f[k - 1] + s[k]
  <2>1. 0 \in 0..Len(s) /\ \A k \in 1..Len(s) : k \in 0..Len(s) /\ k # 0
    BY <1>3
  <2>2. \A k \in 0..Len(s) : f[k] = IF k = 0 THEN 0 ELSE f[k - 1] + s[k]
    BY <1>2 DEF Sums
  <2> QED BY <2>1, <2>2
<1>5. ASSUME NEW n \in 0..Len(s) PROVE Sum(SubSeq(s, 1, n)) = f[n]
  <2> DEFINE t == SubSeq(s, 1, n)
  <2>1. t \in Seq(Int) /\ Len(t) = n /\ \A k \in 1..n : t[k] = s[k]
    BY <1>3
  <2> HIDE DEF t
  <2>2. PICK g \in [0..Len(t) -> Int] : Sum(t) = g[Len(t)] /\ Sums(g, t)
    BY <2>1, SumTable
  <2>3. g[0] = 0 /\ \A k \in 1..n : g[k] = g[k - 1] + s[k]
    <3>1. 0 \in 0..n /\ \A k \in 1..n : k \in 0..n /\ k # 0
      BY <1>3
    <3>2. \A k \in 0..n : g[k] = IF k = 0 THEN 0 ELSE g[k - 1] + t[k]
      BY <2>1, <2>2 DEF Sums
    <3> QED BY <2>1, <3>1, <3>2
  <2> DEFINE S == {k \in 0..n : f[k] = g[k]}
  <2>4. 0 \in S /\ \A k \in 1..n : k - 1 \in S => k \in S
    BY <1>3, <1>4, <2>3
  <2>5. \A k \in 0..n : k \in S
    <3> HIDE DEF S
    <3>1. n \in Nat
      BY <1>3
    <3> QED BY <2>4, <3>1, EveryLength
  <2>6. f[n] = g[n]
    BY <1>3, <2>5
  <2>7. Sum(t) = g[n]
    BY <2>1, <2>2
  <2> QED BY <2>6, <2>7 DEF t
<1>6. \A k \in 1..Len(s) : Sum(SubSeq(s, 1, k)) = Sum(SubSeq(s, 1, k - 1)) + s[k]
  <2> TAKE k \in 1..Len(s)
  <2>1. k \in 0..Len(s) /\ k - 1 \in 0..Len(s)
    BY <1>3
  <2> QED BY <1>4, <1>5, <2>1
<1>7. Sum(SubSeq(s, 1, Len(s))) = Sum(s)
  BY <1>2, <1>3, <1>5
<1> QED BY <1>1, <1>5, <1>6, <1>7

-----------------------------------------------------------------------------
(* Quotient and remainder.                                                 *)
LEMMA Division ==
    ASSUME NEW m \in Int, NEW l \in Int, l > 0
    PROVE  \E q \in Int, r \in 0..l - 1 : m = l * q + r /\ m \div l = q /\ m % l = r
OBVIOUS

(* Quotient and remainder of the next number.                              *)
LEMMA NextInCycle ==
    ASSUME NEW n \in Nat, NEW l \in Nat \ {0}
    PROVE  /\ n \div l \in Nat /\ n % l \in 0..l - 1
           /\ (n % l) + 1 < l => (n + 1) \div l = n \div l /\ (n + 1) % l = (n % l) + 1
           /\ (n % l) + 1 = l => (n + 1) \div l = (n \div l) + 1 /\ (n + 1) % l = 0
           /\ 0 \div l = 0 /\ 0 % l = 0
<1>1. /\ n = l * (n \div l) + (n % l) /\ n % l \in 0..l - 1 /\ n \div l \in Int
      /\ n + 1 = l * ((n + 1) \div l) + ((n + 1) % l) /\ (n + 1) % l \in 0..l - 1
      /\ (n + 1) \div l \in Int
  <2>1. ASSUME NEW m \in Nat
        PROVE  m = l * (m \div l) + (m % l) /\ m % l \in 0..l - 1 /\ m \div l \in Int
    <3>1. l \in Int /\ l > 0 /\ m \in Int
      OBVIOUS
    <3>2. \E q \in Int, r \in 0..l - 1 : m = l * q + r /\ m \div l = q /\ m % l = r
      BY <3>1, Division
    <3> QED BY <3>2
  <2>2. n + 1 \in Nat
    OBVIOUS
  <2> QED BY <2>1, <2>2
<1>2. ASSUME NEW a \in Int, NEW b \in Int, NEW r \in 0..l - 1, NEW t \in 0..l - 1,
             l * a + r = l * b + t
      PROVE  a = b /\ r = t
  <2>1. ~ (a >= b + 1)
    <3> SUFFICES ASSUME a >= b + 1 PROVE FALSE
      OBVIOUS
    <3>1. PICK d \in Nat : a = b + 1 + d
      <4>1. a - b - 1 \in Nat
        OBVIOUS
      <4> QED BY <4>1
    <3>2. l * a = l * b + l + l * d
      BY <3>1
    <3>3. l * d >= 0
      BY <3>1
    <3> QED BY <1>2, <3>2, <3>3
  <2>2. ~ (b >= a + 1)
    <3> SUFFICES ASSUME b >= a + 1 PROVE FALSE
      OBVIOUS
    <3>1. PICK d \in Nat : b = a + 1 + d
      <4>1. b - a - 1 \in Nat
        OBVIOUS
      <4> QED BY <4>1
    <3>2. l * b = l * a + l + l * d
      BY <3>1
    <3>3. l * d >= 0
      BY <3>1
    <3> QED BY <1>2, <3>2, <3>3
  <2>3. a = b
    BY <2>1, <2>2
  <2> QED BY <1>2, <2>3
<1> DEFINE q == n \div l
           r == n % l
           q1 == (n + 1) \div l
           r1 == (n + 1) % l
<1> HIDE DEF q, r, q1, r1
<1>3. n \div l \in Nat
  OBVIOUS
<1>4. ASSUME r + 1 < l PROVE q1 = q /\ r1 = r + 1
  <2>1. r + 1 \in 0..l - 1 /\ r1 \in 0..l - 1 /\ q \in Int /\ q1 \in Int
    BY <1>1, <1>4 DEF r, r1, q, q1
  <2>2. l * q1 + r1 = l * q + (r + 1)
    BY <1>1, <2>1 DEF r, r1, q, q1
  <2> QED BY <1>2, <2>1, <2>2
<1>5. ASSUME r + 1 = l PROVE q1 = q + 1 /\ r1 = 0
  <2>1. 0 \in 0..l - 1 /\ r1 \in 0..l - 1 /\ q + 1 \in Int /\ q1 \in Int /\ q \in Int
    BY <1>1 DEF r, r1, q, q1
  <2>2. l * q + l = l * (q + 1)
    BY <2>1
  <2>3. l * q1 + r1 = l * q + (r + 1)
    BY <1>1, <2>1 DEF r, r1, q, q1
  <2>4. l * q1 + r1 = l * (q + 1) + 0
    BY <1>5, <2>1, <2>2, <2>3
  <2> QED BY <1>2, <2>1, <2>4
<1>6. 0 \div l = 0 /\ 0 % l = 0
  OBVIOUS
<1> QED BY <1>1, <1>3, <1>4, <1>5, <1>6 DEF q, r, q1, r1

-----------------------------------------------------------------------------
(* Types 1 and 2.                                                          *)

(* Offsets are integers.                                                   *)
LEMMA ElementOf ==
    ASSUME NEW c \in Seq(Int), NEW k \in 1..Len(c)
    PROVE  c[k] \in Int
OBVIOUS

\* Where the offsets of n reference frames lead, in closed form.
Own(cycle, n) ==
    IF n = 0 \/ cycle = <<>> THEN 0
    ELSE ((n - 1) \div Len(cycle)) * Sum(cycle)
         + Sum(SubSeq(cycle, 1, ((n - 1) % Len(cycle)) + 1))

(* One offset further with one more reference frame: the closed form of    *)
(* compute_poc_type1 (dpb.rs:493-525) grows as the sum does.               *)
LEMMA OwnGrows ==
    ASSUME NEW c \in Seq(Int), NEW n \in Nat
    PROVE  /\ Own(c, n) \in Int
           /\ Own(c, n + 1) = IF c = <<>> THEN 0 ELSE Own(c, n) + c[(n % Len(c)) + 1]
<1>1. CASE c = <<>>
  BY <1>1 DEF Own
<1>2. CASE c # <<>>
  <2> DEFINE l == Len(c)
             P(k) == Sum(SubSeq(c, 1, k))
  <2>1. l \in Nat \ {0}
    BY <1>2
  <2>2. /\ P(l) = Sum(c) /\ \A k \in 0..l : P(k) \in Int
        /\ \A k \in 1..l : P(k) = P(k - 1) + c[k]
        /\ P(0) = 0
    <3>1. SubSeq(c, 1, 0) = <<>>
      OBVIOUS
    <3> QED BY <3>1, SumGrows
  <2>3. Sum(c) \in Int
    BY <2>1, <2>2
  <2>4. \A m \in Nat : m \div l \in Nat /\ m % l \in 0..l - 1
    BY <2>1, NextInCycle
  <2>5. \A m \in Nat : Own(c, m + 1) = (m \div l) * Sum(c) + P((m % l) + 1)
    BY <1>2 DEF Own
  <2> HIDE DEF l, P
  <2>6. \A m \in Nat : (m \div l) * Sum(c) + P((m % l) + 1) \in Int
    <3> TAKE m \in Nat
    <3> DEFINE q == m \div l
               r == m % l
    <3>1. q \in Nat /\ r \in 0..l - 1
      BY <2>1, NextInCycle
    <3> HIDE DEF q, r
    <3>2. r + 1 \in 0..l
      BY <2>1, <3>1
    <3>3. P(r + 1) \in Int /\ q * Sum(c) \in Int
      BY <2>2, <2>3, <3>1, <3>2
    <3>4. q * Sum(c) + P(r + 1) \in Int
      BY <3>3
    <3> QED BY <3>4 DEF q, r
  <2>7. Own(c, 0) = 0
    BY DEF Own
  <2>8. CASE n = 0
    <3>1. n \div l = 0 /\ n % l = 0
      BY <2>1, <2>8, NextInCycle
    <3>2. Own(c, n + 1) = P(1)
      <4>1. Own(c, n + 1) = ((n \div l) * Sum(c)) + P((n % l) + 1)
        BY <2>5
      <4>2. Own(c, n + 1) = (0 * Sum(c)) + P(0 + 1)
        BY <3>1, <4>1
      <4>3. P(1) \in Int
        BY <2>1, <2>2
      <4> QED BY <2>3, <4>2, <4>3
    <3>3. P(1) = c[1]
      BY <2>1, <2>2, ElementOf DEF l
    <3> QED BY <2>7, <2>8, <3>1, <3>2, <3>3, <1>2 DEF l
  <2>9. CASE n # 0
    <3> DEFINE m == n - 1
               q == m \div l
               r == m % l
    <3>1. m \in Nat /\ n = m + 1
      BY <2>9
    <3> HIDE DEF m
    <3>2. q \in Nat /\ r \in 0..l - 1
      BY <2>4, <3>1
    <3>3. Own(c, n) = q * Sum(c) + P(r + 1)
      BY <2>5, <3>1
    <3>4. Own(c, n + 1) = ((n \div l) * Sum(c)) + P((n % l) + 1)
      BY <2>5
    <3>5. CASE r + 1 < l
      <4>1. n \div l = q /\ n % l = r + 1
        BY <2>1, <3>1, <3>5, NextInCycle
      <4> HIDE DEF q, r
      <4>2. P((r + 1) + 1) = P(r + 1) + c[(r + 1) + 1]
        <5>1. (r + 1) + 1 \in 1..l /\ ((r + 1) + 1) - 1 = r + 1
          BY <2>1, <3>2, <3>5
        <5> QED BY <2>2, <5>1
      <4>3. r + 1 \in 0..l /\ (r + 1) + 1 \in 1..l
        BY <2>1, <3>2, <3>5
      <4>4. P(r + 1) \in Int /\ c[(r + 1) + 1] \in Int /\ q * Sum(c) \in Int
        BY <2>2, <2>3, <3>2, <4>3, ElementOf DEF l
      <4>5. Own(c, n + 1) = Own(c, n) + c[(n % l) + 1]
        BY <3>3, <3>4, <4>1, <4>2, <4>4
      <4> QED BY <1>2, <2>6, <3>1, <3>3, <4>4, <4>5 DEF l
    <3>6. CASE r + 1 = l
      <4>1. n \div l = q + 1 /\ n % l = 0
        BY <2>1, <3>1, <3>6, NextInCycle
      <4> HIDE DEF q, r
      <4>2. P(1) = c[1] /\ c[1] \in Int
        BY <2>1, <2>2, ElementOf DEF l
      <4>3. (q + 1) * Sum(c) = q * Sum(c) + Sum(c) /\ q * Sum(c) \in Int
        BY <2>3, <3>2
      <4>4. Own(c, n) = q * Sum(c) + Sum(c)
        BY <2>2, <3>3, <3>6
      <4>5. Own(c, n + 1) = Own(c, n) + c[(n % l) + 1]
        BY <2>3, <3>4, <4>1, <4>2, <4>3, <4>4
      <4> QED BY <1>2, <2>3, <4>3, <4>4, <4>5 DEF l
    <3>7. r + 1 < l \/ r + 1 = l
      BY <2>1, <3>2
    <3> QED BY <3>5, <3>6, <3>7
  <2> QED BY <2>8, <2>9
<1> QED BY <1>1, <1>2

\* The reference frames since the reset have led to the closed form of their
\* number, and a picture's frame_num says how many they are.
FrameNumInv ==
    /\ sps \in Spss
    /\ picture \in Pictures
    /\ sps.pic_order_cnt_type = 0 => picture.idr
    /\ last.frames \in 0..MaxFrameNum - 1
    /\ last.count = Own(Cycle, last.frames)
    /\ picture.frame_num = IF picture.nal_ref_idc > 0 THEN last.frames ELSE last.frames + 1
    /\ CountsAccumulate

(* What the fields of an SPS are.                                          *)
LEMMA SpsFields ==
    ASSUME sps \in Spss
    PROVE  /\ sps.pic_order_cnt_type \in 0..2 /\ sps.offset_for_ref_frame \in Seq(Int)
           /\ sps.offset_for_non_ref_pic \in Int /\ sps.offset_for_top_to_bottom_field \in Int
           /\ Cycle \in Seq(Int) /\ TopToBottom \in Int /\ NonRefOffset \in Int
<1>1. sps \in [pic_order_cnt_type : 0..2, offset_for_ref_frame : Seq(Int),
               offset_for_non_ref_pic : Int, offset_for_top_to_bottom_field : Int]
  BY PocFrameNumAssumption
<1>2. <<2>> \in Seq(Int)
  OBVIOUS
<1> QED BY <1>1, <1>2 DEF Cycle, TopToBottom, NonRefOffset

(* What a slice header of the stream holds.                                *)
LEMMA PictureFields ==
    ASSUME NEW h \in Pictures
    PROVE  /\ h.idr \in BOOLEAN /\ h.nal_ref_idc \in {0, 1} /\ h.mmco5 \in BOOLEAN
           /\ h.frame_num \in 0..MaxFrameNum - 1 /\ h.field_pic_flag \in BOOLEAN
           /\ h.bottom_field_flag \in BOOLEAN /\ h.second \in BOOLEAN
           /\ h.delta[1] \in Int /\ h.delta[2] \in Int
           /\ h.bottom_field_flag \/ h.second => h.field_pic_flag
           /\ h.field_pic_flag => h.delta[2] = 0
           /\ sps.pic_order_cnt_type = 2 => h.delta = <<0, 0>>
           /\ h.mmco5 => h.nal_ref_idc > 0 /\ ~h.idr /\ ~h.field_pic_flag
           /\ h.idr => h.nal_ref_idc > 0 /\ h.frame_num = 0
<1>1. h \in [idr : BOOLEAN, nal_ref_idc : {0, 1}, mmco5 : BOOLEAN,
             frame_num : 0..MaxFrameNum - 1, field_pic_flag : BOOLEAN,
             bottom_field_flag : BOOLEAN, second : BOOLEAN, delta : Deltas \X Deltas]
  BY DEF Pictures
<1>2. h.delta \in Deltas \X Deltas
  BY <1>1
<1>3. h.delta[1] \in Int /\ h.delta[2] \in Int
  BY <1>2, PocFrameNumAssumption
<1>4. /\ h.idr \in BOOLEAN /\ h.nal_ref_idc \in {0, 1} /\ h.mmco5 \in BOOLEAN
      /\ h.frame_num \in 0..MaxFrameNum - 1 /\ h.field_pic_flag \in BOOLEAN
      /\ h.bottom_field_flag \in BOOLEAN /\ h.second \in BOOLEAN
  BY <1>1
<1>5. /\ h.bottom_field_flag \/ h.second => h.field_pic_flag
      /\ h.field_pic_flag => h.delta[2] = 0
      /\ sps.pic_order_cnt_type = 2 => h.delta = <<0, 0>>
      /\ h.mmco5 => h.nal_ref_idc > 0 /\ ~h.idr /\ ~h.field_pic_flag
      /\ h.idr => h.nal_ref_idc > 0 /\ h.frame_num = 0
  BY DEF Pictures
<1> QED BY <1>3, <1>4, <1>5

(* Two per reference frame: the cycle that type 2 stands for.              *)
LEMMA OwnOfType2 ==
    ASSUME NEW n \in Nat
    PROVE  Own(<<2>>, n) = 2 * n
<1>1. <<2>> \in Seq(Int) /\ Len(<<2>>) = 1 /\ <<2>> # <<>> /\ <<2>>[1] = 2
  OBVIOUS
<1> DEFINE c == <<2>>
           S == {k \in 0..n : Own(c, k) = 2 * k}
<1>2. 0 \in S
  BY DEF Own
<1>3. ASSUME NEW k \in 1..n, k - 1 \in S PROVE k \in S
  <2> HIDE DEF c
  <2>1. k - 1 \in Nat /\ (k - 1) + 1 = k /\ (k - 1) % 1 = 0
    OBVIOUS
  <2>2. Own(c, k) = Own(c, k - 1) + 2
    <3>1. Own(c, (k - 1) + 1) = Own(c, k - 1) + c[((k - 1) % 1) + 1]
      BY <1>1, <2>1, OwnGrows DEF c
    <3> QED BY <1>1, <2>1, <3>1 DEF c
  <2>3. Own(c, k - 1) = 2 * (k - 1)
    BY <1>3
  <2>4. Own(c, k) = 2 * k
    BY <2>2, <2>3
  <2> QED BY <2>4
<1>4. n \in S
  <2> HIDE DEF S
  <2> QED BY <1>2, <1>3, EveryLength
<1> QED BY <1>4

(* What compute_poc gives a picture whose frame_num is the number of       *)
(* reference frames up to it is what their offsets add up to.              *)
LEMMA CountOfPicture ==
    ASSUME sps \in Spss, sps.pic_order_cnt_type # 0, NEW h \in Pictures, ~h.idr, NEW n \in Nat,
           h.nal_ref_idc > 0 \/ sps.pic_order_cnt_type = 2,
           h.frame_num = IF h.nal_ref_idc > 0 THEN n ELSE n + 1
    PROVE  ComputePocByFrameNum(h) =
             OwnCount(Own(Cycle, n) + IF h.nal_ref_idc > 0 THEN 0 ELSE NonRefOffset, h)
<1>1. Own(Cycle, n) \in Int /\ h.delta[1] \in Int /\ h.delta[2] \in Int
  BY SpsFields, PictureFields, OwnGrows
<1>2. h.nal_ref_idc \in {0, 1} /\ h.field_pic_flag \in BOOLEAN /\ h.bottom_field_flag \in BOOLEAN
      /\ (h.field_pic_flag => h.delta[2] = 0) /\ (h.bottom_field_flag => h.field_pic_flag)
  BY PictureFields
<1>3. CASE sps.pic_order_cnt_type = 1
  <2>1. h.nal_ref_idc > 0 /\ h.frame_num = n /\ ~(h.nal_ref_idc = 0)
    BY <1>2, <1>3
  <2>2. Cycle = sps.offset_for_ref_frame /\ TopToBottom = sps.offset_for_top_to_bottom_field
    BY <1>3 DEF Cycle, TopToBottom
  <2>3. ExpectedPoc(h) = Own(Cycle, n)
    BY <2>1, <2>2 DEF ExpectedPoc, Own
  <2>4. ComputePocByFrameNum(h) = ComputePocType1(h)
    BY <1>3 DEF ComputePocByFrameNum
  <2>5. TopToBottom \in Int
    BY SpsFields
  <2> DEFINE e == Own(Cycle, n)
  <2>6. e \in Int /\ e + (IF h.nal_ref_idc > 0 THEN 0 ELSE NonRefOffset) = e
    BY <1>1, <2>1
  <2> HIDE DEF e
  <2>7. ComputePocType1(h) = OwnCount(e, h)
    <3>1. CASE h.field_pic_flag /\ h.bottom_field_flag
      BY <1>1, <1>2, <2>2, <2>3, <2>5, <2>6, <3>1 DEF ComputePocType1, OwnCount, e
    <3>2. CASE h.field_pic_flag /\ ~h.bottom_field_flag
      BY <1>1, <1>2, <2>2, <2>3, <2>5, <2>6, <3>2 DEF ComputePocType1, OwnCount, e
    <3>3. CASE ~h.field_pic_flag
      BY <1>1, <1>2, <2>2, <2>3, <2>5, <2>6, <3>3 DEF ComputePocType1, OwnCount, e
    <3> QED BY <1>2, <3>1, <3>2, <3>3
  <2> QED BY <2>4, <2>6, <2>7 DEF e
<1>4. CASE sps.pic_order_cnt_type = 2
  <2>1. Cycle = <<2>> /\ TopToBottom = 0 /\ NonRefOffset = 1
    BY <1>4 DEF Cycle, TopToBottom, NonRefOffset
  <2>2. Own(Cycle, n) = 2 * n
    BY <2>1, OwnOfType2
  <2>3. h.delta[1] = 0 /\ h.delta[2] = 0
    <3>1. h.delta = <<0, 0>>
      BY <1>4, PictureFields
    <3> QED BY <3>1
  <2>4. ComputePocByFrameNum(h) = ComputePocType2(h)
    BY <1>4 DEF ComputePocByFrameNum
  <2> DEFINE e == Own(Cycle, n) + IF h.nal_ref_idc > 0 THEN 0 ELSE NonRefOffset
  <2>5. e \in Int /\ ComputePocType2(h) = e
    BY <1>2, <2>1, <2>2 DEF ComputePocType2
  <2> HIDE DEF e
  <2>6. OwnCount(e, h) = e
    BY <1>2, <2>1, <2>3, <2>5 DEF OwnCount
  <2> QED BY <2>4, <2>5, <2>6 DEF e
<1> QED BY <1>3, <1>4, SpsFields

(* Before the first picture: no reference frame since the reset.           *)
LEMMA FrameNumStart ==
    ASSUME FrameNumInit
    PROVE  FrameNumInv
<1>1. picture \in Pictures
  <2>1. 0 \in Deltas /\ 0 \in 0..MaxFrameNum - 1
    BY PocFrameNumAssumption
  <2>2. <<0, 0>> \in Deltas \X Deltas /\ <<0, 0>>[2] = 0
    BY <2>1
  <2> QED BY <2>1, <2>2 DEF FrameNumInit, Pictures
<1>2. last.frames = 0 /\ last.count = 0 /\ 0 \in 0..MaxFrameNum - 1
  BY PocFrameNumAssumption DEF FrameNumInit, Reset
<1>3. Own(Cycle, 0) = 0
  BY DEF Own
<1>4. picture.idr /\ picture.nal_ref_idc > 0 /\ picture.frame_num = 0
  BY DEF FrameNumInit
<1>5. CountsAccumulate
  BY <1>4 DEF CountsAccumulate
<1> QED BY <1>1, <1>2, <1>3, <1>4, <1>5 DEF FrameNumInv, FrameNumInit

(* The picture after this one sees the reference frames in closed form.    *)
LEMMA LastInClosedForm ==
    ASSUME FrameNumInv
    PROVE  LastAfter.frames \in 0..MaxFrameNum - 1 /\ LastAfter.count = Own(Cycle, LastAfter.frames)
<1>1. CASE picture.mmco5
  <2>1. LastAfter.frames = 0 /\ LastAfter.count = 0 /\ 0 \in 0..MaxFrameNum - 1
    BY <1>1, PocFrameNumAssumption DEF LastAfter, Reset
  <2> QED BY <2>1 DEF Own
<1>2. CASE ~picture.mmco5
  BY <1>2 DEF LastAfter, FrameNumInv
<1> QED BY <1>1, <1>2

(* Each picture sent, whether it is an IDR picture, a second field, or     *)
(* begins a frame, keeps the closed form and gets its count.               *)
LEMMA FrameNumStep ==
    ASSUME Wraps = FALSE, FrameNumInv, sps.pic_order_cnt_type # 0, FrameNumNext
    PROVE  FrameNumInv'
<1>1. PICK h \in Pictures : SendPicture(h)
  BY DEF FrameNumNext
<1>2. /\ picture' = h /\ count' = ComputePocByFrameNum(h) /\ sps' = sps
      /\ (h.idr /\ last' = Reset) \/ SecondField(h) \/ NewFrame(h)
  BY <1>1 DEF SendPicture
<1>3. /\ sps' \in Spss /\ picture' \in Pictures' /\ Cycle' = Cycle
      /\ TopToBottom' = TopToBottom /\ NonRefOffset' = NonRefOffset
      /\ sps'.pic_order_cnt_type # 0
  BY <1>2 DEF FrameNumInv, Pictures, Cycle, TopToBottom, NonRefOffset
<1>4. /\ MaxFrameNum \in Nat /\ h.nal_ref_idc \in {0, 1}
      /\ h.idr => h.nal_ref_idc > 0 /\ h.frame_num = 0
  BY PictureFields, PocFrameNumAssumption
<1>5. /\ last'.frames \in 0..MaxFrameNum - 1
      /\ last'.count = Own(Cycle, last'.frames)
      /\ h.frame_num = IF h.nal_ref_idc > 0 THEN last'.frames ELSE last'.frames + 1
  <2>1. CASE h.idr /\ last' = Reset
    <3>1. last'.frames = 0 /\ last'.count = 0 /\ 0 \in 0..MaxFrameNum - 1
      BY <2>1, PocFrameNumAssumption DEF Reset
    <3> QED BY <1>4, <2>1, <3>1 DEF Own
  <2>2. CASE SecondField(h)
    BY <2>2 DEF SecondField, FrameNumInv
  <2>3. CASE NewFrame(h)
    <3> DEFINE n == LastAfter.frames
    <3>1. n \in 0..MaxFrameNum - 1 /\ LastAfter.count = Own(Cycle, n)
      BY LastInClosedForm
    <3>2. n + 1 < MaxFrameNum /\ h.frame_num = (n + 1) % MaxFrameNum
      BY <2>3 DEF NewFrame
    <3>3. last' = IF h.nal_ref_idc > 0 THEN Advance(LastAfter) ELSE LastAfter
      BY <2>3 DEF NewFrame
    <3>4. /\ Advance(LastAfter).frames = n + 1
          /\ Advance(LastAfter).count =
               IF Cycle = <<>> THEN 0 ELSE LastAfter.count + Cycle[(n % Len(Cycle)) + 1]
      BY DEF Advance
    <3> HIDE DEF n
    <3>5. h.frame_num = n + 1 /\ n \in Nat
      BY <1>4, <3>1, <3>2
    <3>6. Own(Cycle, n + 1) = IF Cycle = <<>> THEN 0
                              ELSE Own(Cycle, n) + Cycle[(n % Len(Cycle)) + 1]
      <4>1. Cycle \in Seq(Int)
        BY SpsFields DEF FrameNumInv
      <4> QED BY <3>5, <4>1, OwnGrows
    <3>7. CASE h.nal_ref_idc > 0
      <4>1. last'.frames = n + 1 /\ last'.count = Own(Cycle, n + 1)
        BY <3>1, <3>3, <3>4, <3>6, <3>7
      <4>2. n + 1 \in 0..MaxFrameNum - 1
        BY <1>4, <3>1, <3>2
      <4> QED BY <3>5, <3>7, <4>1, <4>2
    <3>8. CASE ~(h.nal_ref_idc > 0)
      <4>1. last'.frames = n /\ last'.count = Own(Cycle, n)
        BY <3>1, <3>3, <3>8 DEF n
      <4> QED BY <3>1, <3>5, <3>8, <4>1
    <3> QED BY <3>7, <3>8
  <2> QED BY <1>2, <2>1, <2>2, <2>3
<1>6. CountsAccumulate'
  <2> SUFFICES ASSUME ~h.idr, h.nal_ref_idc > 0 \/ sps.pic_order_cnt_type = 2
               PROVE  count' = OwnCount(last'.count
                                          + IF h.nal_ref_idc > 0 THEN 0 ELSE NonRefOffset, h)
    BY <1>2, <1>3 DEF CountsAccumulate, OwnCount
  <2>1. last'.frames \in Nat /\ sps \in Spss
    BY <1>4, <1>5 DEF FrameNumInv
  <2> QED BY <1>2, <1>5, <2>1, CountOfPicture
<1> QED BY <1>2, <1>3, <1>5, <1>6 DEF FrameNumInv

(* The form chosen by the SPS keeps its own state, the other one none.     *)
LEMMA PicOrderStep ==
    ASSUME Wraps = FALSE, FrameNumInv, [PicOrderNext]_<<vars, frameNumVars>>
    PROVE  FrameNumInv'
<1>1. CASE sps.pic_order_cnt_type # 0 /\ FrameNumNext
  BY <1>1, FrameNumStep
<1>2. CASE UNCHANGED frameNumVars
  <2>1. UNCHANGED <<sps, picture, count, last>>
    BY <1>2 DEF frameNumVars
  <2> QED
    BY <2>1
    DEF FrameNumInv, Pictures, Cycle, CountsAccumulate, OwnCount, TopToBottom, NonRefOffset
<1> QED BY <1>1, <1>2 DEF PicOrderNext

(* Under types 1 and 2 every reference picture, frame or field, gets the   *)
(* sum of the offsets of all reference frames since the last reset, though *)
(* the code computes it in closed form from frame_num alone; for cycles of *)
(* any length and offsets (compute_poc_type1 and _type2, dpb.rs:482-555).  *)
(* As long as frame_num does not wrap between two resets.                  *)
THEOREM ClosedFormsAccumulate ==
    ASSUME Wraps = FALSE
    PROVE  PicOrderSpec => []CountsAccumulate
<1>1. PicOrderInit => FrameNumInv
  BY FrameNumStart DEF PicOrderInit
<1>2. FrameNumInv /\ [PicOrderNext]_<<vars, frameNumVars>> => FrameNumInv'
  BY PicOrderStep
<1>3. FrameNumInv => CountsAccumulate
  BY DEF FrameNumInv
<1> QED BY <1>1, <1>2, <1>3, PTL DEF PicOrderSpec

(* compute_poc, whichever type the SPS announces: what it does to the      *)
(* state of type 0 is what PocLsb says.                                    *)
LEMMA LsbPart == PicOrderSpec => Spec
<1>1. PicOrderInit => Init
  BY DEF PicOrderInit
<1>2. [PicOrderNext]_<<vars, frameNumVars>> => [Next]_vars
  BY DEF PicOrderNext
<1> QED BY <1>1, <1>2, PTL DEF PicOrderSpec, Spec

(* Type 0 is recovered next to the other two as it is by itself: an SPS    *)
(* announces one type for the sequence (compute_poc, dpb.rs:415-430).      *)
THEOREM LsbRecovered ==
    ASSUME BottomFirst = FALSE
    PROVE  PicOrderSpec => [](TypeOK /\ PocRecovered)
<1>1. Spec => [](TypeOK /\ PocRecovered /\ StateIsReference)
  BY OrderCountsRecovered
<1> QED BY <1>1, LsbPart, PTL
=============================================================================

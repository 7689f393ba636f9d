------------------------------ MODULE PicOrder ------------------------------
(***************************************************************************)
(* Dpb::compute_poc (src/src/dpb.rs): the type of the order count that the *)
(* sequence parameter set announces decides which of its forms is used,    *)
(* PocLsb or PocFrameNum.                                                  *)
(***************************************************************************)
EXTENDS PocLsb, PocFrameNum

PicOrderInit == Init /\ FrameNumInit

\* The forms share the order count's place in the picture but no state.
PicOrderNext ==
    \/ sps.pic_order_cnt_type = 0 /\ Next /\ UNCHANGED frameNumVars
    \/ sps.pic_order_cnt_type # 0 /\ FrameNumNext /\ UNCHANGED vars

PicOrderSpec == PicOrderInit /\ [][PicOrderNext]_<<vars, frameNumVars>>

-----------------------------------------------------------------------------
(* The instance of pic_order and poc_type1: 4-bit low parts are the        *)
(* narrowest the syntax has; cycles of no, one and two offsets.            *)

BottomDeltasDef == {-1, 1}

Sps(type, offsets) ==
    [pic_order_cnt_type |-> type, offset_for_ref_frame |-> offsets,
     offset_for_non_ref_pic |-> -2, offset_for_top_to_bottom_field |-> 1]
SpssDef == {Sps(0, <<>>), Sps(1, <<>>), Sps(1, <<4>>), Sps(1, <<2, 6>>), Sps(2, <<>>)}
DeltasDef == {-3, 0, 1}
=============================================================================

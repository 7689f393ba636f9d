---------------------------- MODULE RefListSpec -----------------------------
(***************************************************************************)
(* Reference picture lists as the standard the code implements states them *)
(* (H.264 8.2.4, the clauses that src/src/dpb.rs cites): what the entries  *)
(* of a slice's lists have to be.  Frames, and fields of streams in which  *)
(* every picture is a field.  No definition here stands for code; RefList  *)
(* is compared with it.                                                    *)
(*                                                                         *)
(* A slice is a record: kind ("P", or "B0" and "B1" for the two lists of a *)
(* B slice), poc, frame_num, structure and num_active.                     *)
(***************************************************************************)
EXTENDS DpbOps, Sequences

CONSTANTS
    MaxFrameNum,   \* frame_num counts modulo this
    NoPicture      \* "no reference picture"

\* The elements of S in the order before; before is total on S.
Sorted(S, before(_, _)) ==
    [i \in 1..Cardinality(S) |->
        CHOOSE e \in S : Cardinality({f \in S : before(f, e)}) = i - 1]

IsField(slice) == slice.structure # "Frame"

Parity(e, slice) == e.pic.structure = slice.structure

\* 8.2.4.1, with PicNum and LongTermPicNum for both structures.
FrameNumWrap(e, slice) ==
    IF e.pic.frame_num > slice.frame_num THEN e.pic.frame_num - MaxFrameNum
    ELSE e.pic.frame_num

OfField(number, e, slice) ==
    IF ~IsField(slice) THEN number
    ELSE IF Parity(e, slice) THEN 2 * number + 1 ELSE 2 * number

PicNum(e, slice) == OfField(FrameNumWrap(e, slice), e, slice)
LongTermPicNum(e, slice) == OfField(e.ref.idx, e, slice)

CurrPicNum(slice) == IF IsField(slice) THEN 2 * slice.frame_num + 1 ELSE slice.frame_num
MaxPicNum(slice)  == IF IsField(slice) THEN 2 * MaxFrameNum ELSE MaxFrameNum

-----------------------------------------------------------------------------
(* Initial lists (8.2.4.2.1 to 8.2.4.2.4).  For a field the pictures are   *)
(* ordered frame by frame, the fields of one having one place; the parity  *)
(* they are then taken in decides between them.                            *)

\* Field pairs count as a picture of the lower order count.
OrderCount(es, e) ==
    LET frame == {f \in es : f.pic.frame_num = e.pic.frame_num /\ f.ref = e.ref}
    IN  CHOOSE n \in {f.pic.poc : f \in frame} : \A f \in frame : n <= f.pic.poc

\* Before(a, b): the frame of a comes before that of b in an initial list.
ShortBefore(es, slice, a, b) ==
    LET na == FrameNumWrap(a, slice)  nb == FrameNumWrap(b, slice)
        pa == OrderCount(es, a)       pb == OrderCount(es, b)
        Past(p) == p <= slice.poc
        Nearer(x, y) == IF Past(x) THEN y < x ELSE x < y
    IN  CASE slice.kind = "P"  -> na > nb
          [] slice.kind = "B0" -> IF Past(pa) = Past(pb) THEN Nearer(pa, pb) ELSE Past(pa)
          [] slice.kind = "B1" -> IF Past(pa) = Past(pb) THEN Nearer(pa, pb) ELSE Past(pb)

FrameOrder(es, slice, a, b) ==
    IF a.ref.kind # b.ref.kind THEN a.ref.kind = "short"
    ELSE IF a.ref.kind = "long" THEN a.ref.idx < b.ref.idx
    ELSE ShortBefore(es, slice, a, b)

\* 8.2.4.2.5: fields are taken from the ordered frames by turns, beginning
\* with the current parity, until one parity has none left.
ByTurns(s, t) ==
    LET turns == IF Len(s) <= Len(t) THEN Len(s) ELSE Len(t)
    IN  [k \in 1..2 * turns |-> IF k % 2 = 1 THEN s[(k + 1) \div 2] ELSE t[k \div 2]]
        \o SubSeq(s, turns + 1, Len(s)) \o SubSeq(t, turns + 1, Len(t))

InitialOf(es, S, slice) ==
    LET ordered(T) == Sorted(T, LAMBDA a, b : FrameOrder(es, slice, a, b))
        same == {e \in S : Parity(e, slice)}
    IN  IF IsField(slice) THEN ByTurns(ordered(same), ordered(S \ same)) ELSE ordered(S)

Initial(es, slice) ==
    InitialOf(es, Shorts(es), slice) \o InitialOf(es, Longs(es), slice)

\* The first two entries of list 1 change places if it is list 0.
Swapped(es, slice) ==
    LET list == Initial(es, slice)
    IN  IF /\ slice.kind = "B1" /\ Len(list) > 1
           /\ list = Initial(es, [slice EXCEPT !.kind = "B0"])
        THEN <<list[2], list[1]>> \o SubSeq(list, 3, Len(list))
        ELSE list

\* Cut or filled to the active length.
StandardList(es, slice) ==
    LET list == Swapped(es, slice)
    IN  [i \in 1..slice.num_active |-> IF i <= Len(list) THEN list[i] ELSE NoPicture]

-----------------------------------------------------------------------------
(* Modification (8.2.4.3).  A command moves a picture to the place idx,    *)
(* from 0, and what follows one place on; where the picture stood later it *)
(* is left out.                                                            *)

\* What is left of a list without the elements of S.
Without(list, S) ==
    LET left[i \in 0..Len(list)] ==
            IF i = 0 THEN <<>>
            ELSE IF list[i] \in S THEN left[i - 1] ELSE Append(left[i - 1], list[i])
    IN  left[Len(list)]

Placed(list, idx, e) ==
    LET rest == Without(SubSeq(list, idx + 1, Len(list)), {e})
    IN  SubSeq(SubSeq(list, 1, idx) \o <<e>> \o rest, 1, Len(list))

\* The short-term number that a difference leads to from the one before.
NumberAfter(pred, idc, val, slice) ==
    LET max == MaxPicNum(slice)
    IN  IF idc = 0 THEN IF pred - (val + 1) < 0 THEN pred - (val + 1) + max ELSE pred - (val + 1)
        ELSE IF pred + val + 1 >= max THEN pred + val + 1 - max ELSE pred + val + 1

PicNumOf(number, slice) ==
    IF number > CurrPicNum(slice) THEN number - MaxPicNum(slice) ELSE number
=============================================================================

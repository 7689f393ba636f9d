------------------------------- MODULE DpbOps -------------------------------
(***************************************************************************)
(* The operations of the decoded picture buffer (src/src/dpb.rs) as        *)
(* operators on its contents.                                              *)
(*                                                                         *)
(* The Vec<DpbEntry> is a set of entries here.  Its order is not lost: the *)
(* code only ever appends, so the order of the vector is the order in      *)
(* which pictures were inserted, and a picture carries that rank as `id`.  *)
(* The "first" entry of the vector with some quality is the one of least   *)
(* id.  Sample planes and motion data are abstracted away.                 *)
(***************************************************************************)
EXTENDS Integers, FiniteSets

Structures == {"Frame", "TopField", "BottomField"}

\* enum ReferenceStatus
Unused      == [kind |-> "unused", idx |-> 0]
ShortTerm   == [kind |-> "short",  idx |-> 0]
LongTerm(i) == [kind |-> "long",   idx |-> i]

Picture(id, frame_num, poc, structure) ==
    [id |-> id, frame_num |-> frame_num, poc |-> poc, structure |-> structure]

Entry(pic, ref) == [pic |-> pic, ref |-> ref]

Shorts(es) == {e \in es : e.ref = ShortTerm}
Longs(es)  == {e \in es : e.ref.kind = "long"}

FrameNums(es) == {e.pic.frame_num : e \in es}

\* The first and the last entry of S in vector order; empty when S is.
FirstOf(S) == {e \in S : \A f \in S : e.pic.id <= f.pic.id}
LastOf(S)  == {e \in S : \A f \in S : f.pic.id <= e.pic.id}

Max0(a, b) == IF a >= b THEN a ELSE b

-----------------------------------------------------------------------------
(* Sliding window marking.  The loop evicts the frame_num of the oldest    *)
(* short-term entry, both fields at once, until fewer than max distinct    *)
(* frame_nums are left or no short-term entry is.  Its result is described *)
(* by where it stopped: every short-term frame_num that occurs at or       *)
(* before the stopping point is gone, and the point is the first that will *)
(* do.                                                                     *)

EvictedUpTo(es, cut) ==
    LET gone == FrameNums({e \in Shorts(es) : e.pic.id <= cut})
    IN  {e \in Shorts(es) : e.pic.frame_num \in gone}

\* Mutant: the window counts short-term frames only.
WindowFitsShortOnly(es, max) ==
    \/ Cardinality(FrameNums(Shorts(es))) < max
    \/ Shorts(es) = {}

\* Mutant: `<=` for `<`, the buffer is left full before the push.
WindowFitsOffByOne(es, max) ==
    \/ Cardinality(FrameNums(es)) <= max
    \/ Shorts(es) = {}

WindowFits(es, max) ==
    \/ Cardinality(FrameNums(es)) < max
    \/ Shorts(es) = {}

\* The candidates for the stopping point: before the first iteration, or
\* right after a short-term entry.
Cuts(es) == {0} \cup {e.pic.id : e \in Shorts(es)}

StopsAt(es, max, cut) ==
    /\ cut \in Cuts(es)
    /\ WindowFits(es \ EvictedUpTo(es, cut), max)
    /\ \A c \in Cuts(es) :
         WindowFits(es \ EvictedUpTo(es, c), max) => cut <= c

\* Mutant: the newest short-term frame goes, `rposition` for `position`.
SlidingWindowMarkNewest(es, max) ==
    IF WindowFits(es, max) THEN es
    ELSE {e \in es : e.ref = ShortTerm =>
                       e.pic.frame_num \notin FrameNums(LastOf(Shorts(es)))}

\* Mutant: the lowest frame_num goes, which after a wrap is not the oldest.
SlidingWindowMarkLowest(es, max) ==
    IF WindowFits(es, max) THEN es
    ELSE {e \in es : e.ref = ShortTerm =>
                       \E n \in FrameNums(Shorts(es)) : n < e.pic.frame_num}

SlidingWindowMark(es, max) ==
    IF max = 0 THEN es
    ELSE es \ EvictedUpTo(es, CHOOSE cut \in Cuts(es) : StopsAt(es, max, cut))

-----------------------------------------------------------------------------
(* insert(): two fields of one frame_num count as one reference frame, so  *)
(* the second does not slide the window.                                   *)

CompletesPair(es, pic) ==
    /\ pic.structure # "Frame"
    /\ \E e \in Shorts(es) :
         /\ e.pic.frame_num = pic.frame_num
         /\ e.pic.structure # pic.structure
         /\ e.pic.structure # "Frame"

\* Mutant: a picture that is no reference stays, there is no remove_unused.
InsertKeepsUnused(es, max, pic, ref) ==
    (IF ref = ShortTerm /\ ~CompletesPair(es, pic) THEN SlidingWindowMark(es, max) ELSE es)
    \cup {Entry(pic, ref)}

Insert(es, max, pic, ref) ==
    IF ref = Unused THEN es
    ELSE (IF ref = ShortTerm /\ ~CompletesPair(es, pic)
          THEN SlidingWindowMark(es, max)
          ELSE es) \cup {Entry(pic, ref)}

-----------------------------------------------------------------------------
(* The marking operations.  Each ends in remove_unused(), so an entry that *)
(* becomes Unused leaves the set at once.                                  *)

MarkShortTermUnused(es, frame_num) ==
    es \ FirstOf({e \in Shorts(es) : e.pic.frame_num = frame_num})

MarkLongTermUnused(es, long_term_pic_num) ==
    es \ FirstOf({e \in es : e.ref = LongTerm(long_term_pic_num)})

\* The entries of S become long-term pictures of index i.
Promote(es, S, i) == (es \ S) \cup {Entry(e.pic, LongTerm(i)) : e \in S}

\* Mutant: an index in use is not freed.
WithoutIndexKeeps(es, i) == es

\* The entries left once index i is free.
WithoutIndex(es, i) == {e \in es : e.ref # LongTerm(i)}

AssignLongTerm(es, frame_num, i) ==
    LET kept == WithoutIndex(es, i)
    IN  Promote(kept, FirstOf({e \in Shorts(kept) : e.pic.frame_num = frame_num}), i)

MarkCurrentAsLongTerm(es, i, frame_num) ==
    LET kept == WithoutIndex(es, i)
    IN  Promote(kept, LastOf({e \in Shorts(kept) : e.pic.frame_num = frame_num}), i)

\* plus1 = 0 admits no index, which is what the code's first branch does.
SetMaxLongTermFrameIdx(es, plus1) ==
    {e \in es : e.ref.kind = "long" => e.ref.idx + 1 <= plus1}

ClearAllRefs(es) == {}

Clear(es) == {}
=============================================================================

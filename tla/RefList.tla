------------------------------- MODULE RefList ------------------------------
(***************************************************************************)
(* The reference picture lists of a slice (src/src/dpb.rs) and how         *)
(* decode_slice (src/src/decoder.rs) builds one: the initial list, the     *)
(* filling up to the active length, then one step per modification command *)
(* of the slice header.  A behaviour is one list of one slice over any     *)
(* buffer a conforming stream can have left.                               *)
(*                                                                         *)
(* A slice is a record, see RefListSpec, and an entry of a list is the DPB *)
(* entry the picture has.  `standard` follows the clauses and is what the  *)
(* list is compared with.                                                  *)
(***************************************************************************)
EXTENDS RefListSpec

CONSTANTS
    MaxRefs,      \* frames or field pairs in the buffer, at most
    Actives,      \* set of num_ref_idx_lX_active
    MaxCommands,  \* modification commands of a list, at most
    Avoided       \* situations the input keeps out of, see Avoids

ASSUME RefListAssumption ==
    /\ MaxFrameNum \in Nat \ {0} /\ MaxRefs \in Nat /\ MaxRefs < MaxFrameNum
    /\ Actives \subseteq Nat \ {0} /\ MaxCommands \in Nat
    /\ NoPicture \notin [pic : [id : Nat, frame_num : Nat, poc : Int, structure : Structures],
                        ref : [kind : {"short", "long"}, idx : Nat]]
    /\ Avoided \subseteq {"p_after_reordering", "long_term_command", "pushed_out"}

VARIABLES
    entries,      \* Dpb.entries
    slice,        \* the slice header's share in the list
    list,         \* the Vec of pictures
    ref_idx_lx, pred_pic_num,   \* locals of apply_ref_list_modification
    standard, number            \* the standard's list and picNumLXNoWrap

vars == <<entries, slice, list, ref_idx_lx, pred_pic_num, standard, number>>

\* What the code does otherwise than the standard: P lists are sorted by
\* order count ("p_after_reordering"), a long-term command looks for a
\* frame_num ("long_term_command"), and a picture is looked for in the list,
\* out of which a command that repeats another one pushes one ("pushed_out").
Avoids(situation) == situation \in Avoided

-----------------------------------------------------------------------------
(* Initial lists.  The sorts are stable: among equals the order of the     *)
(* buffer stands, which is that of the ids.                                *)

Stably(less(_, _), a, b) == less(a, b) \/ (~less(b, a) /\ a.pic.id < b.pic.id)

SameParity(e, s) == (e.pic.structure = "BottomField") = (s.structure = "BottomField")

LongTermRefList(es) ==
    Sorted(Longs(es), LAMBDA a, b : Stably(LAMBDA x, y : x.ref.idx < y.ref.idx, a, b))

Descending(S) == Sorted(S, LAMBDA a, b : Stably(LAMBDA x, y : x.pic.poc > y.pic.poc, a, b))
Ascending(S)  == Sorted(S, LAMBDA a, b : Stably(LAMBDA x, y : x.pic.poc < y.pic.poc, a, b))

ShortTermRefList(es, s) ==
    LET less(x, y) == IF IsField(s) /\ x.pic.frame_num = y.pic.frame_num
                      THEN SameParity(x, s) /\ ~SameParity(y, s)
                      ELSE x.pic.poc > y.pic.poc
    IN  Sorted(Shorts(es), LAMBDA a, b : Stably(less, a, b)) \o LongTermRefList(es)

\* Two neighbours of one frame_num, and no third, change places if that puts
\* the parity of the slice first.
FieldParityInterleave(l, s) ==
    LET Same(i, j) == {i, j} \subseteq DOMAIN l /\ l[i].pic.frame_num = l[j].pic.frame_num
        Swaps(i) == /\ Same(i, i + 1) /\ ~Same(i - 1, i) /\ ~Same(i + 1, i + 2)
                    /\ ~SameParity(l[i], s) /\ SameParity(l[i + 1], s)
    IN  [i \in DOMAIN l |-> IF Swaps(i) THEN l[i + 1]
                            ELSE IF Swaps(i - 1) THEN l[i - 1] ELSE l[i]]

BeforeCurrent(es, s) == Descending({e \in Shorts(es) : e.pic.poc <= s.poc})
AfterCurrent(es, s)  == Ascending({e \in Shorts(es) : e.pic.poc > s.poc})

InterleavedB(l, es, s) ==
    (IF IsField(s) THEN FieldParityInterleave(l, s) ELSE l) \o LongTermRefList(es)

RefListL0B(es, s) == InterleavedB(BeforeCurrent(es, s) \o AfterCurrent(es, s), es, s)

RefListL1B(es, s) ==
    LET l1 == InterleavedB(AfterCurrent(es, s) \o BeforeCurrent(es, s), es, s)
        l0 == RefListL0B(es, s)
    IN  IF /\ Len(l1) > 1 /\ Len(l1) = Len(l0)
           /\ \A i \in DOMAIN l1 : l1[i].pic.poc = l0[i].pic.poc
        THEN [l1 EXCEPT ![1] = l1[2], ![2] = l1[1]]
        ELSE l1

InitialList(es, s) == CASE s.kind = "P"  -> ShortTermRefList(es, s)
                        [] s.kind = "B0" -> RefListL0B(es, s)
                        [] s.kind = "B1" -> RefListL1B(es, s)

\* Mutant: the list is filled up to one place less.
PaddedShort(l, n) ==
    IF l = <<>> THEN l
    ELSE [i \in 1..Max0(Len(l), n - 1) |-> IF i <= Len(l) THEN l[i] ELSE l[Len(l)]]

\* A list shorter than n repeats its last entry; one that is longer stays.
Padded(l, n) ==
    IF l = <<>> THEN l
    ELSE [i \in 1..Max0(Len(l), n) |-> IF i <= Len(l) THEN l[i] ELSE l[Len(l)]]

-----------------------------------------------------------------------------
(* Modification.                                                           *)

PicNumMatch(e, pic_num, s) ==
    IF IsField(s) THEN 2 * e.pic.frame_num + (IF SameParity(e, s) THEN 1 ELSE 0) = pic_num
    ELSE e.pic.frame_num = pic_num

\* Mutant: a number below zero is not brought back into the range.
PicNumNoWrap(pred, idc, val, s) ==
    IF idc = 0 THEN pred - (val + 1)
    ELSE IF pred + val + 1 >= MaxPicNum(s) THEN pred + val + 1 - MaxPicNum(s) ELSE pred + val + 1

\* The number a command leads to, for val within the standard's range.
NextPicNum(pred, idc, val, s) ==
    LET diff == val + 1
    IN  IF idc = 0
        THEN IF pred >= diff THEN pred - diff ELSE pred + MaxPicNum(s) - diff
        ELSE IF pred + diff >= MaxPicNum(s) THEN pred + diff - MaxPicNum(s) ELSE pred + diff

FirstIn(l, S) == l[CHOOSE i \in DOMAIN l : l[i] \in S /\ \A j \in 1..(i - 1) : l[j] \notin S]

\* pic goes to the place idx (from 0), all from there on move one place, the
\* duplicates among them are then left out, and what the compaction does not
\* reach stands as it was.
MovedTo(l, idx, pic, duplicates) ==
    LET tail  == SubSeq(l, idx + 1, Len(l))
        front == Append(SubSeq(l, 1, idx), pic)
        kept  == front \o Without(tail, duplicates)
    IN  SubSeq(kept \o SubSeq(front \o tail, Len(kept) + 1, Len(l) + 1), 1, Len(l))

\* One round of the loop: the new list, its place in it and the number.  A
\* command that finds no picture still takes a place.
Modified(l, idx, pred, idc, val, s) ==
    IF idx >= Len(l) \/ idc \notin {0, 1, 2} THEN [list |-> l, idx |-> idx, pred |-> pred]
    ELSE LET pic_num == IF idc = 2 THEN pred ELSE NextPicNum(pred, idc, val, s)
             named == {e \in {l[i] : i \in DOMAIN l} :
                         IF idc = 2 THEN e.pic.frame_num = val ELSE PicNumMatch(e, pic_num, s)}
             pic == FirstIn(l, named)
         IN  [list |-> IF named = {} THEN l
                       ELSE MovedTo(l, idx, pic, IF idc = 2 THEN {pic} ELSE named),
              idx |-> idx + 1, pred |-> pic_num]

-----------------------------------------------------------------------------
(* The buffers and slices of conforming streams.  The n frames in it,      *)
(* decoded in the order 1..n, have frame_nums that are 1 to gap behind the *)
(* current one; rank is the output order of frames and, at n + 1, of the   *)
(* current picture.  All pictures are frames, or all are complete field    *)
(* pairs of which `first` is the parity decoded first.                     *)

Increasing(n) == {f \in [1..n -> 1..(MaxFrameNum - 1)] : \A i, j \in 1..n : i < j => f[i] > f[j]}

Orders(n) == {f \in [1..(n + 1) -> 1..(n + 1)] : \A i, j \in 1..(n + 1) : i # j => f[i] # f[j]}

\* References: short-term, or long-term with indices of their own.
References(n) ==
    {f \in [1..n -> {ShortTerm} \cup {LongTerm(i) : i \in 0..(n - 1)}] :
        \A i, j \in 1..n : i # j /\ f[i] = f[j] => f[i] = ShortTerm}

Other(parity) == IF parity = "TopField" THEN "BottomField" ELSE "TopField"

FramesOf(frame_num, gap, rank, refs) ==
    {Entry(Picture(i, (frame_num - gap[i] + MaxFrameNum) % MaxFrameNum, 2 * rank[i], "Frame"), refs[i])
        : i \in DOMAIN refs}

FieldsOf(frame_num, gap, rank, n, first) ==
    UNION {{Entry(Picture(2 * i + k, (frame_num - gap[i] + MaxFrameNum) % MaxFrameNum,
                          2 * rank[i] + k, IF k = 0 THEN first ELSE Other(first)), ShortTerm)
              : k \in {0, 1}} : i \in 1..n}

\* Short-term pictures were decoded in the order they are shown in.
InOutputOrder(es) == \A e, f \in Shorts(es) : e.pic.id < f.pic.id => e.pic.poc < f.pic.poc

Init ==
    /\ \E n \in 0..MaxRefs, frame_num \in 0..(MaxFrameNum - 1), active \in Actives,
          kind \in {"P", "B0", "B1"} :
       \E gap \in Increasing(n), rank \in Orders(n) :
          \/ \E refs \in References(n) :
                /\ entries = FramesOf(frame_num, gap, rank, refs)
                /\ slice = [kind |-> kind, poc |-> 2 * rank[n + 1], frame_num |-> frame_num,
                            structure |-> "Frame", num_active |-> active]
          \/ \E first, parity \in {"TopField", "BottomField"} :
                /\ entries = FieldsOf(frame_num, gap, rank, n, first)
                /\ slice = [kind |-> kind, poc |-> 2 * rank[n + 1], frame_num |-> frame_num,
                            structure |-> parity, num_active |-> active]
    /\ Avoids("p_after_reordering") /\ slice.kind = "P" => InOutputOrder(entries)
    /\ list = Padded(InitialList(entries, slice), slice.num_active)
    /\ ref_idx_lx = 0
    /\ pred_pic_num = CurrPicNum(slice)
    /\ standard = StandardList(entries, slice)
    /\ number = CurrPicNum(slice)

Modify(idc, val) ==
    LET m == Modified(list, ref_idx_lx, pred_pic_num, idc, val, slice)
    IN  /\ list' = m.list /\ ref_idx_lx' = m.idx /\ pred_pic_num' = m.pred
        /\ UNCHANGED <<entries, slice>>

InList(e) == \E i \in DOMAIN list : list[i] = e

\* A command for the short-term picture that the standard finds.
ModifyShortTerm ==
    /\ ref_idx_lx < slice.num_active /\ ref_idx_lx < MaxCommands
    /\ \E idc \in {0, 1}, val \in 0..(MaxPicNum(slice) - 1) :
         LET next == NumberAfter(number, idc, val, slice)
         IN  \E e \in Shorts(entries) :
               /\ PicNum(e, slice) = PicNumOf(next, slice)
               /\ Avoids("pushed_out") => InList(e)
               /\ Modify(idc, val)
               /\ standard' = Placed(standard, ref_idx_lx, e)
               /\ number' = next

ModifyLongTerm ==
    /\ ref_idx_lx < slice.num_active /\ ref_idx_lx < MaxCommands
    /\ \E e \in Longs(entries) :
         /\ Avoids("long_term_command") => e.pic.frame_num = e.ref.idx
         /\ Avoids("pushed_out") => InList(e)
         /\ Modify(2, LongTermPicNum(e, slice))
         /\ standard' = Placed(standard, ref_idx_lx, e)
         /\ number' = number

Next == ModifyShortTerm \/ ModifyLongTerm

Spec == Init /\ [][Next]_vars

-----------------------------------------------------------------------------
(* Properties.                                                             *)

\* The list holds references only, and unless there are none a ref_idx below
\* num_ref_idx_active always finds one, before and after modification.
TypeOK ==
    /\ list \in Seq(entries)
    /\ entries # {} => Len(list) >= slice.num_active
    /\ pred_pic_num \in 0..(MaxPicNum(slice) - 1)
    /\ ref_idx_lx \in 0..MaxCommands

\* Wherever the standard's list names a picture, that picture is at this
\* place in the list (src/src/dpb.rs:122-412, "spec 8.2.4").
ListFollowsStandard ==
    \A i \in DOMAIN standard : standard[i] # NoPicture => list[i] = standard[i]

\* "Get the list of short-term reference pictures, sorted by descending
\* PicNum" (src/src/dpb.rs:122): what frames of a P slice get.
ByDescendingPicNum ==
    slice.kind = "P" /\ ~IsField(slice) /\ ref_idx_lx = 0 =>
        \A i, j \in 1..Cardinality(Shorts(entries)) :
            i < j => PicNum(list[i], slice) > PicNum(list[j], slice)
=============================================================================

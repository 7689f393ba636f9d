----------------------------- MODULE DpbMarking -----------------------------
(***************************************************************************)
(* Reference marking of a picture as Decoder::finalize_pending does it     *)
(* (src/src/decoder.rs:302-398) with the operations of src/src/dpb.rs, fed *)
(* with a stream that keeps the rules of the standard: frame pictures, one *)
(* SPS, no gap in frame_num.  The stream's side of the state is what an    *)
(* encoder knows: the numbers pictures go by and the indices it may use.   *)
(*                                                                         *)
(* Marking picture by picture is atomic in the code: finalize_pending runs *)
(* to its end between two slices.                                          *)
(***************************************************************************)
EXTENDS DpbOps, Sequences

CONSTANTS
    MaxFrameNum, MaxRefFrames, LongIdxSet, Ops, IdrLong, Avoided,
    MaxCmds, MaxPics     \* as in RefMarking

ASSUME DpbMarkingAssumption ==
    /\ MaxRefFrames \in Nat \ {0}
    /\ MaxFrameNum \in Nat /\ MaxFrameNum > MaxRefFrames
    /\ LongIdxSet \subseteq Nat /\ Ops \subseteq 1..6 /\ IdrLong \in BOOLEAN
    /\ Avoided \subseteq {"named_across_wrap", "kept_across_wrap", "op6_when_full"}
    /\ MaxCmds \in Nat /\ MaxPics \in Nat

VARIABLES
    entries,   \* Dpb::entries
    numbers,   \* the stream: the frame_num each picture is known by
    plus1,     \* the stream: MaxLongTermFrameIdx + 1
    prev,      \* the stream: PrevRefFrameNum
    pics,      \* pictures so far
    commands   \* PictureState::mmco_ops of the last picture

vars == <<entries, numbers, plus1, prev, pics, commands>>

\* What the code has marked, in the terms of the standard.
Marking ==
    [short |-> {[id |-> e.pic.id, frame_num |-> numbers[e.pic.id]] : e \in Shorts(entries)},
     long  |-> {[id |-> e.pic.id, idx |-> e.ref.idx] : e \in Longs(entries)},
     plus1 |-> plus1]

RM == INSTANCE RefMarking WITH marking <- Marking

-----------------------------------------------------------------------------
(* finalize_pending.  The commands but op 6 run before the picture is      *)
(* inserted, op 6 after it.  The subtraction is done in i32 and cast to    *)
(* u32: a negative result is a number no stored frame_num equals, here as  *)
(* there.                                                                  *)

PicNumNamed(frame_num, c) == frame_num - (c.diff + 1)

\* Mutant: op 3 takes its two parameters for one another.
BeforeInsertSwapped(es, frame_num, c) ==
    IF c.op = 3 THEN AssignLongTerm(es, c.idx, PicNumNamed(frame_num, c))
    ELSE IF c.op = 1 THEN MarkShortTermUnused(es, PicNumNamed(frame_num, c))
    ELSE es

BeforeInsert(es, frame_num, c) ==
    CASE c.op = 1 -> MarkShortTermUnused(es, PicNumNamed(frame_num, c))
      [] c.op = 2 -> MarkLongTermUnused(es, c.idx)
      [] c.op = 3 -> AssignLongTerm(es, PicNumNamed(frame_num, c), c.idx)
      [] c.op = 4 -> SetMaxLongTermFrameIdx(es, c.plus1)
      [] c.op = 5 -> ClearAllRefs(es)
      [] OTHER    -> es

AfterInsert(es, frame_num, c) ==
    IF c.op = 6 THEN MarkCurrentAsLongTerm(es, c.idx, frame_num) ELSE es

\* The two loops over mmco_ops; entry k: the buffer after k iterations.
LoopBefore(es, frame_num, cmds) ==
    LET f[k \in 0..Len(cmds)] ==
          IF k = 0 THEN es ELSE BeforeInsert(f[k - 1], frame_num, cmds[k])
    IN  f

LoopAfter(es, frame_num, cmds) ==
    LET f[k \in 0..Len(cmds)] ==
          IF k = 0 THEN es ELSE AfterInsert(f[k - 1], frame_num, cmds[k])
    IN  f

Finalize(es, pic, ref, cmds) ==
    LET before   == LoopBefore(es, pic.frame_num, cmds)[Len(cmds)]
        inserted == Insert(before, MaxRefFrames, pic, ref)
    IN  LoopAfter(inserted, pic.frame_num, cmds)[Len(cmds)]

Current(frame_num) == Picture(pics + 1, frame_num, 0, "Frame")

FrameNum == RM!FrameNum

-----------------------------------------------------------------------------
Init ==
    /\ entries = {}
    /\ numbers = [i \in 1..MaxPics |-> 0]
    /\ plus1 = 0
    /\ prev = 0
    /\ pics = 0
    /\ commands = <<>>

FinalizeIdr(flag) ==
    /\ pics < MaxPics
    /\ commands' = <<>>
    /\ pics' = pics + 1
    /\ prev' = 0
    /\ plus1' = IF flag THEN 1 ELSE 0
    /\ numbers' = [numbers EXCEPT ![pics + 1] = 0]
    /\ entries' = Insert(Clear(entries), MaxRefFrames, Current(0),
                         IF flag THEN LongTerm(0) ELSE ShortTerm)

FinalizeReference(cmds) ==
    /\ commands' = cmds
    /\ pics \in 1..MaxPics - 1
    /\ RM!Legal(Marking, FrameNum, pics + 1, cmds)
    /\ RM!Avoids(Marking, FrameNum, pics + 1, cmds)
    /\ pics' = pics + 1
    /\ prev' = RM!KnownAs(FrameNum, cmds)
    /\ plus1' = RM!Applied(Marking, FrameNum, pics + 1, cmds).plus1
    /\ numbers' = [numbers EXCEPT ![pics + 1] = RM!KnownAs(FrameNum, cmds)]
    /\ entries' = Finalize(entries, Current(FrameNum), ShortTerm, cmds)

FinalizeNonReference ==
    /\ pics \in 1..MaxPics - 1
    /\ commands' = <<>>
    /\ pics' = pics + 1
    /\ numbers' = [numbers EXCEPT ![pics + 1] = FrameNum]
    /\ entries' = Finalize(entries, Current(FrameNum), Unused, <<>>)
    /\ UNCHANGED <<plus1, prev>>

Next ==
    \/ \E flag \in {FALSE, IdrLong} : FinalizeIdr(flag)
    \/ \E cmds \in RM!LegalSeqs(Marking, FrameNum, pics + 1) : FinalizeReference(cmds)
    \/ FinalizeNonReference

Spec == Init /\ [][Next]_vars

-----------------------------------------------------------------------------
TypeOK ==
    /\ Marking \in RM!Markings
    /\ \A e \in entries : e.pic.id \in 1..pics
    /\ numbers \in [1..MaxPics -> 0..MaxFrameNum - 1]
    /\ prev \in 0..MaxFrameNum - 1
    /\ pics \in 0..MaxPics

(* After every picture the code has marked exactly the pictures that the   *)
(* standard marks, each as short-term or under the same long-term index    *)
(* (finalize_pending, and the marking methods of Dpb it calls).            *)
ImplementsMarking == RM!Spec

(* The buffer never holds more reference frames, short-term and long-term  *)
(* together, than the SPS allows: sliding_window_mark counts "both         *)
(* short-term and long-term (spec 8.2.5.3)" (src/src/dpb.rs:562).          *)
TotalWithinCapacity == Cardinality(entries) <= MaxRefFrames

(* A picture is stored under the number the stream knows it by, which is   *)
(* what reordering and marking commands refer to: "After op=5, the current *)
(* picture should have frame_num = 0" (src/src/decoder.rs:395).            *)
StoredUnderItsNumber ==
    \A e \in Shorts(entries) : e.pic.frame_num = numbers[e.pic.id]

(* A picture that op 1 names is no reference once the step is over: "Mark  *)
(* a short-term reference as unused by frame_num (MMCO op=1)"              *)
(* (src/src/dpb.rs:596).                                                   *)
Op1Removes ==
    [][ \A k \in DOMAIN commands' : commands'[k].op = 1 =>
          \A p \in RM!Named(Marking, FrameNum, commands'[k]) :
            \A e \in entries' : e.pic.id # p.id
      ]_vars

(* The window slides "if needed" (src/src/dpb.rs:99): a picture that comes *)
(* with commands of its own removes only what they remove.                 *)
AdaptiveEvictsNothingElse ==
    [][ commands' # <<>> =>
          \A p \in RM!Applied(Marking, FrameNum, pics + 1, commands').short :
            \E e \in entries' : e.pic.id = p.id
      ]_vars
=============================================================================

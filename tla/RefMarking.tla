----------------------------- MODULE RefMarking -----------------------------
(***************************************************************************)
(* Decoded reference picture marking as the standard the code implements   *)
(* states it (H.264 8.2.5, the clause that src/src/dpb.rs and              *)
(* Decoder::finalize_pending cite line by line), for frame pictures and a  *)
(* stream that follows the rules of 7.4.3 on frame_num and on the memory   *)
(* management control operations (MMCO).  It is the abstract side: what a  *)
(* decoder has to have marked after every picture.  No definition here     *)
(* stands for code; DpbMarking is shown to implement it.                   *)
(***************************************************************************)
EXTENDS Integers, FiniteSets, SequencesExt

CONSTANTS
    MaxFrameNum,    \* frame_num counts modulo this
    MaxRefFrames,   \* max_num_ref_frames of the one SPS
    LongIdxSet,     \* values of long_term_frame_idx
    Ops,            \* the MMCOs the stream uses
    IdrLong,        \* does an IDR picture ever set long_term_reference_flag
    Avoided,        \* situations the stream keeps out of: see Avoids
    MaxCmds,        \* bound on the MMCOs of one picture
    MaxPics         \* bound on the pictures of a stream

VARIABLES
    marking,   \* [short, long, plus1]: see Markings
    prev,      \* PrevRefFrameNum
    pics,      \* pictures so far; the last one's number in decoding order
    commands   \* the commands of the last picture

vars == <<marking, prev, pics, commands>>

\* A short-term picture carries its frame_num, a long-term one its index.
\* plus1 is MaxLongTermFrameIdx + 1: the indices below it may be assigned.
Markings == [short : SUBSET [id : 1..MaxPics, frame_num : 0..MaxFrameNum - 1],
             long  : SUBSET [id : 1..MaxPics, idx : LongIdxSet \cup {0}],
             plus1 : {0, 1} \cup {i + 1 : i \in LongIdxSet}]

Commands ==
    LET Diffs == 0..MaxFrameNum - 1
        All == [op : {1}, diff : Diffs]
               \cup [op : {2}, idx : LongIdxSet]
               \cup [op : {3}, diff : Diffs, idx : LongIdxSet]
               \cup [op : {4}, plus1 : {0} \cup {i + 1 : i \in LongIdxSet}]
               \cup [op : {5}]
               \cup [op : {6}, idx : LongIdxSet]
    IN  {c \in All : c.op \in Ops}

Has(cmds, op) == \E k \in DOMAIN cmds : cmds[k].op = op

-----------------------------------------------------------------------------
(* Picture numbers and the effect of one command.                          *)

\* The frame_num of the next picture, whether or not it is a reference.
FrameNum == (prev + 1) % MaxFrameNum

\* 8.2.4.1: FrameNumWrap, which is PicNum for a frame.
PicNum(p, frame_num) ==
    IF p.frame_num > frame_num THEN p.frame_num - MaxFrameNum ELSE p.frame_num

Named(m, frame_num, c) ==
    {p \in m.short : PicNum(p, frame_num) = frame_num - (c.diff + 1)}

Free(m, i) == {p \in m.long : p.idx # i}

Apply(m, frame_num, cur, c) ==
    CASE c.op = 1 -> [m EXCEPT !.short = @ \ Named(m, frame_num, c)]
      [] c.op = 2 -> [m EXCEPT !.long = Free(m, c.idx)]
      [] c.op = 3 -> [short |-> m.short \ Named(m, frame_num, c),
                      long  |-> Free(m, c.idx) \cup
                                  {[id |-> p.id, idx |-> c.idx] : p \in Named(m, frame_num, c)},
                      plus1 |-> m.plus1]
      [] c.op = 4 -> [short |-> m.short,
                      long  |-> {p \in m.long : p.idx < c.plus1},
                      plus1 |-> c.plus1]
      [] c.op = 5 -> [short |-> {}, long |-> {}, plus1 |-> 0]
      [] c.op = 6 -> [m EXCEPT !.long = Free(m, c.idx) \cup {[id |-> cur, idx |-> c.idx]}]

\* Entry k: the marking after the first k commands.
AfterEach(m, frame_num, cur, cmds) ==
    LET f[k \in 0..Len(cmds)] ==
          IF k = 0 THEN m ELSE Apply(f[k - 1], frame_num, cur, cmds[k])
    IN  f

Applied(m, frame_num, cur, cmds) == AfterEach(m, frame_num, cur, cmds)[Len(cmds)]

Total(m) == Cardinality(m.short) + Cardinality(m.long)

\* 8.2.5.3: when the buffer is full the short-term frame of least
\* FrameNumWrap goes.
Slide(m, frame_num) ==
    IF Total(m) < MaxRefFrames THEN m
    ELSE [m EXCEPT !.short = {p \in @ : \E q \in m.short :
                                PicNum(q, frame_num) < PicNum(p, frame_num)}]

\* The frame_num the picture is known by from now on: 0 after op 5.
KnownAs(frame_num, cmds) == IF Has(cmds, 5) THEN 0 ELSE frame_num

AddShort(m, cur, frame_num) ==
    [m EXCEPT !.short = @ \cup {[id |-> cur, frame_num |-> frame_num]}]

\* 8.2.5.1: sliding window without commands, adaptive marking with them.
AfterReference(m, frame_num, cur, cmds) ==
    IF cmds = <<>> THEN AddShort(Slide(m, frame_num), cur, frame_num)
    ELSE LET a == Applied(m, frame_num, cur, cmds)
         IN  IF Has(cmds, 6) THEN a ELSE AddShort(a, cur, KnownAs(frame_num, cmds))

AfterIdr(cur, long_term_reference_flag) ==
    IF long_term_reference_flag
    THEN [short |-> {}, long |-> {[id |-> cur, idx |-> 0]}, plus1 |-> 1]
    ELSE [short |-> {[id |-> cur, frame_num |-> 0]}, long |-> {}, plus1 |-> 0]

-----------------------------------------------------------------------------
(* What an encoder may send (7.4.3.3).                                     *)

LegalCommand(m, frame_num, c) ==
    /\ c.op \in {1, 3} => Named(m, frame_num, c) # {}
    /\ c.op = 2 => \E p \in m.long : p.idx = c.idx
    /\ c.op \in {3, 6} => c.idx < m.plus1

\* The sequences of commands each of which is legal after those before it.
LegalSeqs(m, frame_num, cur) ==
    LET Longer(seqs) ==
          seqs \cup UNION {{Append(s, c) : c \in {x \in Commands :
                              LegalCommand(Applied(m, frame_num, cur, s), frame_num, x)}} :
                            s \in seqs}
    IN  FoldLeft(LAMBDA seqs, k : Longer(seqs), {<<>>}, [k \in 1..MaxCmds |-> k])

Legal(m, frame_num, cur, cmds) ==
    /\ cmds \in Seq(Commands) /\ Len(cmds) <= MaxCmds
    \* A number is not used again while a short-term picture goes by it.
    /\ \A p \in m.short : p.frame_num # frame_num
    /\ \A k \in DOMAIN cmds :
         LegalCommand(AfterEach(m, frame_num, cur, cmds)[k - 1], frame_num, cmds[k])
    \* op 5 stands alone or before op 6, op 6 is the last, none repeats.
    /\ \A k \in DOMAIN cmds : cmds[k].op = 6 => k = Len(cmds)
    /\ Has(cmds, 5) => \A k \in DOMAIN cmds : cmds[k].op \in {5, 6}
    /\ \A j, k \in DOMAIN cmds : cmds[j].op = cmds[k].op /\ cmds[j].op \in {4, 5} => j = k
    \* The buffer holds no more than MaxRefFrames once the picture is in it.
    /\ Total(AfterReference(m, frame_num, cur, cmds)) <= MaxRefFrames

(* Situations that a legal stream may bring about and the code is known to *)
(* mark wrongly in; a stream that avoids them marks right.                 *)
Avoids(m, frame_num, cur, cmds) ==
    \* Op 1 or op 3 names a picture from before a wrap of frame_num.
    /\ "named_across_wrap" \in Avoided =>
         \A k \in DOMAIN cmds : cmds[k].op \in {1, 3} =>
           \A p \in Named(m, frame_num, cmds[k]) : p.frame_num <= frame_num
    \* A long-term picture gets so old that its frame_num is used again.
    /\ "kept_across_wrap" \in Avoided =>
         \A p \in m.long : cur - p.id < MaxFrameNum
    \* Op 6, the last command, comes when the buffer is full.
    /\ "op6_when_full" \in Avoided /\ Has(cmds, 6) =>
         Total(AfterEach(m, frame_num, cur, cmds)[Len(cmds) - 1]) < MaxRefFrames

-----------------------------------------------------------------------------
Init ==
    /\ marking = [short |-> {}, long |-> {}, plus1 |-> 0]
    /\ prev = 0
    /\ pics = 0
    /\ commands = <<>>

IdrPicture(flag) ==
    /\ pics < MaxPics
    /\ commands' = <<>>
    /\ pics' = pics + 1
    /\ prev' = 0
    /\ marking' = AfterIdr(pics + 1, flag)

ReferencePicture(cmds) ==
    /\ pics \in 1..MaxPics - 1
    /\ Legal(marking, FrameNum, pics + 1, cmds)
    /\ Avoids(marking, FrameNum, pics + 1, cmds)
    /\ pics' = pics + 1
    /\ prev' = KnownAs(FrameNum, cmds)
    /\ marking' = AfterReference(marking, FrameNum, pics + 1, cmds)

NonReferencePicture ==
    /\ pics \in 1..MaxPics - 1
    /\ pics' = pics + 1
    /\ commands' = <<>>
    /\ UNCHANGED <<marking, prev>>

Next ==
    \/ \E flag \in {FALSE, IdrLong} : IdrPicture(flag)
    \/ ReferencePicture(commands')
    \/ NonReferencePicture

Spec == Init /\ [][Next]_vars
=============================================================================

-------------------------- MODULE DpbMarkingProofs ---------------------------
(***************************************************************************)
(* Decoder::finalize_pending marks reference pictures as the standard      *)
(* does: DpbMarking implements RefMarking, for every range of frame_num,   *)
(* every capacity, any number of commands and any number of pictures.      *)
(* What is needed for it: no command 5, and a stream that keeps out of the *)
(* three situations that Avoided names, in each of which the code goes     *)
(* wrong.                                                                  *)
(*                                                                         *)
(* The argument: no two pictures of the buffer have the same frame_num     *)
(* (Apart), so "the first entry with this frame_num" is the picture the    *)
(* command names, and a frame_num counts as one frame; and the short-term  *)
(* pictures' FrameNumWrap grows in the order of insertion (InOrder), so    *)
(* the first short-term entry is the one of least FrameNumWrap.  That a    *)
(* new picture's frame_num is not in the buffer is a rule of the stream    *)
(* for short-term pictures; a long-term one cannot have it while less than *)
(* MaxFrameNum pictures lie between (Near).                                *)
(***************************************************************************)
EXTENDS DpbMarking, FiniteSetTheorems, WellFoundedInduction, TLAPS

\* Command 5 is left out: after it the picture keeps its old frame_num.
AllAvoided ==
    /\ 5 \notin Ops
    /\ Avoided = {"named_across_wrap", "kept_across_wrap", "op6_when_full"}

-----------------------------------------------------------------------------
(* The invariant.                                                          *)

StoredPics == [id : 1..MaxPics, frame_num : 0..MaxFrameNum - 1, poc : {0},
               structure : {"Frame"}]

Statuses == {ShortTerm} \cup {LongTerm(i) : i \in LongIdxSet \cup {0}}

\* Buffers with no picture after the n-th.
Buffers(n) == {es \in SUBSET [pic : StoredPics, ref : Statuses] : \A e \in es : e.pic.id <= n}

Plus1s == {0, 1} \cup {i + 1 : i \in LongIdxSet}

Typed ==
    /\ entries \in Buffers(pics)
    /\ plus1 \in Plus1s
    /\ numbers \in [1..MaxPics -> 0..MaxFrameNum - 1]
    /\ prev \in 0..MaxFrameNum - 1
    /\ pics \in 0..MaxPics

\* A picture is in the buffer once, with a frame_num and an index of its own.
Apart(es) ==
    \A e, f \in es :
      \/ e.pic.id = f.pic.id
      \/ e.pic.frame_num = f.pic.frame_num
      \/ e.ref.kind = "long" /\ e.ref = f.ref
      => e = f

\* FrameNumWrap grows with the rank, seen from picture frame_num.
InOrder(es, frame_num) ==
    \A e, f \in Shorts(es) :
      e.pic.id < f.pic.id => RM!PicNum(e.pic, frame_num) < RM!PicNum(f.pic, frame_num)

\* PrevRefFrameNum is at most as many numbers ahead of a picture's as there
\* were pictures since.
Near(e) ==
    pics - e.pic.id < MaxFrameNum =>
      \E d \in 0..pics - e.pic.id :
        \/ prev = e.pic.frame_num + d
        \/ prev = (e.pic.frame_num + d) - MaxFrameNum

KnownByNumber == \A e \in entries : e.pic.frame_num = numbers[e.pic.id]

IInv ==
    /\ Typed
    /\ KnownByNumber
    /\ Apart(entries)
    /\ InOrder(entries, prev)
    /\ \A e \in entries : Near(e)
    /\ TotalWithinCapacity

-----------------------------------------------------------------------------
(* Loops over a list of commands.                                          *)

(* Every non-empty set of naturals has a least element.                    *)
LEMMA LeastExists ==
    ASSUME NEW S \in SUBSET Nat, S # {}
    PROVE  \E m \in S : \A x \in S : m <= x
<1> DEFINE R == {q \in Nat \X Nat : q[1] < q[2]}
<1>1. IsWellFoundedOn(R, Nat)
  BY NatLessThanWellFounded DEF OpToRel
<1>2. \E m \in S : \A x \in S : ~ (<<x, m>> \in R)
  <2> HIDE DEF R
  <2> QED BY <1>1, WFMin
<1>3. PICK m \in S : \A x \in S : ~ (<<x, m>> \in R)
  BY <1>2
<1>4. \A x \in S : m <= x
  <2> TAKE x \in S
  <2>1. m \in Nat /\ x \in Nat
    OBVIOUS
  <2>2. ~ (x < m)
    BY <1>3, <2>1
  <2> QED BY <2>1, <2>2
<1> QED BY <1>4

(* What holds before a loop and is kept by its iterations holds after each *)
(* of them: induction, for the iterations in a set.                        *)
LEMMA EveryIteration ==
    ASSUME NEW n \in Nat, NEW S, 0 \in S, \A k \in 1..n : k - 1 \in S => k \in S
    PROVE  \A k \in 0..n : k \in S
<1> DEFINE T == {k \in 0..n : k \notin S}
<1>1. SUFFICES ASSUME T # {} PROVE FALSE
  OBVIOUS
<1>2. T \in SUBSET Nat
  OBVIOUS
<1>3. PICK m \in T : \A x \in T : m <= x
  <2> HIDE DEF T
  <2> QED BY <1>1, <1>2, LeastExists
<1>4. m \in 0..n /\ m \notin S /\ m # 0
  OBVIOUS
<1>5. m \in 1..n /\ m - 1 \in 0..n /\ ~ (m <= m - 1)
  BY <1>4
<1>6. m - 1 \in S
  BY <1>3, <1>5
<1> QED BY <1>4, <1>5, <1>6

\* f is what the loop leaves after each of its n iterations.
Iterates(f, n, base, step) ==
    f = [k \in 0..n |-> IF k = 0 THEN base ELSE step[k][f[k - 1]]]

(* A loop whose iterations take a state of D to a state of D has such an   *)
(* f, all in D.                                                            *)
LEMMA LoopRuns ==
    ASSUME NEW n \in Nat, NEW D, NEW base \in D, NEW step \in [1..n -> [D -> D]]
    PROVE  \E f \in [0..n -> D] : Iterates(f, n, base, step)
<1> DEFINE Runs(m) == \E f \in [0..m -> D] :
                         f[0] = base /\ \A k \in 1..m : f[k] = step[k][f[k - 1]]
           S == {m \in 0..n : Runs(m)}
<1>1. Runs(0)
  <2>1. PICK f : f = [k \in 0..0 |-> base]
    OBVIOUS
  <2>2. f \in [0..0 -> D] /\ f[0] = base /\ \A k \in 1..0 : FALSE
    BY <2>1
  <2> QED BY <2>2
<1>2. ASSUME NEW m \in 1..n, Runs(m - 1) PROVE Runs(m)
  <2>1. PICK f \in [0..m - 1 -> D] :
              f[0] = base /\ \A k \in 1..m - 1 : f[k] = step[k][f[k - 1]]
    BY <1>2
  <2>2. PICK g : g = [k \in 0..m |-> IF k = m THEN step[m][f[m - 1]] ELSE f[k]]
    OBVIOUS
  <2>3. m - 1 \in 0..m - 1 /\ step[m] \in [D -> D]
    OBVIOUS
  <2>4. step[m][f[m - 1]] \in D
    BY <2>3
  <2>5. g \in [0..m -> D]
    <3>1. \A k \in 0..m : k # m => k \in 0..m - 1
      OBVIOUS
    <3> QED BY <2>2, <2>4, <3>1
  <2>6. g[0] = base
    BY <2>1, <2>2
  <2>7. ASSUME NEW k \in 1..m PROVE g[k] = step[k][g[k - 1]]
    <3>1. g[k - 1] = f[k - 1]
      BY <2>2
    <3>2. CASE k = m
      BY <3>1, <3>2, <2>2
    <3>3. CASE k # m
      BY <3>1, <3>3, <2>1, <2>2
    <3> QED BY <3>2, <3>3
  <2> QED BY <2>5, <2>6, <2>7
<1>3. Runs(n)
  <2> HIDE DEF Runs
  <2>1. 0 \in S /\ n \in 0..n
    BY <1>1
  <2>2. \A m \in 1..n : m - 1 \in S => m \in S
    BY <1>2
  <2>3. \A m \in 0..n : m \in S
    <3> HIDE DEF S
    <3> QED BY <2>1, <2>2, EveryIteration
  <2> QED BY <2>1, <2>3
<1>4. PICK f \in [0..n -> D] : f[0] = base /\ \A k \in 1..n : f[k] = step[k][f[k - 1]]
  BY <1>3
<1>5. Iterates(f, n, base, step)
  <2>1. \A k \in 0..n : k # 0 => k \in 1..n
    OBVIOUS
  <2> QED BY <1>4, <2>1 DEF Iterates
<1> QED BY <1>5

-----------------------------------------------------------------------------
(* The commands.                                                           *)

MarkingOf(short, long, p) == [short |-> short, long |-> long, plus1 |-> p]

\* The parameters of a command are what its number calls for.
CommandIs(c) ==
    /\ c.op \in Ops /\ c.op \in 1..6
    /\ c.op \in {1, 3} => c.diff \in 0..MaxFrameNum - 1
    /\ c.op \in {2, 3, 6} => c.idx \in LongIdxSet
    /\ c.op = 4 => c.plus1 \in Plus1s

(* A command has the parameters its number calls for.                      *)
LEMMA CommandKinds == \A c \in RM!Commands : CommandIs(c)
<1> SUFFICES ASSUME NEW c \in RM!Commands PROVE CommandIs(c)
  OBVIOUS
<1>1. c.op \in Ops
  BY DEF RM!Commands
<1>2. CASE c \in [op : {1}, diff : 0..MaxFrameNum - 1]
  BY <1>1, <1>2 DEF CommandIs
<1>3. CASE c \in [op : {2}, idx : LongIdxSet]
  BY <1>1, <1>3 DEF CommandIs
<1>4. CASE c \in [op : {3}, diff : 0..MaxFrameNum - 1, idx : LongIdxSet]
  BY <1>1, <1>4 DEF CommandIs
<1>5. CASE c \in [op : {4}, plus1 : {0} \cup {i + 1 : i \in LongIdxSet}]
  BY <1>1, <1>5 DEF CommandIs, Plus1s
<1>6. CASE c \in [op : {5}]
  BY <1>1, <1>6 DEF CommandIs
<1>7. CASE c \in [op : {6}, idx : LongIdxSet]
  BY <1>1, <1>7 DEF CommandIs
<1> QED BY <1>2, <1>3, <1>4, <1>5, <1>6, <1>7 DEF RM!Commands

\* The pictures command 3 names, as long-term pictures.
NowLong(m, frame_num, c) == {[id |-> p.id, idx |-> c.idx] : p \in RM!Named(m, frame_num, c)}

\* What each command makes of a marking (8.2.5.4.1 to 8.2.5.4.6).
Effect(m, frame_num, cur, c, a) ==
    /\ c.op = 1 => a = MarkingOf(m.short \ RM!Named(m, frame_num, c), m.long, m.plus1)
    /\ c.op = 2 => a = MarkingOf(m.short, RM!Free(m, c.idx), m.plus1)
    /\ c.op = 3 => a = MarkingOf(m.short \ RM!Named(m, frame_num, c),
                                 RM!Free(m, c.idx) \cup NowLong(m, frame_num, c),
                                 m.plus1)
    /\ c.op = 4 => a = MarkingOf(m.short, {p \in m.long : p.idx < c.plus1}, c.plus1)
    /\ c.op = 5 => a = MarkingOf({}, {}, 0)
    /\ c.op = 6 => a = MarkingOf(m.short,
                                 RM!Free(m, c.idx) \cup {[id |-> cur, idx |-> c.idx]},
                                 m.plus1)

(* A marking is its three parts.                                           *)
LEMMA MarkingParts ==
    ASSUME NEW m \in RM!Markings
    PROVE  /\ m = MarkingOf(m.short, m.long, m.plus1)
           /\ m.short \subseteq [id : 1..MaxPics, frame_num : 0..MaxFrameNum - 1]
           /\ m.long \subseteq [id : 1..MaxPics, idx : LongIdxSet \cup {0}]
           /\ m.plus1 \in Plus1s
BY DEF RM!Markings, MarkingOf, Plus1s

(* Apply, command by command.                                              *)
LEMMA ApplyIs ==
    ASSUME NEW m \in RM!Markings, NEW frame_num, NEW cur, NEW c \in RM!Commands
    PROVE  Effect(m, frame_num, cur, c, RM!Apply(m, frame_num, cur, c))
<1>1. CommandIs(c)
  BY CommandKinds
<1>2. PICK s, l, p : m = [short |-> s, long |-> l, plus1 |-> p]
  BY MarkingParts DEF MarkingOf
<1>3. PICK n : n = RM!Named(m, frame_num, c)
  OBVIOUS
<1>4. PICK r : r = RM!Free(m, c.idx)
  OBVIOUS
<1>5. m.short = s /\ m.long = l /\ m.plus1 = p
  BY <1>2
<1>6. CASE c.op = 1
  BY <1>2, <1>3, <1>5, <1>6 DEF Effect, RM!Apply, MarkingOf
<1>7. CASE c.op = 2
  <2>1. RM!Apply(m, frame_num, cur, c) = [m EXCEPT !.long = r]
    BY <1>4, <1>7 DEF RM!Apply
  <2>2. [m EXCEPT !.long = r] = MarkingOf(s, r, p)
    BY <1>2 DEF MarkingOf
  <2> QED BY <1>4, <1>5, <1>7, <2>1, <2>2 DEF Effect
<1>8. CASE c.op = 3
  BY <1>8 DEF Effect, RM!Apply, MarkingOf, NowLong
<1>9. CASE c.op = 4
  BY <1>9 DEF Effect, RM!Apply, MarkingOf
<1>10. CASE c.op = 5
  BY <1>10 DEF Effect, RM!Apply, MarkingOf
<1>11. CASE c.op = 6
  BY <1>2, <1>4, <1>5, <1>11 DEF Effect, RM!Apply, MarkingOf
<1> QED BY <1>1, <1>6, <1>7, <1>8, <1>9, <1>10, <1>11 DEF CommandIs

(* A command takes a marking to a marking.                                 *)
LEMMA ApplyTyped ==
    ASSUME NEW m \in RM!Markings, NEW frame_num, NEW cur \in 1..MaxPics,
           NEW c \in RM!Commands
    PROVE  RM!Apply(m, frame_num, cur, c) \in RM!Markings
<1> DEFINE IsMarking(s, l, p) ==
             /\ s \subseteq [id : 1..MaxPics, frame_num : 0..MaxFrameNum - 1]
             /\ l \subseteq [id : 1..MaxPics, idx : LongIdxSet \cup {0}]
             /\ p \in Plus1s
<1>1. ASSUME NEW s, NEW l, NEW p, IsMarking(s, l, p)
      PROVE  MarkingOf(s, l, p) \in RM!Markings
  BY <1>1 DEF RM!Markings, MarkingOf, Plus1s
<1>2. PICK n : n = RM!Named(m, frame_num, c)
  OBVIOUS
<1>3. PICK r : r = RM!Free(m, c.idx)
  OBVIOUS
<1>4. n \subseteq m.short /\ r \subseteq m.long
  BY <1>2, <1>3 DEF RM!Named, RM!Free
<1>5. IsMarking(m.short, m.long, m.plus1)
  BY MarkingParts
<1>6. CommandIs(c)
  BY CommandKinds
<1>7. PICK a : a = RM!Apply(m, frame_num, cur, c)
  OBVIOUS
<1>8. Effect(m, frame_num, cur, c, a)
  BY <1>7, ApplyIs
<1>9. IsMarking(m.short \ n, m.long, m.plus1) /\ IsMarking(m.short, r, m.plus1)
  BY <1>4, <1>5
<1>10. CASE c.op = 1
  BY <1>1, <1>2, <1>7, <1>8, <1>9, <1>10 DEF Effect
<1>11. CASE c.op = 2
  BY <1>1, <1>3, <1>7, <1>8, <1>9, <1>11 DEF Effect
<1>12. CASE c.op = 3
  <2>1. IsMarking(m.short \ n, r \cup NowLong(m, frame_num, c), m.plus1)
    <3>1. \A p \in n : p.id \in 1..MaxPics
      BY <1>4, <1>5
    <3> QED BY <3>1, <1>2, <1>9, <1>6, <1>12 DEF CommandIs, NowLong
  <2> HIDE DEF IsMarking
  <2> QED BY <1>1, <1>2, <1>3, <1>7, <1>8, <1>12, <2>1 DEF Effect
<1>13. CASE c.op = 4
  <2>1. IsMarking(m.short, {p \in m.long : p.idx < c.plus1}, c.plus1)
    BY <1>5, <1>6, <1>13 DEF CommandIs
  <2> HIDE DEF IsMarking
  <2> QED BY <1>1, <1>7, <1>8, <1>13, <2>1 DEF Effect
<1>14. CASE c.op = 5
  <2>1. IsMarking({}, {}, 0)
    BY DEF Plus1s
  <2> HIDE DEF IsMarking
  <2> QED BY <1>1, <1>7, <1>8, <1>14, <2>1 DEF Effect
<1>15. CASE c.op = 6
  <2>1. IsMarking(m.short, r \cup {[id |-> cur, idx |-> c.idx]}, m.plus1)
    BY <1>9, <1>6, <1>15 DEF CommandIs
  <2> HIDE DEF IsMarking
  <2> QED BY <1>1, <1>3, <1>7, <1>8, <1>15, <2>1 DEF Effect
<1> QED BY <1>6, <1>10, <1>11, <1>12, <1>13, <1>14, <1>15 DEF CommandIs

\* f is the marking after each command.
EachApplied(f, m, frame_num, cur, cmds) ==
    /\ f \in [0..Len(cmds) -> RM!Markings]
    /\ f[0] = m
    /\ \A k \in 1..Len(cmds) : f[k] = RM!Apply(f[k - 1], frame_num, cur, cmds[k])

(* The commands of a picture, one after the other.                         *)
LEMMA AppliedOneByOne ==
    ASSUME NEW m \in RM!Markings, NEW frame_num, NEW cur \in 1..MaxPics,
           NEW cmds \in Seq(RM!Commands)
    PROVE  EachApplied(RM!AfterEach(m, frame_num, cur, cmds), m, frame_num, cur, cmds)
<1> DEFINE Is(f, n) == f = [k \in 0..n |-> IF k = 0 THEN m
                                           ELSE RM!Apply(f[k - 1], frame_num, cur, cmds[k])]
           v == CHOOSE f : Is(f, Len(cmds))
<1>1. PICK n \in Nat : n = Len(cmds)
  OBVIOUS
<1>2. \A k \in 1..n : cmds[k] \in RM!Commands
  BY <1>1
<1>3. PICK step : step = [k \in 1..n |-> [x \in RM!Markings |->
                                            RM!Apply(x, frame_num, cur, cmds[k])]]
  OBVIOUS
<1>4. step \in [1..n -> [RM!Markings -> RM!Markings]]
  BY <1>2, <1>3, ApplyTyped
<1>5. PICK g \in [0..n -> RM!Markings] : Iterates(g, n, m, step)
  BY <1>4, LoopRuns
<1>6. Is(g, n)
  <2>1. \A k \in 0..n : k # 0 =>
          step[k][g[k - 1]] = RM!Apply(g[k - 1], frame_num, cur, cmds[k])
    <3> SUFFICES ASSUME NEW k \in 0..n, k # 0
                 PROVE  step[k][g[k - 1]] = RM!Apply(g[k - 1], frame_num, cur, cmds[k])
      OBVIOUS
    <3>1. k \in 1..n /\ k - 1 \in 0..n
      OBVIOUS
    <3>2. g[k - 1] \in RM!Markings
      BY <3>1
    <3> QED BY <1>3, <3>1, <3>2
  <2> QED BY <2>1, <1>5 DEF Iterates
<1>7. RM!AfterEach(m, frame_num, cur, cmds) = v
  BY DEF RM!AfterEach
<1>8. Is(v, n)
  <2> HIDE DEF Is
  <2> QED BY <1>1, <1>6
<1>9. ASSUME NEW f, Is(f, n)
      PROVE  f[0] = m /\ \A k \in 1..n : f[k] = RM!Apply(f[k - 1], frame_num, cur, cmds[k])
  <2>1. \A k \in 0..n : f[k] = IF k = 0 THEN m ELSE RM!Apply(f[k - 1], frame_num, cur, cmds[k])
    BY <1>9
  <2> QED BY <2>1
<1> HIDE DEF v, Is
<1>10. \A k \in 0..n : v[k] = g[k]
  <2> DEFINE S == {k \in 0..n : v[k] = g[k]}
  <2>1. 0 \in S
    BY <1>6, <1>8, <1>9
  <2>2. ASSUME NEW k \in 1..n, k - 1 \in S PROVE k \in S
    <3>1. v[k - 1] = g[k - 1]
      BY <2>2
    <3>2. v[k] = RM!Apply(v[k - 1], frame_num, cur, cmds[k])
      BY <1>8, <1>9
    <3>3. g[k] = RM!Apply(g[k - 1], frame_num, cur, cmds[k])
      BY <1>6, <1>9
    <3> QED BY <3>1, <3>2, <3>3
  <2>3. \A k \in 0..n : k \in S
    <3> HIDE DEF S
    <3> QED BY <2>1, <2>2, EveryIteration
  <2> QED BY <2>3
<1>11. \A k \in 0..n : v[k] \in RM!Markings
  BY <1>10
<1>12. v \in [0..n -> RM!Markings]
  <2>1. v = [k \in 0..n |-> IF k = 0 THEN m ELSE RM!Apply(v[k - 1], frame_num, cur, cmds[k])]
    BY <1>8 DEF Is
  <2> QED BY <1>11, <2>1
<1> QED BY <1>1, <1>7, <1>8, <1>9, <1>12 DEF EachApplied

(* Entries that become long-term pictures stay what they are otherwise.    *)
LEMMA PromoteTyped ==
    ASSUME NEW n \in Nat, NEW es \in Buffers(n), NEW kept \in SUBSET es,
           NEW S \in SUBSET es, NEW i \in LongIdxSet
    PROVE  Promote(kept, S, i) \in Buffers(n)
<1>1. \A e \in es : e.pic \in StoredPics /\ e.pic.id <= n
  BY DEF Buffers
<1>2. \A e \in S : /\ Entry(e.pic, LongTerm(i)) \in [pic : StoredPics, ref : Statuses]
                   /\ Entry(e.pic, LongTerm(i)).pic = e.pic
  BY <1>1 DEF Entry, Statuses
<1>3. PICK T : T = {Entry(e.pic, LongTerm(i)) : e \in S}
  OBVIOUS
<1>4. \A x \in T : x \in [pic : StoredPics, ref : Statuses] /\ x.pic.id <= n
  BY <1>1, <1>2, <1>3
<1>5. \A x \in kept : x \in [pic : StoredPics, ref : Statuses] /\ x.pic.id <= n
  BY DEF Buffers
<1> QED BY <1>3, <1>4, <1>5 DEF Promote, Buffers

(* Commands take entries out or give them an index (dpb.rs:596-670).       *)
LEMMA BeforeTyped ==
    ASSUME NEW n \in Nat, NEW es \in Buffers(n), NEW frame_num, NEW c \in RM!Commands
    PROVE  BeforeInsert(es, frame_num, c) \in Buffers(n)
<1>1. CommandIs(c)
  BY CommandKinds
<1>2. ASSUME NEW S \in SUBSET es PROVE S \in Buffers(n)
  BY DEF Buffers
<1>3. CASE c.op = 3
  <2> DEFINE kept == WithoutIndex(es, c.idx)
             S == FirstOf({e \in Shorts(kept) : e.pic.frame_num = PicNumNamed(frame_num, c)})
  <2>1. BeforeInsert(es, frame_num, c) = Promote(kept, S, c.idx)
    BY <1>3 DEF BeforeInsert, AssignLongTerm
  <2>2. kept \subseteq es /\ S \subseteq es
    BY DEF WithoutIndex, FirstOf, Shorts
  <2>3. c.idx \in LongIdxSet
    BY <1>1, <1>3 DEF CommandIs
  <2> HIDE DEF kept, S
  <2> QED BY <2>1, <2>2, <2>3, PromoteTyped
<1>4. CASE c.op # 3
  <2>1. BeforeInsert(es, frame_num, c) \subseteq es
    BY <1>1, <1>4 DEF BeforeInsert, MarkShortTermUnused, MarkLongTermUnused,
         SetMaxLongTermFrameIdx, ClearAllRefs, CommandIs
  <2> QED BY <1>2, <2>1
<1> QED BY <1>3, <1>4

(* Command 6, after the insertion.                                         *)
LEMMA AfterTyped ==
    ASSUME NEW n \in Nat, NEW es \in Buffers(n), NEW frame_num, NEW c \in RM!Commands
    PROVE  AfterInsert(es, frame_num, c) \in Buffers(n)
<1>1. CASE c.op = 6
  <2> DEFINE kept == WithoutIndex(es, c.idx)
             S == LastOf({e \in Shorts(kept) : e.pic.frame_num = frame_num})
  <2>1. AfterInsert(es, frame_num, c) = Promote(kept, S, c.idx)
    BY <1>1 DEF AfterInsert, MarkCurrentAsLongTerm
  <2>2. kept \subseteq es /\ S \subseteq es
    BY DEF WithoutIndex, LastOf, Shorts
  <2>3. c.idx \in LongIdxSet
    BY <1>1, CommandKinds DEF CommandIs
  <2> HIDE DEF kept, S
  <2> QED BY <2>1, <2>2, <2>3, PromoteTyped
<1>2. CASE c.op # 6
  BY <1>2 DEF AfterInsert
<1> QED BY <1>1, <1>2

\* f is the buffer after each iteration of the loop before the insertion.
EachBefore(f, n, es, frame_num, cmds) ==
    /\ f \in [0..Len(cmds) -> Buffers(n)]
    /\ f[0] = es
    /\ \A k \in 1..Len(cmds) : f[k] = BeforeInsert(f[k - 1], frame_num, cmds[k])

\* The same for the loop after it.
EachAfter(f, n, es, frame_num, cmds) ==
    /\ f \in [0..Len(cmds) -> Buffers(n)]
    /\ f[0] = es
    /\ \A k \in 1..Len(cmds) : f[k] = AfterInsert(f[k - 1], frame_num, cmds[k])

(* The first loop over mmco_ops (decoder.rs:328-357).                      *)
LEMMA BeforeOneByOne ==
    ASSUME NEW n \in Nat, NEW es \in Buffers(n), NEW frame_num,
           NEW cmds \in Seq(RM!Commands)
    PROVE  EachBefore(LoopBefore(es, frame_num, cmds), n, es, frame_num, cmds)
<1> DEFINE Is(f, l) == f = [k \in 0..l |-> IF k = 0 THEN es
                                           ELSE BeforeInsert(f[k - 1], frame_num, cmds[k])]
           v == CHOOSE f : Is(f, Len(cmds))
<1>1. PICK l \in Nat : l = Len(cmds)
  OBVIOUS
<1>2. \A k \in 1..l : cmds[k] \in RM!Commands
  BY <1>1
<1>3. PICK step : step = [k \in 1..l |-> [x \in Buffers(n) |->
                                            BeforeInsert(x, frame_num, cmds[k])]]
  OBVIOUS
<1>4. step \in [1..l -> [Buffers(n) -> Buffers(n)]]
  BY <1>2, <1>3, BeforeTyped
<1>5. PICK g \in [0..l -> Buffers(n)] : Iterates(g, l, es, step)
  BY <1>4, LoopRuns
<1>6. Is(g, l)
  <2>1. \A k \in 0..l : k # 0 =>
          step[k][g[k - 1]] = BeforeInsert(g[k - 1], frame_num, cmds[k])
    <3> SUFFICES ASSUME NEW k \in 0..l, k # 0
                 PROVE  step[k][g[k - 1]] = BeforeInsert(g[k - 1], frame_num, cmds[k])
      OBVIOUS
    <3>1. k \in 1..l /\ k - 1 \in 0..l
      OBVIOUS
    <3>2. g[k - 1] \in Buffers(n)
      BY <3>1
    <3> QED BY <1>3, <3>1, <3>2
  <2> QED BY <2>1, <1>5 DEF Iterates
<1>7. LoopBefore(es, frame_num, cmds) = v
  BY DEF LoopBefore
<1>8. Is(v, l)
  <2> HIDE DEF Is
  <2> QED BY <1>1, <1>6
<1>9. v[0] = es /\ \A k \in 1..l : v[k] = BeforeInsert(v[k - 1], frame_num, cmds[k])
  <2> HIDE DEF v
  <2>1. \A k \in 0..l : v[k] = IF k = 0 THEN es ELSE BeforeInsert(v[k - 1], frame_num, cmds[k])
    BY <1>8
  <2> QED BY <2>1
<1> HIDE DEF v
<1>10. \A k \in 0..l : v[k] \in Buffers(n)
  <2> DEFINE S == {k \in 0..l : v[k] \in Buffers(n)}
  <2>1. 0 \in S
    BY <1>9
  <2>2. ASSUME NEW k \in 1..l, k - 1 \in S PROVE k \in S
    <3>1. v[k - 1] \in Buffers(n) /\ cmds[k] \in RM!Commands
      BY <1>2, <2>2
    <3>2. v[k] \in Buffers(n)
      BY <1>9, <3>1, BeforeTyped
    <3> QED BY <3>2
  <2>3. \A k \in 0..l : k \in S
    <3> HIDE DEF S
    <3> QED BY <2>1, <2>2, EveryIteration
  <2> QED BY <2>3
<1>11. v \in [0..l -> Buffers(n)]
  BY <1>8, <1>10
<1> QED BY <1>1, <1>7, <1>9, <1>11 DEF EachBefore

(* The second loop over mmco_ops (decoder.rs:387-391).                     *)
LEMMA AfterOneByOne ==
    ASSUME NEW n \in Nat, NEW es \in Buffers(n), NEW frame_num,
           NEW cmds \in Seq(RM!Commands)
    PROVE  EachAfter(LoopAfter(es, frame_num, cmds), n, es, frame_num, cmds)
<1> DEFINE Is(f, l) == f = [k \in 0..l |-> IF k = 0 THEN es
                                           ELSE AfterInsert(f[k - 1], frame_num, cmds[k])]
           v == CHOOSE f : Is(f, Len(cmds))
<1>1. PICK l \in Nat : l = Len(cmds)
  OBVIOUS
<1>2. \A k \in 1..l : cmds[k] \in RM!Commands
  BY <1>1
<1>3. PICK step : step = [k \in 1..l |-> [x \in Buffers(n) |->
                                            AfterInsert(x, frame_num, cmds[k])]]
  OBVIOUS
<1>4. step \in [1..l -> [Buffers(n) -> Buffers(n)]]
  BY <1>2, <1>3, AfterTyped
<1>5. PICK g \in [0..l -> Buffers(n)] : Iterates(g, l, es, step)
  BY <1>4, LoopRuns
<1>6. Is(g, l)
  <2>1. \A k \in 0..l : k # 0 =>
          step[k][g[k - 1]] = AfterInsert(g[k - 1], frame_num, cmds[k])
    <3> SUFFICES ASSUME NEW k \in 0..l, k # 0
                 PROVE  step[k][g[k - 1]] = AfterInsert(g[k - 1], frame_num, cmds[k])
      OBVIOUS
    <3>1. k \in 1..l /\ k - 1 \in 0..l
      OBVIOUS
    <3>2. g[k - 1] \in Buffers(n)
      BY <3>1
    <3> QED BY <1>3, <3>1, <3>2
  <2> QED BY <2>1, <1>5 DEF Iterates
<1>7. LoopAfter(es, frame_num, cmds) = v
  BY DEF LoopAfter
<1>8. Is(v, l)
  <2> HIDE DEF Is
  <2> QED BY <1>1, <1>6
<1>9. v[0] = es /\ \A k \in 1..l : v[k] = AfterInsert(v[k - 1], frame_num, cmds[k])
  <2> HIDE DEF v
  <2>1. \A k \in 0..l : v[k] = IF k = 0 THEN es ELSE AfterInsert(v[k - 1], frame_num, cmds[k])
    BY <1>8
  <2> QED BY <2>1
<1> HIDE DEF v
<1>10. \A k \in 0..l : v[k] \in Buffers(n)
  <2> DEFINE S == {k \in 0..l : v[k] \in Buffers(n)}
  <2>1. 0 \in S
    BY <1>9
  <2>2. ASSUME NEW k \in 1..l, k - 1 \in S PROVE k \in S
    <3>1. v[k - 1] \in Buffers(n) /\ cmds[k] \in RM!Commands
      BY <1>2, <2>2
    <3>2. v[k] \in Buffers(n)
      BY <1>9, <3>1, AfterTyped
    <3> QED BY <3>2
  <2>3. \A k \in 0..l : k \in S
    <3> HIDE DEF S
    <3> QED BY <2>1, <2>2, EveryIteration
  <2> QED BY <2>3
<1>11. v \in [0..l -> Buffers(n)]
  BY <1>8, <1>10
<1> QED BY <1>1, <1>7, <1>9, <1>11 DEF EachAfter

-----------------------------------------------------------------------------
(* Types.                                                                  *)

(* frame_num counts modulo MaxFrameNum.                                    *)
LEMMA NextFrameNum ==
    ASSUME prev \in 0..MaxFrameNum - 1
    PROVE  /\ FrameNum = IF prev + 1 = MaxFrameNum THEN 0 ELSE prev + 1
           /\ FrameNum \in 0..MaxFrameNum - 1
<1>1. PICK N \in Nat \ {0} : N = MaxFrameNum
  BY DpbMarkingAssumption
<1>2. prev + 1 \in 1..N
  BY <1>1
<1>3. (prev + 1) % N = IF prev + 1 = N THEN 0 ELSE prev + 1
  <2>1. CASE prev + 1 = N
    BY <1>1, <2>1
  <2>2. CASE prev + 1 # N
    BY <1>2, <2>2
  <2> QED BY <2>1, <2>2
<1> QED BY <1>1, <1>2, <1>3 DEF FrameNum, RM!FrameNum

(* What the stream knows pictures by is a marking.                         *)
LEMMA MarkingTyped ==
    ASSUME Typed
    PROVE  Marking \in RM!Markings
<1> USE DEF Typed
<1>1. PICK s : s = {[id |-> e.pic.id, frame_num |-> numbers[e.pic.id]] : e \in Shorts(entries)}
  OBVIOUS
<1>2. PICK l : l = {[id |-> e.pic.id, idx |-> e.ref.idx] : e \in Longs(entries)}
  OBVIOUS
<1>3. \A e \in entries : e.pic.id \in 1..MaxPics /\ e.ref \in Statuses
  BY DEF Buffers, StoredPics
<1>4. s \subseteq [id : 1..MaxPics, frame_num : 0..MaxFrameNum - 1]
  BY <1>1, <1>3 DEF Shorts
<1>5. l \subseteq [id : 1..MaxPics, idx : LongIdxSet \cup {0}]
  <2>1. \A e \in Longs(entries) : e.pic.id \in 1..MaxPics /\ e.ref.idx \in LongIdxSet \cup {0}
    BY <1>3 DEF Longs, Statuses, ShortTerm, LongTerm
  <2> QED BY <1>2, <2>1
<1> QED BY <1>1, <1>2, <1>4, <1>5 DEF Marking, RM!Markings, Plus1s

(* A buffer is also one for later pictures.                                *)
LEMMA LaterBuffer ==
    ASSUME NEW n \in Nat, NEW es \in Buffers(n)
    PROVE  es \in Buffers(n + 1)
<1>1. \A e \in es : e.pic.id \in Nat /\ e.pic.id <= n
  BY DEF Buffers, StoredPics
<1> QED BY <1>1 DEF Buffers

(* Inserting picture n + 1 (dpb.rs:98-122).                                *)
LEMMA InsertTyped ==
    ASSUME NEW n \in Nat, NEW es \in Buffers(n), NEW pic \in StoredPics, pic.id = n + 1,
           NEW ref \in {Unused, ShortTerm, LongTerm(0)}
    PROVE  Insert(es, MaxRefFrames, pic, ref) \in Buffers(n + 1)
<1>1. SlidingWindowMark(es, MaxRefFrames) \subseteq es
  BY DEF SlidingWindowMark
<1>2. PICK kept \in SUBSET es : \/ Insert(es, MaxRefFrames, pic, ref) = kept
                                \/ /\ ref # Unused
                                   /\ Insert(es, MaxRefFrames, pic, ref)
                                        = kept \cup {Entry(pic, ref)}
  BY <1>1 DEF Insert
<1>3. kept \in Buffers(n + 1)
  BY LaterBuffer DEF Buffers
<1>4. ref # Unused => Entry(pic, ref) \in [pic : StoredPics, ref : Statuses]
  BY DEF Entry, Statuses
<1>5. Entry(pic, ref).pic.id <= n + 1
  BY DEF Entry
<1> QED BY <1>2, <1>3, <1>4, <1>5 DEF Buffers

(* Everything finalize_pending does to the buffer.                         *)
LEMMA FinalizeTyped ==
    ASSUME NEW n \in Nat, NEW es \in Buffers(n), NEW pic \in StoredPics, pic.id = n + 1,
           NEW ref \in {Unused, ShortTerm, LongTerm(0)}, NEW cmds \in Seq(RM!Commands)
    PROVE  Finalize(es, pic, ref, cmds) \in Buffers(n + 1)
<1>1. PICK l \in Nat : l = Len(cmds)
  OBVIOUS
<1>2. PICK before : before = LoopBefore(es, pic.frame_num, cmds)[l]
  OBVIOUS
<1>3. before \in Buffers(n)
  BY <1>1, <1>2, BeforeOneByOne DEF EachBefore
<1>4. PICK inserted : inserted = Insert(before, MaxRefFrames, pic, ref)
  OBVIOUS
<1>5. inserted \in Buffers(n + 1)
  BY <1>3, <1>4, InsertTyped
<1>6. EachAfter(LoopAfter(inserted, pic.frame_num, cmds), n + 1, inserted, pic.frame_num, cmds)
  BY <1>5, AfterOneByOne
<1> QED BY <1>1, <1>2, <1>4, <1>6 DEF Finalize, EachAfter

(* The picture under construction.                                         *)
LEMMA CurrentTyped ==
    ASSUME Typed, pics < MaxPics, NEW frame_num \in 0..MaxFrameNum - 1
    PROVE  /\ Current(frame_num) \in StoredPics
           /\ Current(frame_num).id = pics + 1
           /\ Current(frame_num).frame_num = frame_num
           /\ Current(frame_num).structure = "Frame"
           /\ pics + 1 \in 1..MaxPics /\ pics \in Nat
<1>1. pics + 1 \in 1..MaxPics /\ pics \in Nat
  BY DpbMarkingAssumption DEF Typed
<1> QED BY <1>1 DEF Current, Picture, StoredPics

(* An IDR picture.                                                         *)
LEMMA IdrTyped ==
    ASSUME Typed, NEW flag \in BOOLEAN, FinalizeIdr(flag)
    PROVE  Typed'
<1> USE DpbMarkingAssumption
<1>1. pics < MaxPics /\ 0 \in 0..MaxFrameNum - 1
  BY DEF FinalizeIdr
<1>2. /\ Current(0) \in StoredPics /\ Current(0).id = pics + 1
      /\ pics + 1 \in 1..MaxPics /\ pics \in Nat
  BY <1>1, CurrentTyped
<1>3. {} \in Buffers(pics)
  BY DEF Buffers
<1>4. entries' \in Buffers(pics + 1)
  BY <1>2, <1>3, InsertTyped DEF FinalizeIdr, Clear
<1>5. numbers' \in [1..MaxPics -> 0..MaxFrameNum - 1]
  BY <1>1, <1>2 DEF FinalizeIdr, Typed
<1> QED BY <1>1, <1>2, <1>4, <1>5 DEF FinalizeIdr, Typed, Plus1s

(* A reference picture with its commands.                                  *)
LEMMA ReferenceTyped ==
    ASSUME Typed, NEW cmds, FinalizeReference(cmds)
    PROVE  Typed'
<1> USE DpbMarkingAssumption
<1>1. /\ pics < MaxPics /\ pics \in Nat /\ pics' = pics + 1
      /\ cmds \in Seq(RM!Commands)
  BY DEF FinalizeReference, RM!Legal, Typed
<1>2. FrameNum \in 0..MaxFrameNum - 1
  BY NextFrameNum DEF Typed
<1>3. /\ Current(FrameNum) \in StoredPics /\ Current(FrameNum).id = pics + 1
      /\ pics + 1 \in 1..MaxPics
  BY <1>1, <1>2, CurrentTyped
<1>4. entries' \in Buffers(pics + 1)
  BY <1>1, <1>3, FinalizeTyped DEF FinalizeReference, Typed
<1>5. RM!KnownAs(FrameNum, cmds) \in 0..MaxFrameNum - 1
  BY <1>2 DEF RM!KnownAs
<1>6. numbers' \in [1..MaxPics -> 0..MaxFrameNum - 1] /\ prev' \in 0..MaxFrameNum - 1
  BY <1>3, <1>5 DEF FinalizeReference, Typed
<1>7. plus1' \in Plus1s
  <2>1. Marking \in RM!Markings
    BY MarkingTyped
  <2>2. EachApplied(RM!AfterEach(Marking, FrameNum, pics + 1, cmds), Marking, FrameNum,
                    pics + 1, cmds)
    BY <1>1, <1>3, <2>1, AppliedOneByOne
  <2>3. Len(cmds) \in Nat
    BY <1>1
  <2>4. RM!Applied(Marking, FrameNum, pics + 1, cmds) \in RM!Markings
    BY <2>2, <2>3 DEF EachApplied, RM!Applied
  <2> QED BY <2>4, MarkingParts DEF FinalizeReference
<1> QED BY <1>1, <1>3, <1>4, <1>6, <1>7 DEF Typed

(* A picture no other refers to.                                           *)
LEMMA NonReferenceTyped ==
    ASSUME Typed, FinalizeNonReference
    PROVE  Typed'
<1> USE DpbMarkingAssumption
<1>1. pics < MaxPics /\ pics \in Nat /\ pics' = pics + 1
  BY DEF FinalizeNonReference, Typed
<1>2. FrameNum \in 0..MaxFrameNum - 1
  BY NextFrameNum DEF Typed
<1>3. /\ Current(FrameNum) \in StoredPics /\ Current(FrameNum).id = pics + 1
      /\ pics + 1 \in 1..MaxPics
  BY <1>1, <1>2, CurrentTyped
<1>4. <<>> \in Seq(RM!Commands)
  OBVIOUS
<1>5. entries' \in Buffers(pics + 1)
  BY <1>1, <1>3, <1>4, FinalizeTyped DEF FinalizeNonReference, Typed
<1>6. numbers' \in [1..MaxPics -> 0..MaxFrameNum - 1]
  BY <1>2, <1>3 DEF FinalizeNonReference, Typed
<1> QED BY <1>1, <1>3, <1>5, <1>6 DEF FinalizeNonReference, Typed

(* An empty buffer is one.                                                 *)
LEMMA TypedInit == Init => Typed
BY DpbMarkingAssumption DEF Init, Typed, Buffers, Plus1s

(* Every step leaves a buffer of frames it was given.                      *)
LEMMA TypedStep == Typed /\ [Next]_vars => Typed'
<1> SUFFICES ASSUME Typed, [Next]_vars PROVE Typed'
  OBVIOUS
<1>1. CASE \E flag \in {FALSE, IdrLong} : FinalizeIdr(flag)
  BY <1>1, IdrTyped, DpbMarkingAssumption
<1>2. CASE \E cmds \in RM!LegalSeqs(Marking, FrameNum, pics + 1) : FinalizeReference(cmds)
  BY <1>2, ReferenceTyped
<1>3. CASE FinalizeNonReference
  BY <1>3, NonReferenceTyped
<1>4. CASE UNCHANGED vars
  BY <1>4 DEF vars, Typed
<1> QED BY <1>1, <1>2, <1>3, <1>4 DEF Next

(* Whatever the stream does, the buffer holds frames it was given, short-  *)
(* or long-term, and what is marked is a marking in the standard's sense   *)
(* (finalize_pending, decoder.rs:302-398).                                 *)
THEOREM TypeCorrect == Spec => []TypeOK
<1>1. Typed => TypeOK
  <2> SUFFICES ASSUME Typed PROVE TypeOK
    OBVIOUS
  <2>1. Marking \in RM!Markings
    BY MarkingTyped
  <2>2. \A e \in entries : e.pic.id \in 1..pics
    BY DEF Typed, Buffers, StoredPics
  <2> QED BY <2>1, <2>2 DEF Typed, TypeOK
<1> QED BY <1>1, TypedInit, TypedStep, PTL DEF Spec

-----------------------------------------------------------------------------
(* One command.                                                            *)

\* What a buffer marks, by the frame_nums its pictures are stored under.
ShortsOf(es) == {[id |-> e.pic.id, frame_num |-> e.pic.frame_num] : e \in Shorts(es)}
LongsOf(es)  == {[id |-> e.pic.id, idx |-> e.ref.idx] : e \in Longs(es)}
Marks(es, p) == MarkingOf(ShortsOf(es), LongsOf(es), p)

\* Every entry of a buffer is a short-term or a long-term picture.
EntryIs(e) ==
    /\ e = Entry(e.pic, e.ref)
    /\ e.pic.id \in Nat /\ e.pic.frame_num \in 0..MaxFrameNum - 1
    /\ e.pic.structure = "Frame"
    /\ \/ e.ref = ShortTerm /\ e.ref.kind # "long"
       \/ e.ref # ShortTerm /\ e.ref.kind = "long" /\ e.ref = LongTerm(e.ref.idx)
          /\ e.ref.idx \in Nat

(* What a buffer holds are short-term and long-term frames.                *)
LEMMA EntryKinds ==
    ASSUME NEW n, NEW es \in Buffers(n)
    PROVE  \A e \in es : EntryIs(e)
<1> SUFFICES ASSUME NEW e \in es PROVE EntryIs(e)
  OBVIOUS
<1>1. e \in [pic : StoredPics, ref : Statuses]
  BY DEF Buffers
<1>2. PICK q, r : e = [pic |-> q, ref |-> r] /\ q \in StoredPics /\ r \in Statuses
  BY <1>1
<1>3. e = Entry(e.pic, e.ref)
  BY <1>2 DEF Entry
<1>4. \A i \in LongIdxSet \cup {0} : i \in Nat
  BY DpbMarkingAssumption
<1>5. CASE e.ref = ShortTerm
  BY <1>1, <1>3, <1>5 DEF EntryIs, StoredPics, ShortTerm
<1>6. ASSUME NEW i \in LongIdxSet \cup {0}, e.ref = LongTerm(i)
      PROVE  EntryIs(e)
  BY <1>1, <1>3, <1>4, <1>6 DEF EntryIs, StoredPics, ShortTerm, LongTerm
<1> QED BY <1>1, <1>5, <1>6 DEF Statuses

(* In a buffer where no two pictures have the same frame_num, or index,    *)
(* the first entry with a frame_num or an index is the entry with it.      *)
LEMMA SingleEnds ==
    ASSUME NEW S, \A e, f \in S : e = f, \A e \in S : e.pic.id \in Nat
    PROVE  FirstOf(S) = S /\ LastOf(S) = S
<1>1. \A e, f \in S : e.pic.id <= f.pic.id
  <2> SUFFICES ASSUME NEW e \in S, NEW f \in S PROVE e.pic.id <= f.pic.id
    OBVIOUS
  <2>1. e = f /\ e.pic.id \in Nat
    OBVIOUS
  <2> QED BY <2>1
<1> QED BY <1>1 DEF FirstOf, LastOf

\* The buffer b, made of es, marks what a says.
Follows(b, a, es) ==
    /\ Apart(b)
    /\ \A x \in b : \E e \in es : x.pic = e.pic
    /\ Shorts(b) \subseteq Shorts(es)
    /\ a = Marks(b, a.plus1)

(* Some entries taken out: what is left is still apart.                    *)
LEMMA PartFollows ==
    ASSUME NEW es, Apart(es), NEW b \in SUBSET es, NEW a, a = Marks(b, a.plus1)
    PROVE  Follows(b, a, es)
BY DEF Follows, Apart, Shorts

\* Commands 1 and 3 name pictures by a difference; the frame_num the code
\* computes from it is that of the picture named.
Reaches(es, frame_num, c) ==
    c.op \in {1, 3} =>
      \A e \in Shorts(es) :
        RM!PicNum(e.pic, frame_num) = PicNumNamed(frame_num, c)
          => e.pic.frame_num <= frame_num

(* The pictures commands 1 and 3 name are those with the frame_num that    *)
(* the code computes (decoder.rs:331, :340).                               *)
LEMMA NumberNamed ==
    ASSUME NEW n, NEW es \in Buffers(n), NEW frame_num \in 0..MaxFrameNum - 1,
           NEW c \in RM!Commands, c.op \in {1, 3}, Reaches(es, frame_num, c),
           NEW p
    PROVE  RM!Named(Marks(es, p), frame_num, c)
             = {q \in ShortsOf(es) : q.frame_num = PicNumNamed(frame_num, c)}
<1>1. c.diff \in Nat
  BY CommandKinds DEF CommandIs
<1>2. PICK x \in Int : x = PicNumNamed(frame_num, c) /\ x < frame_num
  BY <1>1 DEF PicNumNamed
<1>3. Marks(es, p).short = ShortsOf(es)
  BY DEF Marks, MarkingOf
<1>4. ASSUME NEW q \in ShortsOf(es)
      PROVE  RM!PicNum(q, frame_num) = x <=> q.frame_num = x
  <2>1. PICK e \in Shorts(es) : q = [id |-> e.pic.id, frame_num |-> e.pic.frame_num]
    BY DEF ShortsOf
  <2>2. e.pic.frame_num \in 0..MaxFrameNum - 1
    BY EntryKinds DEF Shorts, EntryIs
  <2>3. RM!PicNum(e.pic, frame_num) = x => e.pic.frame_num <= frame_num
    BY <1>2 DEF Reaches
  <2>4. RM!PicNum(e.pic, frame_num)
          = IF e.pic.frame_num > frame_num THEN e.pic.frame_num - MaxFrameNum
            ELSE e.pic.frame_num
    BY DEF RM!PicNum
  <2>5. q.frame_num = e.pic.frame_num
    BY <2>1
  <2>6. RM!PicNum(q, frame_num) = RM!PicNum(e.pic, frame_num)
    BY <2>5 DEF RM!PicNum
  <2>7. RM!PicNum(e.pic, frame_num) = x <=> e.pic.frame_num = x
    BY <1>2, <2>2, <2>3, <2>4
  <2> QED BY <2>5, <2>6, <2>7
<1>5. RM!Named(Marks(es, p), frame_num, c) = {q \in ShortsOf(es) : RM!PicNum(q, frame_num) = x}
  BY <1>2, <1>3 DEF RM!Named, PicNumNamed
<1> QED BY <1>2, <1>4, <1>5

(* Freeing an index takes the long-term picture that has it out.           *)
LEMMA FreedLongs ==
    ASSUME NEW es, \A e \in es : EntryIs(e), NEW i
    PROVE  /\ WithoutIndex(es, i) = es \ {e \in es : e.ref = LongTerm(i)}
           /\ LongsOf(WithoutIndex(es, i)) = {q \in LongsOf(es) : q.idx # i}
           /\ Shorts(WithoutIndex(es, i)) = Shorts(es)
<1>1. Longs(WithoutIndex(es, i)) = {e \in Longs(es) : e.ref.idx # i}
  <2>1. \A e \in Longs(es) : e.ref = LongTerm(i) <=> e.ref.idx = i
    BY DEF Longs, EntryIs, LongTerm
  <2> QED BY <2>1 DEF Longs, WithoutIndex
<1>2. LongsOf(WithoutIndex(es, i)) = {q \in LongsOf(es) : q.idx # i}
  BY <1>1 DEF LongsOf
<1>3. Shorts(WithoutIndex(es, i)) = Shorts(es)
  BY DEF Shorts, WithoutIndex, ShortTerm, LongTerm
<1> QED BY <1>2, <1>3 DEF WithoutIndex

(* What a buffer marks is a marking.                                       *)
LEMMA MarksTyped ==
    ASSUME NEW n, NEW es \in Buffers(n), NEW p \in Plus1s
    PROVE  Marks(es, p) \in RM!Markings
<1>1. \A e \in es : e.pic \in StoredPics /\ e.ref \in Statuses
  BY DEF Buffers
<1>2. ShortsOf(es) \subseteq [id : 1..MaxPics, frame_num : 0..MaxFrameNum - 1]
  <2>1. \A e \in Shorts(es) : e.pic.id \in 1..MaxPics /\ e.pic.frame_num \in 0..MaxFrameNum - 1
    BY <1>1 DEF Shorts, StoredPics
  <2> QED BY <2>1 DEF ShortsOf
<1>3. LongsOf(es) \subseteq [id : 1..MaxPics, idx : LongIdxSet \cup {0}]
  <2>1. \A e \in Longs(es) : e.pic.id \in 1..MaxPics /\ e.ref.idx \in LongIdxSet \cup {0}
    BY <1>1 DEF Longs, StoredPics, Statuses, ShortTerm, LongTerm
  <2> QED BY <2>1 DEF LongsOf
<1> QED BY <1>2, <1>3 DEF Marks, MarkingOf, RM!Markings, Plus1s

(* The parts of what a buffer marks.                                       *)
LEMMA MarksParts ==
    ASSUME NEW es, NEW p
    PROVE  /\ Marks(es, p).short = ShortsOf(es) /\ Marks(es, p).long = LongsOf(es)
           /\ Marks(es, p).plus1 = p
BY DEF Marks, MarkingOf

(* Command 1: a short-term picture becomes unused (dpb.rs:596-605).        *)
LEMMA ShortUnused ==
    ASSUME NEW n, NEW es \in Buffers(n), Apart(es), NEW frame_num \in 0..MaxFrameNum - 1,
           NEW cur, NEW c \in RM!Commands, c.op = 1, Reaches(es, frame_num, c),
           NEW p \in Plus1s
    PROVE  Follows(BeforeInsert(es, frame_num, c),
                   RM!Apply(Marks(es, p), frame_num, cur, c), es)
<1> DEFINE x == PicNumNamed(frame_num, c)
           S == {e \in Shorts(es) : e.pic.frame_num = x}
<1>1. \A e \in es : EntryIs(e)
  BY EntryKinds
<1>2. FirstOf(S) = S
  <2>1. \A e, f \in S : e = f
    BY DEF Shorts, Apart
  <2>2. \A e \in S : e.pic.id \in Nat
    BY <1>1 DEF Shorts, EntryIs
  <2> HIDE DEF S
  <2> QED BY <2>1, <2>2, SingleEnds
<1>3. BeforeInsert(es, frame_num, c) = es \ S
  BY <1>2 DEF BeforeInsert, MarkShortTermUnused
<1>4. RM!Named(Marks(es, p), frame_num, c) = {q \in ShortsOf(es) : q.frame_num = x}
  BY NumberNamed
<1>5. ShortsOf(es \ S) = ShortsOf(es) \ {q \in ShortsOf(es) : q.frame_num = x}
  BY DEF ShortsOf, Shorts
<1>6. LongsOf(es \ S) = LongsOf(es)
  <2>1. Longs(es \ S) = Longs(es)
    BY <1>1 DEF Longs, Shorts, EntryIs
  <2> QED BY <2>1 DEF LongsOf
<1>7. PICK a : a = RM!Apply(Marks(es, p), frame_num, cur, c)
  OBVIOUS
<1>8. Effect(Marks(es, p), frame_num, cur, c, a)
  BY <1>7, MarksTyped, ApplyIs
<1>9. a = MarkingOf(ShortsOf(es \ S), LongsOf(es \ S), p)
  BY <1>4, <1>5, <1>6, <1>8, MarksParts DEF Effect
<1>10. a = Marks(es \ S, a.plus1)
  BY <1>9 DEF Marks, MarkingOf
<1> QED BY <1>3, <1>7, <1>10, PartFollows

(* Command 2: a long-term picture becomes unused (dpb.rs:607-616).         *)
LEMMA LongUnused ==
    ASSUME NEW n, NEW es \in Buffers(n), Apart(es), NEW frame_num \in 0..MaxFrameNum - 1,
           NEW cur, NEW c \in RM!Commands, c.op = 2, NEW p \in Plus1s
    PROVE  Follows(BeforeInsert(es, frame_num, c),
                   RM!Apply(Marks(es, p), frame_num, cur, c), es)
<1> DEFINE S == {e \in es : e.ref = LongTerm(c.idx)}
<1>1. \A e \in es : EntryIs(e)
  BY EntryKinds
<1>2. FirstOf(S) = S
  <2>1. \A e, f \in S : e = f
    BY DEF Apart, LongTerm
  <2>2. \A e \in S : e.pic.id \in Nat
    BY <1>1 DEF EntryIs
  <2> HIDE DEF S
  <2> QED BY <2>1, <2>2, SingleEnds
<1>3. BeforeInsert(es, frame_num, c) = es \ S
  BY <1>2 DEF BeforeInsert, MarkLongTermUnused
<1>4. ShortsOf(es \ S) = ShortsOf(es) /\ LongsOf(es \ S) = RM!Free(Marks(es, p), c.idx)
  <2>1. es \ S = WithoutIndex(es, c.idx)
    BY <1>1, FreedLongs
  <2>2. LongsOf(WithoutIndex(es, c.idx)) = {q \in LongsOf(es) : q.idx # c.idx}
    BY <1>1, FreedLongs
  <2>3. Shorts(WithoutIndex(es, c.idx)) = Shorts(es)
    BY <1>1, FreedLongs
  <2> HIDE DEF S
  <2> QED BY <2>1, <2>2, <2>3, MarksParts DEF ShortsOf, RM!Free
<1>6. PICK a : a = RM!Apply(Marks(es, p), frame_num, cur, c)
  OBVIOUS
<1>7. Effect(Marks(es, p), frame_num, cur, c, a)
  BY <1>6, MarksTyped, ApplyIs
<1>8. a = MarkingOf(ShortsOf(es \ S), LongsOf(es \ S), p)
  <2> HIDE DEF S
  <2> QED BY <1>4, <1>7, MarksParts DEF Effect
<1>9. a = Marks(es \ S, a.plus1)
  BY <1>8 DEF Marks, MarkingOf
<1> QED BY <1>3, <1>6, <1>9, PartFollows

(* Command 4: indices above a bound are no longer used (dpb.rs:637-660).   *)
LEMMA IndicesBounded ==
    ASSUME NEW n, NEW es \in Buffers(n), Apart(es), NEW frame_num \in 0..MaxFrameNum - 1,
           NEW cur, NEW c \in RM!Commands, c.op = 4, NEW p \in Plus1s
    PROVE  Follows(BeforeInsert(es, frame_num, c),
                   RM!Apply(Marks(es, p), frame_num, cur, c), es)
<1> DEFINE b == SetMaxLongTermFrameIdx(es, c.plus1)
<1>1. \A e \in es : EntryIs(e)
  BY EntryKinds
<1>2. c.plus1 \in Nat
  BY CommandKinds, DpbMarkingAssumption DEF CommandIs, Plus1s
<1>3. BeforeInsert(es, frame_num, c) = b
  BY DEF BeforeInsert
<1>4. Shorts(b) = Shorts(es)
  BY <1>1 DEF Shorts, SetMaxLongTermFrameIdx, EntryIs
<1>5. LongsOf(b) = {q \in LongsOf(es) : q.idx < c.plus1}
  <2>1. \A e \in Longs(es) : e.ref.idx \in Nat
    BY <1>1 DEF Longs, EntryIs
  <2>2. Longs(b) = {e \in Longs(es) : e.ref.idx < c.plus1}
    BY <1>2, <2>1 DEF Longs, SetMaxLongTermFrameIdx
  <2> QED BY <2>2 DEF LongsOf
<1>6. PICK a : a = RM!Apply(Marks(es, p), frame_num, cur, c)
  OBVIOUS
<1>7. Effect(Marks(es, p), frame_num, cur, c, a)
  BY <1>6, MarksTyped, ApplyIs
<1>8. a = MarkingOf(ShortsOf(b), LongsOf(b), c.plus1)
  <2>1. ShortsOf(b) = ShortsOf(es)
    BY <1>4 DEF ShortsOf
  <2>2. a = MarkingOf(ShortsOf(es), {q \in LongsOf(es) : q.idx < c.plus1}, c.plus1)
    BY ONLY <1>7, MarksParts, c.op = 4 DEF Effect
  <2> QED BY <1>5, <2>1, <2>2
<1>9. a = Marks(b, a.plus1)
  BY <1>8 DEF Marks, MarkingOf
<1>10. b \subseteq es
  BY DEF SetMaxLongTermFrameIdx
<1> QED BY <1>3, <1>6, <1>9, <1>10, PartFollows

(* Command 5: no picture is used any more (dpb.rs:661-670).                *)
LEMMA AllUnused ==
    ASSUME NEW n, NEW es \in Buffers(n), Apart(es), NEW frame_num,
           NEW cur, NEW c \in RM!Commands, c.op = 5, NEW p \in Plus1s
    PROVE  Follows(BeforeInsert(es, frame_num, c),
                   RM!Apply(Marks(es, p), frame_num, cur, c), es)
<1>1. BeforeInsert(es, frame_num, c) = {}
  BY DEF BeforeInsert, ClearAllRefs
<1>2. PICK a : a = RM!Apply(Marks(es, p), frame_num, cur, c)
  OBVIOUS
<1>3. Effect(Marks(es, p), frame_num, cur, c, a)
  BY <1>2, MarksTyped, ApplyIs
<1>4. ShortsOf({}) = {} /\ LongsOf({}) = {}
  BY DEF ShortsOf, LongsOf, Shorts, Longs
<1>5. a = Marks({}, a.plus1)
  BY <1>3, <1>4 DEF Effect, Marks, MarkingOf
<1> QED BY <1>1, <1>2, <1>5, PartFollows

\* The entries of S are long-term pictures of index i in b, else b is as es.
HasPromoted(b, es, S, i) ==
    /\ Apart(b)
    /\ \A x \in b : \E e \in es : x.pic = e.pic
    /\ Shorts(b) = Shorts(es) \ S
    /\ LongsOf(b) = {q \in LongsOf(es) : q.idx # i}
                      \cup {[id |-> e.pic.id, idx |-> i] : e \in S}

(* A short-term picture is given an index that no other has any more.      *)
LEMMA Promoted ==
    ASSUME NEW es, \A e \in es : EntryIs(e), Apart(es), NEW i \in Nat,
           NEW S \in SUBSET Shorts(es), \A e, f \in S : e = f,
           NEW b, b = Promote(WithoutIndex(es, i), S, i)
    PROVE  HasPromoted(b, es, S, i)
<1> DEFINE kept == WithoutIndex(es, i)
           T == {Entry(e.pic, LongTerm(i)) : e \in S}
<1>1. b = (kept \ S) \cup T
  BY DEF Promote
<1>2. kept \subseteq es /\ \A e \in kept : e.ref # LongTerm(i)
  BY DEF WithoutIndex
<1>3. \A x \in T : \E e \in S : x.pic = e.pic /\ x.ref = LongTerm(i)
  BY DEF Entry
<1>4. \A x, y \in T : x = y
  OBVIOUS
<1>5. S \subseteq es
  BY DEF Shorts
<1>6. /\ Shorts(kept) = Shorts(es)
      /\ LongsOf(kept) = {q \in LongsOf(es) : q.idx # i}
  BY FreedLongs
<1>7. LongTerm(i).kind = "long" /\ LongTerm(i) # ShortTerm /\ LongTerm(i).idx = i
  BY DEF LongTerm, ShortTerm
<1>8. LongsOf(T) = {[id |-> e.pic.id, idx |-> i] : e \in S}
  <2>1. Longs(T) = T
    BY <1>3, <1>7 DEF Longs
  <2>2. \A e \in S : /\ Entry(e.pic, LongTerm(i)).pic = e.pic
                     /\ Entry(e.pic, LongTerm(i)).ref = LongTerm(i)
    BY DEF Entry
  <2>3. \A x \in T : x.ref.idx = i
    BY <1>3, <1>7
  <2>4. LongsOf(T) = {[id |-> x.pic.id, idx |-> i] : x \in T}
    BY <2>1, <2>3 DEF LongsOf
  <2> QED BY <2>2, <2>4
<1> HIDE DEF T
<1>9. Apart(b)
  <2> SUFFICES ASSUME NEW x \in b, NEW y \in b,
                      \/ x.pic.id = y.pic.id
                      \/ x.pic.frame_num = y.pic.frame_num
                      \/ x.ref.kind = "long" /\ x.ref = y.ref
               PROVE  x = y
    BY DEF Apart
  <2>1. CASE x \in T /\ y \in T
    BY <1>4, <2>1
  <2>2. CASE x \in kept \ S /\ y \in kept \ S
    BY <1>2, <2>2 DEF Apart
  <2>3. ASSUME NEW u \in T, NEW w \in kept \ S
        PROVE  /\ u.pic.id # w.pic.id /\ u.pic.frame_num # w.pic.frame_num
               /\ u.ref # w.ref
    <3>1. PICK e \in S : u.pic = e.pic /\ u.ref = LongTerm(i)
      BY <1>3
    <3>2. e \in es /\ w \in es /\ e # w
      BY <1>2, <1>5, <2>3
    <3> QED BY <1>2, <3>1, <3>2 DEF Apart
  <2> QED BY <1>1, <2>1, <2>2, <2>3
<1>10. \A x \in b : \E e \in es : x.pic = e.pic
  BY <1>1, <1>2, <1>3, <1>5
<1>11. Shorts(b) = Shorts(es) \ S
  <2>1. \A x \in T : x.ref # ShortTerm
    BY <1>3, <1>7
  <2>2. Shorts(b) = Shorts(kept) \ S
    BY <1>1, <2>1 DEF Shorts
  <2> QED BY <1>6, <2>2
<1>12. LongsOf(b) = LongsOf(kept) \cup LongsOf(T)
  <2>1. \A e \in S : e.ref.kind # "long"
    BY <1>5, <1>7 DEF Shorts, ShortTerm
  <2>2. Longs(b) = Longs(kept) \cup Longs(T)
    BY <1>1, <2>1 DEF Longs
  <2> QED BY <2>2 DEF LongsOf
<1> QED BY <1>6, <1>8, <1>9, <1>10, <1>11, <1>12 DEF HasPromoted

(* Command 3: a short-term picture becomes long-term (dpb.rs:618-635).     *)
LEMMA IndexAssigned ==
    ASSUME NEW n, NEW es \in Buffers(n), Apart(es), NEW frame_num \in 0..MaxFrameNum - 1,
           NEW cur, NEW c \in RM!Commands, c.op = 3, Reaches(es, frame_num, c),
           NEW p \in Plus1s
    PROVE  Follows(BeforeInsert(es, frame_num, c),
                   RM!Apply(Marks(es, p), frame_num, cur, c), es)
<1> DEFINE x == PicNumNamed(frame_num, c)
           S == {e \in Shorts(es) : e.pic.frame_num = x}
           b == Promote(WithoutIndex(es, c.idx), S, c.idx)
<1>1. \A e \in es : EntryIs(e)
  BY EntryKinds
<1>2. c.idx \in Nat
  BY CommandKinds, DpbMarkingAssumption DEF CommandIs
<1>3. \A e, f \in S : e = f
  BY DEF Shorts, Apart
<1>4. FirstOf(S) = S
  <2>1. \A e \in S : e.pic.id \in Nat
    BY <1>1 DEF Shorts, EntryIs
  <2> HIDE DEF S
  <2> QED BY <1>3, <2>1, SingleEnds
<1>5. BeforeInsert(es, frame_num, c) = b
  <2>1. Shorts(WithoutIndex(es, c.idx)) = Shorts(es)
    BY <1>1, FreedLongs
  <2> QED BY <1>4, <2>1 DEF BeforeInsert, AssignLongTerm
<1>6. S \subseteq Shorts(es)
  OBVIOUS
<1>7. /\ Apart(b)
      /\ \A y \in b : \E e \in es : y.pic = e.pic
      /\ Shorts(b) = Shorts(es) \ S
      /\ LongsOf(b) = {q \in LongsOf(es) : q.idx # c.idx}
                        \cup {[id |-> e.pic.id, idx |-> c.idx] : e \in S}
  <2> HIDE DEF S, b
  <2>1. HasPromoted(b, es, S, c.idx)
    BY <1>1, <1>2, <1>3, <1>6, Promoted DEF b
  <2> QED BY <2>1 DEF HasPromoted
<1>8. RM!Named(Marks(es, p), frame_num, c) = {q \in ShortsOf(es) : q.frame_num = x}
  BY NumberNamed
<1>9. ShortsOf(b) = ShortsOf(es) \ RM!Named(Marks(es, p), frame_num, c)
  <2>1. ShortsOf(b) = {[id |-> e.pic.id, frame_num |-> e.pic.frame_num] : e \in Shorts(es) \ S}
    BY ONLY <1>7 DEF ShortsOf
  <2> HIDE DEF b
  <2> QED BY <1>8, <2>1 DEF ShortsOf
<1>10. NowLong(Marks(es, p), frame_num, c) = {[id |-> e.pic.id, idx |-> c.idx] : e \in S}
  <2> DEFINE N == {q \in ShortsOf(es) : q.frame_num = x}
  <2>1. NowLong(Marks(es, p), frame_num, c) = {[id |-> q.id, idx |-> c.idx] : q \in N}
    BY <1>8 DEF NowLong
  <2>2. ASSUME NEW q \in N PROVE \E e \in S : q.id = e.pic.id
    <3>1. PICK e \in Shorts(es) : q = [id |-> e.pic.id, frame_num |-> e.pic.frame_num]
      BY DEF ShortsOf
    <3>2. e \in S /\ q.id = e.pic.id
      BY <3>1
    <3> QED BY <3>2
  <2>3. ASSUME NEW e \in S PROVE \E q \in N : q.id = e.pic.id
    <3>1. PICK q : q = [id |-> e.pic.id, frame_num |-> e.pic.frame_num]
      OBVIOUS
    <3>2. q \in N /\ q.id = e.pic.id
      BY <3>1 DEF ShortsOf
    <3> HIDE DEF S, N
    <3> QED BY <3>2
  <2> HIDE DEF S, N
  <2> QED BY <2>1, <2>2, <2>3
<1>11. PICK a : a = RM!Apply(Marks(es, p), frame_num, cur, c)
  OBVIOUS
<1>12. Effect(Marks(es, p), frame_num, cur, c, a)
  BY <1>11, MarksTyped, ApplyIs
<1> HIDE DEF b, S
<1>13. a = MarkingOf(ShortsOf(b), LongsOf(b), p)
  <2>1. a = MarkingOf(ShortsOf(es) \ RM!Named(Marks(es, p), frame_num, c),
                      RM!Free(Marks(es, p), c.idx) \cup NowLong(Marks(es, p), frame_num, c), p)
    BY ONLY <1>12, MarksParts, c.op = 3 DEF Effect
  <2>2. RM!Free(Marks(es, p), c.idx) = {q \in LongsOf(es) : q.idx # c.idx}
    BY MarksParts DEF RM!Free
  <2> QED BY <1>7, <1>9, <1>10, <2>1, <2>2
<1>14. a = Marks(b, a.plus1)
  BY <1>13 DEF Marks, MarkingOf
<1> QED BY <1>5, <1>7, <1>11, <1>14 DEF Follows

(* Any command that runs before the picture is inserted.                   *)
LEMMA CommandFollows ==
    ASSUME NEW n, NEW es \in Buffers(n), Apart(es), NEW frame_num \in 0..MaxFrameNum - 1,
           NEW cur, NEW c \in RM!Commands, c.op # 6, Reaches(es, frame_num, c),
           NEW p \in Plus1s
    PROVE  Follows(BeforeInsert(es, frame_num, c),
                   RM!Apply(Marks(es, p), frame_num, cur, c), es)
<1>1. c.op \in 1..6
  BY CommandKinds DEF CommandIs
<1> QED BY <1>1, ShortUnused, LongUnused, IndexAssigned, IndicesBounded, AllUnused

-----------------------------------------------------------------------------
(* All commands of a picture.                                              *)

\* Command 6 is the last one.
SixIsLast(cmds) == \A k \in 1..Len(cmds) : cmds[k].op = 6 => k = Len(cmds)

(* Two commands, one after the other.                                      *)
LEMMA FollowsTransitive ==
    ASSUME NEW a, NEW b, NEW d, NEW es, Follows(b, d, es), NEW x, Follows(x, a, b)
    PROVE  Follows(x, a, es)
<1>1. \A y \in x : \E e \in es : y.pic = e.pic
  <2> SUFFICES ASSUME NEW y \in x PROVE \E e \in es : y.pic = e.pic
    OBVIOUS
  <2>1. PICK z \in b : y.pic = z.pic
    BY DEF Follows
  <2>2. PICK e \in es : z.pic = e.pic
    BY DEF Follows
  <2> QED BY <2>1, <2>2
<1> QED BY <1>1 DEF Follows

(* As long as command 6 has not come, the buffer marks what the standard   *)
(* has marked, command by command (decoder.rs:328-357).                    *)
LEMMA LoopFollows ==
    ASSUME NEW n \in Nat, NEW es \in Buffers(n), Apart(es),
           NEW frame_num \in 0..MaxFrameNum - 1, NEW cur \in 1..MaxPics,
           NEW cmds \in Seq(RM!Commands), SixIsLast(cmds), NEW p \in Plus1s,
           \A k \in 1..Len(cmds) : Reaches(es, frame_num, cmds[k])
    PROVE  \A k \in 0..Len(cmds) :
             k = 0 \/ cmds[k].op # 6 =>
               Follows(LoopBefore(es, frame_num, cmds)[k],
                       RM!AfterEach(Marks(es, p), frame_num, cur, cmds)[k], es)
<1>1. PICK l \in Nat : l = Len(cmds)
  OBVIOUS
<1>2. PICK B : B = LoopBefore(es, frame_num, cmds)
  OBVIOUS
<1>3. PICK A : A = RM!AfterEach(Marks(es, p), frame_num, cur, cmds)
  OBVIOUS
<1>4. /\ \A k \in 0..l : B[k] \in Buffers(n)
      /\ B[0] = es
      /\ \A k \in 1..l : B[k] = BeforeInsert(B[k - 1], frame_num, cmds[k])
  <2>1. EachBefore(B, n, es, frame_num, cmds)
    BY <1>2, BeforeOneByOne
  <2> QED BY <1>1, <2>1 DEF EachBefore
<1>5. /\ \A k \in 0..l : A[k] \in RM!Markings
      /\ A[0] = Marks(es, p)
      /\ \A k \in 1..l : A[k] = RM!Apply(A[k - 1], frame_num, cur, cmds[k])
  <2>1. EachApplied(A, Marks(es, p), frame_num, cur, cmds)
    BY <1>3, MarksTyped, AppliedOneByOne
  <2> QED BY <1>1, <2>1 DEF EachApplied
<1> DEFINE S == {k \in 0..l : k = 0 \/ cmds[k].op # 6 => Follows(B[k], A[k], es)}
<1>6. 0 \in S
  <2>1. Follows(es, Marks(es, p), es)
    <3>1. Marks(es, p) = Marks(es, Marks(es, p).plus1)
      BY MarksParts
    <3> QED BY <3>1 DEF Follows
  <2> QED BY <1>4, <1>5, <2>1
<1>7. ASSUME NEW k \in 1..l, k - 1 \in S PROVE k \in S
  <2> SUFFICES ASSUME cmds[k].op # 6 PROVE Follows(B[k], A[k], es)
    OBVIOUS
  <2>1. k - 1 \in 0..l /\ (k - 1 = 0 \/ cmds[k - 1].op # 6)
    BY <1>1 DEF SixIsLast
  <2>2. Follows(B[k - 1], A[k - 1], es)
    BY <1>7, <2>1
  <2>3. PICK b : b = B[k - 1]
    OBVIOUS
  <2>4. PICK a : a = A[k - 1]
    OBVIOUS
  <2>5. b \in Buffers(n) /\ Apart(b) /\ Shorts(b) \subseteq Shorts(es) /\ a = Marks(b, a.plus1)
    BY <1>4, <2>1, <2>2, <2>3, <2>4 DEF Follows
  <2>6. a.plus1 \in Plus1s
    BY <1>5, <2>1, <2>4, MarkingParts
  <2>7. cmds[k] \in RM!Commands /\ Reaches(b, frame_num, cmds[k])
    BY <1>1, <2>5 DEF Reaches
  <2>8. Follows(BeforeInsert(b, frame_num, cmds[k]),
                RM!Apply(Marks(b, a.plus1), frame_num, cur, cmds[k]), b)
    BY <2>5, <2>6, <2>7, CommandFollows
  <2>9. Follows(B[k], A[k], b)
    BY <1>4, <1>5, <2>3, <2>4, <2>5, <2>8
  <2> QED BY <2>2, <2>3, <2>9, FollowsTransitive
<1>8. \A k \in 0..l : k \in S
  <2> HIDE DEF S
  <2> QED BY <1>6, <1>7, EveryIteration
<1> QED BY <1>1, <1>2, <1>3, <1>8

-----------------------------------------------------------------------------
(* Counting.                                                               *)

(* A set named anew, one name each, has as many elements.                  *)
LEMMA Renamed ==
    ASSUME NEW S, IsFiniteSet(S), NEW T, NEW f \in [S -> T],
           \A x, y \in S : f[x] = f[y] => x = y,
           \A t \in T : \E x \in S : f[x] = t
    PROVE  IsFiniteSet(T) /\ Cardinality(T) = Cardinality(S)
<1>1. f \in Surjection(S, T) /\ f \in Injection(S, T)
  BY DEF Surjection, Injection, IsInjective
<1> QED BY <1>1, FS_Surjection

(* A buffer is finite, and counts as many frames as it has entries.        *)
LEMMA FramesCounted ==
    ASSUME NEW n, NEW es \in Buffers(n), Apart(es)
    PROVE  /\ IsFiniteSet(es) /\ Cardinality(es) \in Nat
           /\ Cardinality(FrameNums(es)) = Cardinality(es)
<1>1. IsFiniteSet(es)
  <2>1. PICK f : f = [e \in es |-> e.pic.id]
    OBVIOUS
  <2>2. f \in Injection(es, 1..MaxPics)
    <3>1. \A e \in es : e.pic.id \in 1..MaxPics
      BY DEF Buffers, StoredPics
    <3>2. \A e, g \in es : e.pic.id = g.pic.id => e = g
      BY DEF Apart
    <3> QED BY <2>1, <3>1, <3>2 DEF Injection, IsInjective
  <2>3. IsFiniteSet(1..MaxPics)
    BY FS_Interval, DpbMarkingAssumption
  <2> QED BY <2>2, <2>3, FS_Injection
<1>2. Cardinality(FrameNums(es)) = Cardinality(es)
  <2>1. PICK f : f = [e \in es |-> e.pic.frame_num]
    OBVIOUS
  <2>2. f \in [es -> FrameNums(es)]
    BY <2>1 DEF FrameNums
  <2>3. \A x, y \in es : f[x] = f[y] => x = y
    BY <2>1 DEF Apart
  <2>4. \A t \in FrameNums(es) : \E x \in es : f[x] = t
    BY <2>1 DEF FrameNums
  <2> QED BY <1>1, <2>2, <2>3, <2>4, Renamed
<1> QED BY <1>1, <1>2, FS_CardinalityType

(* What the standard counts is what is in the buffer.                      *)
LEMMA TotalCounted ==
    ASSUME NEW n, NEW es \in Buffers(n), Apart(es), NEW p
    PROVE  RM!Total(Marks(es, p)) = Cardinality(es)
<1>1. IsFiniteSet(es) /\ \A e \in es : EntryIs(e)
  BY FramesCounted, EntryKinds
<1>2. Shorts(es) \cap Longs(es) = {} /\ Shorts(es) \cup Longs(es) = es
  BY <1>1 DEF Shorts, Longs, EntryIs
<1>3. IsFiniteSet(Shorts(es)) /\ IsFiniteSet(Longs(es))
  <2>1. Shorts(es) \in SUBSET es /\ Longs(es) \in SUBSET es
    BY DEF Shorts, Longs
  <2> QED BY <1>1, <2>1, FS_Subset
<1>4. Cardinality(es) = Cardinality(Shorts(es)) + Cardinality(Longs(es))
  <2>1. PICK S, L : S = Shorts(es) /\ L = Longs(es)
    OBVIOUS
  <2>2. Cardinality(S \cup L) = Cardinality(S) + Cardinality(L) - Cardinality(S \cap L)
    BY <1>3, <2>1, FS_Union
  <2>3. Cardinality(S) \in Nat /\ Cardinality(L) \in Nat
    BY <1>3, <2>1, FS_CardinalityType
  <2>4. S \cap L = {} /\ S \cup L = es
    BY <1>2, <2>1
  <2>5. Cardinality(S \cap L) = 0
    BY <2>4, FS_EmptySet
  <2>6. Cardinality(S \cup L) = Cardinality(S) + Cardinality(L)
    BY ONLY <2>2, <2>3, <2>5
  <2> QED BY <2>1, <2>4, <2>6
<1>5. Cardinality(ShortsOf(es)) = Cardinality(Shorts(es))
  <2>1. PICK f : f = [e \in Shorts(es) |-> [id |-> e.pic.id, frame_num |-> e.pic.frame_num]]
    OBVIOUS
  <2>2. f \in [Shorts(es) -> ShortsOf(es)] /\ \A t \in ShortsOf(es) : \E x \in Shorts(es) : f[x] = t
    BY <2>1 DEF ShortsOf
  <2>3. \A x, y \in Shorts(es) : f[x] = f[y] => x = y
    <3> SUFFICES ASSUME NEW x \in Shorts(es), NEW y \in Shorts(es), f[x] = f[y] PROVE x = y
      OBVIOUS
    <3>1. f[x].id = x.pic.id /\ f[y].id = y.pic.id
      BY <2>1
    <3> QED BY <3>1 DEF Shorts, Apart
  <2> QED BY <1>3, <2>2, <2>3, Renamed
<1>6. Cardinality(LongsOf(es)) = Cardinality(Longs(es))
  <2>1. PICK f : f = [e \in Longs(es) |-> [id |-> e.pic.id, idx |-> e.ref.idx]]
    OBVIOUS
  <2>2. f \in [Longs(es) -> LongsOf(es)] /\ \A t \in LongsOf(es) : \E x \in Longs(es) : f[x] = t
    BY <2>1 DEF LongsOf
  <2>3. \A x, y \in Longs(es) : f[x] = f[y] => x = y
    <3> SUFFICES ASSUME NEW x \in Longs(es), NEW y \in Longs(es), f[x] = f[y] PROVE x = y
      OBVIOUS
    <3>1. f[x].id = x.pic.id /\ f[y].id = y.pic.id
      BY <2>1
    <3> QED BY <3>1 DEF Longs, Apart
  <2> QED BY <1>3, <2>2, <2>3, Renamed
<1>7. RM!Total(Marks(es, p)) = Cardinality(ShortsOf(es)) + Cardinality(LongsOf(es))
  <2>1. \A S : RM!Cardinality(S) = Cardinality(S)
    BY DEF RM!Cardinality, Cardinality, RM!IsFiniteSet, IsFiniteSet
  <2> QED BY <2>1, MarksParts DEF RM!Total
<1> QED BY ONLY <1>4, <1>5, <1>6, <1>7

-----------------------------------------------------------------------------
(* The window.                                                             *)

(* The loop of sliding_window_mark stops where StopsAt says.               *)
LEMMA StopsThere ==
    ASSUME NEW es, NEW max \in Nat \ {0}, NEW cut, StopsAt(es, max, cut),
           Cuts(es) \subseteq Nat
    PROVE  SlidingWindowMark(es, max) = es \ EvictedUpTo(es, cut)
<1> DEFINE stop == CHOOSE c \in Cuts(es) : StopsAt(es, max, c)
<1>1. cut \in Cuts(es)
  BY DEF StopsAt
<1>2. stop \in Cuts(es) /\ StopsAt(es, max, stop)
  BY <1>1
<1> HIDE DEF stop
<1>3. cut <= stop /\ stop <= cut
  BY <1>1, <1>2 DEF StopsAt
<1>4. stop = cut
  BY <1>1, <1>2, <1>3
<1> QED BY <1>4 DEF SlidingWindowMark, stop

(* With room for one more frame nothing is evicted (dpb.rs:556-594).       *)
LEMMA RoomLeft ==
    ASSUME NEW n, NEW es \in Buffers(n), Apart(es),
           Cardinality(es) < MaxRefFrames \/ Shorts(es) = {}
    PROVE  SlidingWindowMark(es, MaxRefFrames) = es
<1>1. \A e \in es : e.pic.id \in Nat /\ ~ (e.pic.id <= 0)
  BY DEF Buffers, StoredPics
<1>2. Cuts(es) \subseteq Nat /\ 0 \in Cuts(es)
  BY <1>1 DEF Cuts, Shorts
<1>3. EvictedUpTo(es, 0) = {}
  BY <1>1 DEF EvictedUpTo, FrameNums, Shorts
<1>4. WindowFits(es, MaxRefFrames)
  BY FramesCounted DEF WindowFits
<1>5. es \ EvictedUpTo(es, 0) = es
  BY <1>3
<1>6. StopsAt(es, MaxRefFrames, 0)
  <2>1. \A c \in Cuts(es) : 0 <= c
    BY <1>2
  <2> QED BY <1>2, <1>4, <1>5, <2>1 DEF StopsAt
<1> QED BY <1>2, <1>5, <1>6, StopsThere, DpbMarkingAssumption

(* In a full buffer the short-term picture inserted first goes, and no     *)
(* other (dpb.rs:556-594).                                                 *)
LEMMA OldestGoes ==
    ASSUME NEW n, NEW es \in Buffers(n), Apart(es), Cardinality(es) = MaxRefFrames,
           NEW old \in Shorts(es), \A e \in Shorts(es) : old.pic.id <= e.pic.id
    PROVE  SlidingWindowMark(es, MaxRefFrames) = es \ {old}
<1> USE DpbMarkingAssumption
<1>1. \A e \in es : e.pic.id \in Nat /\ ~ (e.pic.id <= 0)
  BY DEF Buffers, StoredPics
<1>2. Cuts(es) \subseteq Nat
  BY <1>1 DEF Cuts, Shorts
<1>3. {e \in Shorts(es) : e.pic.id <= old.pic.id} = {old}
  <2>1. \A e \in Shorts(es) : e.pic.id <= old.pic.id => e = old
    <3> SUFFICES ASSUME NEW e \in Shorts(es), e.pic.id <= old.pic.id PROVE e = old
      OBVIOUS
    <3>1. e.pic.id \in Nat /\ old.pic.id \in Nat /\ old.pic.id <= e.pic.id
      BY <1>1 DEF Shorts
    <3>2. e.pic.id = old.pic.id
      BY <3>1
    <3> QED BY <3>2 DEF Apart, Shorts
  <2>2. old.pic.id <= old.pic.id
    BY <1>1 DEF Shorts
  <2> QED BY <2>1, <2>2
<1>4. EvictedUpTo(es, old.pic.id) = {old}
  <2>1. FrameNums({old}) = {old.pic.frame_num}
    BY DEF FrameNums
  <2>2. EvictedUpTo(es, old.pic.id) = {e \in Shorts(es) : e.pic.frame_num = old.pic.frame_num}
    BY <1>3, <2>1 DEF EvictedUpTo
  <2> QED BY <2>2 DEF Apart, Shorts
<1>5. IsFiniteSet(es) /\ ~ WindowFits(es, MaxRefFrames)
  BY FramesCounted DEF WindowFits
<1>6. WindowFits(es \ {old}, MaxRefFrames)
  <2>1. es \ {old} \in Buffers(n) /\ Apart(es \ {old})
    BY DEF Buffers, Apart
  <2>2. Cardinality(es \ {old}) = Cardinality(es) - 1
    <3>1. old \in es
      BY DEF Shorts
    <3> QED BY <1>5, <3>1, FS_RemoveElement
  <2>3. Cardinality(FrameNums(es \ {old})) = Cardinality(es \ {old})
    BY <2>1, FramesCounted
  <2>4. Cardinality(FrameNums(es \ {old})) < MaxRefFrames
    BY <2>2, <2>3
  <2> QED BY <2>4 DEF WindowFits
<1>7. EvictedUpTo(es, 0) = {}
  BY <1>1 DEF EvictedUpTo, FrameNums, Shorts
<1>8. StopsAt(es, MaxRefFrames, old.pic.id)
  <2>1. old.pic.id \in Cuts(es)
    BY DEF Cuts
  <2>2. ASSUME NEW c \in Cuts(es), WindowFits(es \ EvictedUpTo(es, c), MaxRefFrames)
        PROVE  old.pic.id <= c
    <3>1. c # 0
      <4>1. es \ {} = es
        OBVIOUS
      <4> QED BY <1>5, <1>7, <2>2, <4>1
    <3> QED BY <3>1 DEF Cuts
  <2> QED BY <1>4, <1>6, <2>1, <2>2 DEF StopsAt
<1> QED BY <1>2, <1>4, <1>8, StopsThere

(* The window of the code is that of the standard (8.2.5.3): the first     *)
(* short-term entry is the picture of least FrameNumWrap.                  *)
LEMMA WindowFollows ==
    ASSUME NEW n, NEW es \in Buffers(n), Apart(es), Cardinality(es) <= MaxRefFrames,
           NEW frame_num \in 0..MaxFrameNum - 1, InOrder(es, frame_num), NEW p
    PROVE  RM!Slide(Marks(es, p), frame_num) = Marks(SlidingWindowMark(es, MaxRefFrames), p)
<1> USE DpbMarkingAssumption
<1> DEFINE m == Marks(es, p)
<1>1. RM!Total(m) = Cardinality(es) /\ Cardinality(es) \in Nat
  BY TotalCounted, FramesCounted
<1>2. \A e \in es : EntryIs(e)
  BY EntryKinds
<1>3. CASE Cardinality(es) < MaxRefFrames
  BY <1>1, <1>3, RoomLeft DEF RM!Slide
<1>4. CASE Cardinality(es) = MaxRefFrames
  <2> DEFINE s == {q \in ShortsOf(es) : \E r \in ShortsOf(es) :
                     RM!PicNum(r, frame_num) < RM!PicNum(q, frame_num)}
  <2>1. RM!Slide(m, frame_num) = MarkingOf(s, LongsOf(es), p)
    <3>1. RM!Slide(m, frame_num) = [m EXCEPT !.short = s]
      <4>1. PICK x : x = m
        OBVIOUS
      <4>2. ~ (RM!Total(x) < MaxRefFrames) /\ x.short = ShortsOf(es)
        BY <1>1, <1>4, <4>1, MarksParts
      <4>3. RM!Slide(x, frame_num)
              = [x EXCEPT !.short = {q \in x.short : \E r \in x.short :
                                       RM!PicNum(r, frame_num) < RM!PicNum(q, frame_num)}]
        BY ONLY <4>2 DEF RM!Slide
      <4> QED BY <4>1, <4>2, <4>3
    <3> HIDE DEF s
    <3> QED BY <3>1 DEF Marks, MarkingOf
  <2>2. CASE Shorts(es) = {}
    <3>1. ShortsOf(es) = {} /\ s = {}
      BY <2>2 DEF ShortsOf
    <3>2. SlidingWindowMark(es, MaxRefFrames) = es
      BY <2>2, RoomLeft
    <3> QED BY <2>1, <3>1, <3>2 DEF Marks
  <2>3. CASE Shorts(es) # {}
    <3>1. PICK old \in Shorts(es) : \A e \in Shorts(es) : old.pic.id <= e.pic.id
      <4> DEFINE I == {e.pic.id : e \in Shorts(es)}
      <4>1. I \in SUBSET Nat /\ I # {}
        BY <1>2, <2>3 DEF Shorts, EntryIs
      <4>2. PICK i \in I : \A j \in I : i <= j
        <5> HIDE DEF I
        <5> QED BY <4>1, LeastExists
      <4> QED BY <4>2
    <3>2. SlidingWindowMark(es, MaxRefFrames) = es \ {old}
      BY <1>4, <3>1, OldestGoes
    <3>3. LongsOf(es \ {old}) = LongsOf(es)
      <4>1. Longs(es \ {old}) = Longs(es)
        BY <1>2 DEF Longs, Shorts, EntryIs
      <4> QED BY <4>1 DEF LongsOf
    <3>4. ASSUME NEW e \in Shorts(es), NEW q, q = [id |-> e.pic.id, frame_num |-> e.pic.frame_num]
          PROVE  q \in s <=> e # old
      <4>1. \A r \in ShortsOf(es) : \E g \in Shorts(es) :
              RM!PicNum(r, frame_num) = RM!PicNum(g.pic, frame_num)
        <5> SUFFICES ASSUME NEW r \in ShortsOf(es)
                     PROVE  \E g \in Shorts(es) :
                              RM!PicNum(r, frame_num) = RM!PicNum(g.pic, frame_num)
          OBVIOUS
        <5>1. PICK g \in Shorts(es) : r = [id |-> g.pic.id, frame_num |-> g.pic.frame_num]
          BY DEF ShortsOf
        <5> QED BY <5>1 DEF RM!PicNum
      <4>2. PICK o : o = [id |-> old.pic.id, frame_num |-> old.pic.frame_num]
        OBVIOUS
      <4>3. /\ q \in ShortsOf(es) /\ o \in ShortsOf(es)
            /\ RM!PicNum(q, frame_num) = RM!PicNum(e.pic, frame_num)
            /\ RM!PicNum(o, frame_num) = RM!PicNum(old.pic, frame_num)
        BY <3>4, <4>2 DEF ShortsOf, RM!PicNum
      <4>4. \A g \in Shorts(es) : RM!PicNum(g.pic, frame_num) \in Int
        BY <1>2 DEF Shorts, EntryIs, RM!PicNum
      <4>5. \A g \in Shorts(es) : g # old => old.pic.id < g.pic.id
        <5> SUFFICES ASSUME NEW g \in Shorts(es), g # old PROVE old.pic.id < g.pic.id
          OBVIOUS
        <5>1. g.pic.id \in Nat /\ old.pic.id \in Nat /\ old.pic.id <= g.pic.id
          BY <1>2, <3>1 DEF Shorts, EntryIs
        <5>2. g.pic.id # old.pic.id
          BY DEF Apart, Shorts
        <5> QED BY <5>1, <5>2
      <4>6. \A g \in Shorts(es) :
              g # old => RM!PicNum(old.pic, frame_num) < RM!PicNum(g.pic, frame_num)
        BY <4>5 DEF InOrder
      <4>7. CASE e = old
        BY <4>1, <4>3, <4>4, <4>6, <4>7
      <4>8. CASE e # old
        BY <4>3, <4>6, <4>8
      <4> QED BY <4>7, <4>8
    <3>5. s = ShortsOf(es \ {old})
      <4>1. Shorts(es \ {old}) = Shorts(es) \ {old}
        BY DEF Shorts
      <4>2. s \subseteq ShortsOf(es)
        OBVIOUS
      <4> HIDE DEF s
      <4> QED BY <3>4, <4>1, <4>2 DEF ShortsOf
    <3> QED BY <2>1, <3>2, <3>3, <3>5 DEF Marks
  <2> QED BY <2>2, <2>3
<1> QED BY <1>1, <1>3, <1>4

-----------------------------------------------------------------------------
(* A reference picture.                                                    *)

(* What the stream knows of the marking is what the buffer marks.          *)
LEMMA MarkingIs ==
    ASSUME KnownByNumber
    PROVE  Marking = Marks(entries, plus1)
<1>1. {[id |-> e.pic.id, frame_num |-> numbers[e.pic.id]] : e \in Shorts(entries)}
        = ShortsOf(entries)
  <2>1. \A e \in Shorts(entries) : e.pic.frame_num = numbers[e.pic.id]
    BY DEF KnownByNumber, Shorts
  <2> QED BY <2>1 DEF ShortsOf
<1> QED BY <1>1 DEF Marking, Marks, MarkingOf, LongsOf

New == Entry(Current(FrameNum), ShortTerm)

\* The rules of the stream, and what it avoids, for the picture to come.
Allowed(cmds) ==
    /\ pics \in 1..MaxPics - 1
    /\ RM!Legal(Marking, FrameNum, pics + 1, cmds)
    /\ RM!Avoids(Marking, FrameNum, pics + 1, cmds)

(* The picture to come, as it is inserted (decoder.rs:384).                *)
LEMMA NewIs ==
    ASSUME Typed, pics < MaxPics
    PROVE  /\ New.pic = Current(FrameNum) /\ New.ref = ShortTerm
           /\ New.pic.id = pics + 1 /\ New.pic.frame_num = FrameNum
           /\ New.ref.kind # "long"
<1>1. FrameNum \in 0..MaxFrameNum - 1
  BY NextFrameNum DEF Typed
<1>2. Current(FrameNum).id = pics + 1 /\ Current(FrameNum).frame_num = FrameNum
  BY <1>1, CurrentTyped
<1>3. New.pic = Current(FrameNum) /\ New.ref = ShortTerm
  BY DEF New, Entry
<1> QED BY <1>2, <1>3 DEF ShortTerm

(* No picture of the buffer has the frame_num of the one to come: a        *)
(* short-term one may not, and a long-term one would have to be            *)
(* MaxFrameNum pictures old.                                               *)
LEMMA NumberIsNew ==
    ASSUME AllAvoided, IInv, NEW cmds, Allowed(cmds)
    PROVE  \A e \in entries : e.pic.frame_num # FrameNum
<1> USE DpbMarkingAssumption
<1>1. \A e \in entries : EntryIs(e) /\ e.pic.id <= pics
  BY EntryKinds DEF IInv, Typed, Buffers
<1>2. Marking = Marks(entries, plus1)
  BY MarkingIs DEF IInv
<1>3. /\ FrameNum = IF prev + 1 = MaxFrameNum THEN 0 ELSE prev + 1
      /\ prev \in 0..MaxFrameNum - 1 /\ pics \in Nat
  BY NextFrameNum DEF IInv, Typed
<1>4. ASSUME NEW e \in Shorts(entries) PROVE e.pic.frame_num # FrameNum
  <2>1. PICK q : q = [id |-> e.pic.id, frame_num |-> e.pic.frame_num]
    OBVIOUS
  <2>2. q \in Marking.short
    BY <1>2, <2>1, MarksParts DEF ShortsOf
  <2>3. q.frame_num # FrameNum
    BY <2>2 DEF Allowed, RM!Legal
  <2> QED BY <2>1, <2>3
<1>5. ASSUME NEW e \in Longs(entries) PROVE e.pic.frame_num # FrameNum
  <2>1. PICK q : q = [id |-> e.pic.id, idx |-> e.ref.idx]
    OBVIOUS
  <2>2. q \in Marking.long
    BY <1>2, <2>1, MarksParts DEF LongsOf
  <2>3. (pics + 1) - q.id < MaxFrameNum
    BY <2>2 DEF Allowed, RM!Avoids, AllAvoided
  <2>4. PICK i \in Nat, f \in 0..MaxFrameNum - 1 : i = e.pic.id /\ f = e.pic.frame_num
    BY <1>1 DEF Longs, EntryIs
  <2>5. (pics + 1) - i < MaxFrameNum /\ i <= pics
    BY <1>1, <2>1, <2>3, <2>4 DEF Longs
  <2>6. PICK d \in 0..pics - i : prev = f + d \/ prev = (f + d) - MaxFrameNum
    <3>1. e \in entries /\ pics - e.pic.id < MaxFrameNum
      BY <1>3, <2>4, <2>5 DEF Longs
    <3> QED BY <2>4, <3>1 DEF IInv, Near
  <2>7. d \in Nat /\ d + 1 < MaxFrameNum
    BY <1>3, <2>4, <2>5
  <2>8. f # FrameNum
    BY <1>3, <2>4, <2>6, <2>7
  <2> QED BY <2>4, <2>8
<1>6. \A e \in entries : e \in Shorts(entries) \/ e \in Longs(entries)
  BY <1>1 DEF EntryIs, Shorts, Longs
<1> QED BY <1>4, <1>5, <1>6

(* FrameNumWrap still grows with the rank, seen from the picture to come.  *)
LEMMA StillInOrder ==
    ASSUME IInv, \A e \in entries : e.pic.frame_num # FrameNum
    PROVE  InOrder(entries, FrameNum)
<1>1. \A e \in Shorts(entries) : e.pic.frame_num \in 0..MaxFrameNum - 1
                                 /\ e.pic.frame_num # FrameNum
  BY EntryKinds DEF IInv, Typed, Shorts, EntryIs
<1>2. /\ FrameNum = IF prev + 1 = MaxFrameNum THEN 0 ELSE prev + 1
      /\ prev \in 0..MaxFrameNum - 1
  BY NextFrameNum DEF IInv, Typed
<1>3. PICK s \in {0, MaxFrameNum} : \A e \in Shorts(entries) :
          RM!PicNum(e.pic, FrameNum) = RM!PicNum(e.pic, prev) - s
  <2>1. CASE prev + 1 = MaxFrameNum
    <3>1. \A e \in Shorts(entries) :
            RM!PicNum(e.pic, FrameNum) = RM!PicNum(e.pic, prev) - MaxFrameNum
      BY <1>1, <1>2, <2>1, DpbMarkingAssumption DEF RM!PicNum
    <3> QED BY <3>1
  <2>2. CASE prev + 1 # MaxFrameNum
    <3>1. \A e \in Shorts(entries) :
            RM!PicNum(e.pic, FrameNum) = RM!PicNum(e.pic, prev) - 0
      BY <1>1, <1>2, <2>2, DpbMarkingAssumption DEF RM!PicNum
    <3> QED BY <3>1
  <2> QED BY <2>1, <2>2
<1>4. \A e \in Shorts(entries) : RM!PicNum(e.pic, prev) \in Int
  BY <1>1, <1>2, DpbMarkingAssumption DEF RM!PicNum
<1>5. s \in Int
  BY DpbMarkingAssumption
<1>6. ASSUME NEW e \in Shorts(entries), NEW f \in Shorts(entries), e.pic.id < f.pic.id
      PROVE  RM!PicNum(e.pic, FrameNum) < RM!PicNum(f.pic, FrameNum)
  <2>1. RM!PicNum(e.pic, prev) < RM!PicNum(f.pic, prev)
    BY <1>6 DEF IInv, InOrder
  <2> QED BY <1>3, <1>4, <1>5, <2>1
<1> QED BY <1>6 DEF InOrder

(* The commands name pictures the code finds.                              *)
LEMMA NamesReach ==
    ASSUME AllAvoided, IInv, NEW cmds, Allowed(cmds)
    PROVE  /\ cmds \in Seq(RM!Commands)
           /\ SixIsLast(cmds)
           /\ \A k \in 1..Len(cmds) : Reaches(entries, FrameNum, cmds[k])
<1>1. cmds \in Seq(RM!Commands)
  BY DEF Allowed, RM!Legal
<1>2. SixIsLast(cmds)
  BY <1>1 DEF Allowed, RM!Legal, SixIsLast
<1>3. ASSUME NEW k \in 1..Len(cmds), cmds[k].op \in {1, 3}, NEW e \in Shorts(entries),
             RM!PicNum(e.pic, FrameNum) = PicNumNamed(FrameNum, cmds[k])
      PROVE  e.pic.frame_num <= FrameNum
  <2>1. PICK q : q = [id |-> e.pic.id, frame_num |-> e.pic.frame_num]
    OBVIOUS
  <2>2. q \in Marking.short
    <3>1. Marking = Marks(entries, plus1)
      BY MarkingIs DEF IInv
    <3> QED BY <2>1, <3>1, MarksParts DEF ShortsOf
  <2>3. q \in RM!Named(Marking, FrameNum, cmds[k])
    <3>1. RM!PicNum(q, FrameNum) = RM!PicNum(e.pic, FrameNum)
      BY <2>1 DEF RM!PicNum
    <3> QED BY <1>3, <2>2, <3>1 DEF RM!Named, PicNumNamed
  <2>4. k \in DOMAIN cmds
    BY <1>1
  <2>5. q.frame_num <= FrameNum
    BY <1>3, <2>3, <2>4 DEF Allowed, RM!Avoids, AllAvoided
  <2> QED BY <2>1, <2>5
<1> QED BY <1>1, <1>2, <1>3 DEF Reaches

(* A frame is inserted after the window has slid (dpb.rs:98-122).          *)
LEMMA FrameInserted ==
    ASSUME Typed, pics < MaxPics, NEW es
    PROVE  Insert(es, MaxRefFrames, Current(FrameNum), ShortTerm)
             = SlidingWindowMark(es, MaxRefFrames) \cup {New}
<1>1. FrameNum \in 0..MaxFrameNum - 1
  BY NextFrameNum DEF Typed
<1>2. Current(FrameNum).structure = "Frame"
  BY <1>1, CurrentTyped
<1>3. ~ CompletesPair(es, Current(FrameNum))
  BY <1>2 DEF CompletesPair
<1> QED BY <1>3 DEF Insert, New, Unused, ShortTerm

(* The new picture beside others.                                          *)
LEMMA Added ==
    ASSUME Typed, pics < MaxPics, NEW b \in Buffers(pics), Apart(b),
           \A e \in b : e.pic.frame_num # FrameNum
    PROVE  /\ Apart(b \cup {New})
           /\ Shorts(b \cup {New}) = Shorts(b) \cup {New}
           /\ ShortsOf(b \cup {New})
                = ShortsOf(b) \cup {[id |-> pics + 1, frame_num |-> FrameNum]}
           /\ LongsOf(b \cup {New}) = LongsOf(b)
<1>1. /\ New.ref = ShortTerm /\ New.pic.id = pics + 1 /\ New.pic.frame_num = FrameNum
      /\ New.ref.kind # "long"
  BY NewIs
<1>2. \A e \in b : e.pic.id # pics + 1
  <2>1. \A e \in b : e.pic.id \in Nat /\ e.pic.id <= pics
    BY DEF Buffers, StoredPics
  <2> QED BY <2>1 DEF Typed
<1>3. Apart(b \cup {New})
  BY <1>1, <1>2 DEF Apart
<1>4. Shorts(b \cup {New}) = Shorts(b) \cup {New} /\ Longs(b \cup {New}) = Longs(b)
  BY <1>1 DEF Shorts, Longs
<1>5. ShortsOf(b \cup {New}) = ShortsOf(b) \cup {[id |-> pics + 1, frame_num |-> FrameNum]}
  <2>1. ShortsOf(b \cup {New}) = {[id |-> e.pic.id, frame_num |-> e.pic.frame_num] :
                                    e \in Shorts(b) \cup {New}}
    BY <1>4 DEF ShortsOf
  <2> QED BY <1>1, <2>1 DEF ShortsOf
<1> QED BY <1>3, <1>4, <1>5 DEF LongsOf

(* The second loop does nothing before command 6 (decoder.rs:387-391).     *)
LEMMA NothingAfter ==
    ASSUME NEW n \in Nat, NEW es \in Buffers(n), NEW frame_num,
           NEW cmds \in Seq(RM!Commands), SixIsLast(cmds)
    PROVE  \A k \in 0..Len(cmds) :
             k = 0 \/ cmds[k].op # 6 => LoopAfter(es, frame_num, cmds)[k] = es
<1>1. PICK l \in Nat : l = Len(cmds)
  OBVIOUS
<1>2. PICK B : B = LoopAfter(es, frame_num, cmds)
  OBVIOUS
<1>3. B[0] = es /\ \A k \in 1..l : B[k] = AfterInsert(B[k - 1], frame_num, cmds[k])
  <2>1. EachAfter(B, n, es, frame_num, cmds)
    BY <1>2, AfterOneByOne
  <2> QED BY <1>1, <2>1 DEF EachAfter
<1> DEFINE S == {k \in 0..l : k = 0 \/ cmds[k].op # 6 => B[k] = es}
<1>4. 0 \in S
  BY <1>3
<1>5. ASSUME NEW k \in 1..l, k - 1 \in S PROVE k \in S
  <2>1. k - 1 = 0 \/ cmds[k - 1].op # 6
    BY <1>1 DEF SixIsLast
  <2>2. B[k - 1] = es
    BY <1>5, <2>1
  <2> QED BY <1>3, <2>2 DEF AfterInsert
<1>6. \A k \in 0..l : k \in S
  <2> HIDE DEF S
  <2> QED BY <1>4, <1>5, EveryIteration
<1> QED BY <1>1, <1>2, <1>6

\* es is the buffer of the picture to come, and marks what a says.
Results(es, a) ==
    /\ Apart(es)
    /\ \A x \in es : x.pic = New.pic \/ \E e \in entries : x.pic = e.pic
    /\ Shorts(es) \subseteq Shorts(entries) \cup {New}
    /\ a = Marks(es, a.plus1)
    /\ a.plus1 \in Plus1s

(* AddShort on a marking in three parts.                                   *)
LEMMA AddShortIs ==
    ASSUME NEW es, NEW p, NEW cur, NEW frame_num
    PROVE  RM!AddShort(Marks(es, p), cur, frame_num)
             = MarkingOf(ShortsOf(es) \cup {[id |-> cur, frame_num |-> frame_num]},
                         LongsOf(es), p)
<1>1. PICK x : x = Marks(es, p)
  OBVIOUS
<1>2. PICK n : n = [id |-> cur, frame_num |-> frame_num]
  OBVIOUS
<1>3. RM!AddShort(x, cur, frame_num) = [x EXCEPT !.short = x.short \cup {n}]
  BY ONLY <1>2 DEF RM!AddShort
<1>4. x = [short |-> ShortsOf(es), long |-> LongsOf(es), plus1 |-> p]
  BY <1>1 DEF Marks, MarkingOf
<1>5. [x EXCEPT !.short = x.short \cup {n}] = MarkingOf(ShortsOf(es) \cup {n}, LongsOf(es), p)
  BY <1>4 DEF MarkingOf
<1> QED BY <1>1, <1>2, <1>3, <1>5

(* The new picture joins a buffer that marks what a says.                  *)
LEMMA ShortAdded ==
    ASSUME IInv, pics < MaxPics, NEW b \in Buffers(pics), Apart(b),
           \A e \in b : e.pic.frame_num # FrameNum,
           \A x \in b : \E e \in entries : x.pic = e.pic,
           Shorts(b) \subseteq Shorts(entries),
           NEW p \in Plus1s, NEW a, a = RM!AddShort(Marks(b, p), pics + 1, FrameNum)
    PROVE  Results(b \cup {New}, a) /\ a.plus1 = p
<1>1. /\ Apart(b \cup {New})
      /\ Shorts(b \cup {New}) = Shorts(b) \cup {New}
      /\ ShortsOf(b \cup {New})
           = ShortsOf(b) \cup {[id |-> pics + 1, frame_num |-> FrameNum]}
      /\ LongsOf(b \cup {New}) = LongsOf(b)
  BY Added DEF IInv
<1>2. a = MarkingOf(ShortsOf(b \cup {New}), LongsOf(b \cup {New}), p)
  <2>1. a = MarkingOf(ShortsOf(b) \cup {[id |-> pics + 1, frame_num |-> FrameNum]},
                      LongsOf(b), p)
    BY AddShortIs
  <2> QED BY <1>1, <2>1
<1>3. a = Marks(b \cup {New}, p)
  BY <1>2 DEF Marks
<1>4. a.plus1 = p
  BY <1>3, MarksParts
<1> QED BY <1>1, <1>3, <1>4 DEF Results

(* A picture without commands: the window slides (8.2.5.3).                *)
LEMMA WindowResults ==
    ASSUME AllAvoided, IInv, Allowed(<<>>)
    PROVE  LET a == RM!AfterReference(Marking, FrameNum, pics + 1, <<>>)
           IN  /\ Results(Finalize(entries, Current(FrameNum), ShortTerm, <<>>), a)
               /\ a.plus1 = RM!Applied(Marking, FrameNum, pics + 1, <<>>).plus1
<1> DEFINE cmds == <<>>
           b == SlidingWindowMark(entries, MaxRefFrames)
           a == RM!AfterReference(Marking, FrameNum, pics + 1, cmds)
<1> USE DpbMarkingAssumption
<1>1. /\ pics \in Nat /\ pics < MaxPics /\ pics + 1 \in 1..MaxPics
      /\ entries \in Buffers(pics) /\ plus1 \in Plus1s /\ Apart(entries)
      /\ Cardinality(entries) <= MaxRefFrames /\ Typed
  BY DEF IInv, Typed, TotalWithinCapacity, Allowed
<1>2. FrameNum \in 0..MaxFrameNum - 1 /\ Current(FrameNum).frame_num = FrameNum
  <2>1. FrameNum \in 0..MaxFrameNum - 1
    BY <1>1, NextFrameNum DEF Typed
  <2> QED BY <1>1, <2>1, CurrentTyped
<1>3. \A e \in entries : e.pic.frame_num # FrameNum
  BY NumberIsNew
<1>4. InOrder(entries, FrameNum)
  BY <1>3, StillInOrder
<1>5. Marking = Marks(entries, plus1)
  BY MarkingIs DEF IInv
<1>6. cmds \in Seq(RM!Commands) /\ Len(cmds) = 0 /\ SixIsLast(cmds)
  BY DEF SixIsLast
<1>7. LoopBefore(entries, FrameNum, cmds)[0] = entries
  <2> HIDE DEF cmds
  <2>1. EachBefore(LoopBefore(entries, FrameNum, cmds), pics, entries, FrameNum, cmds)
    BY <1>1, <1>6, BeforeOneByOne
  <2> QED BY <2>1 DEF EachBefore
<1>8. b \subseteq entries
  BY DEF SlidingWindowMark
<1>9. Insert(entries, MaxRefFrames, Current(FrameNum), ShortTerm) = b \cup {New}
  BY <1>1, FrameInserted
<1>10. b \cup {New} \in Buffers(pics + 1)
  <2>1. Current(FrameNum) \in StoredPics /\ Current(FrameNum).id = pics + 1
    BY <1>1, <1>2, CurrentTyped
  <2> QED BY <1>1, <1>9, <2>1, InsertTyped
<1>11. Finalize(entries, Current(FrameNum), ShortTerm, cmds) = b \cup {New}
  <2> HIDE DEF b, cmds
  <2>1. LoopAfter(b \cup {New}, FrameNum, cmds)[0] = b \cup {New}
    <3>1. PICK n \in Nat : n = pics + 1
      BY <1>1
    <3>2. PICK x \in Buffers(n) : x = b \cup {New}
      BY <1>10, <3>1
    <3>3. EachAfter(LoopAfter(x, FrameNum, cmds), n, x, FrameNum, cmds)
      BY <1>6, AfterOneByOne
    <3> QED BY <3>2, <3>3 DEF EachAfter
  <2> QED BY <1>2, <1>6, <1>7, <1>9, <2>1 DEF Finalize
<1>12. a = RM!AddShort(Marks(b, plus1), pics + 1, FrameNum)
  <2>1. RM!Slide(Marks(entries, plus1), FrameNum) = Marks(b, plus1)
    BY <1>1, <1>2, <1>4, WindowFollows
  <2> QED BY <1>5, <2>1 DEF RM!AfterReference
<1>13. Results(b \cup {New}, a) /\ a.plus1 = plus1
  <2>1. b \in Buffers(pics) /\ Apart(b)
    BY <1>1, <1>8 DEF Buffers, Apart
  <2>2. /\ \A e \in b : e.pic.frame_num # FrameNum
        /\ \A x \in b : \E e \in entries : x.pic = e.pic
        /\ Shorts(b) \subseteq Shorts(entries)
    BY <1>3, <1>8 DEF Shorts
  <2> HIDE DEF a, b
  <2> QED BY <1>1, <1>12, <2>1, <2>2, ShortAdded
<1>14. RM!Applied(Marking, FrameNum, pics + 1, cmds).plus1 = plus1
  <2>1. Marking \in RM!Markings
    BY <1>1, MarkingTyped
  <2> HIDE DEF cmds
  <2>2. RM!AfterEach(Marking, FrameNum, pics + 1, cmds)[0] = Marking
    <3>1. EachApplied(RM!AfterEach(Marking, FrameNum, pics + 1, cmds), Marking, FrameNum,
                      pics + 1, cmds)
      BY <1>1, <1>6, <2>1, AppliedOneByOne
    <3> QED BY <3>1 DEF EachApplied
  <2> QED BY <1>5, <1>6, <2>2, MarksParts DEF RM!Applied
<1> HIDE DEF b
<1> QED BY <1>11, <1>13, <1>14

\* Both sides after k commands, while command 6 has not come.
InStep(b, a) ==
    /\ b \in Buffers(pics)
    /\ Follows(b, a, entries)
    /\ a \in RM!Markings

(* The commands of the picture to come, one by one.                        *)
LEMMA CommandsInStep ==
    ASSUME AllAvoided, IInv, NEW cmds, Allowed(cmds)
    PROVE  \A k \in 0..Len(cmds) :
             k = 0 \/ cmds[k].op # 6 =>
               InStep(LoopBefore(entries, FrameNum, cmds)[k],
                      RM!AfterEach(Marking, FrameNum, pics + 1, cmds)[k])
<1>1. /\ pics \in Nat /\ pics + 1 \in 1..MaxPics
      /\ entries \in Buffers(pics) /\ plus1 \in Plus1s /\ Apart(entries)
  BY DpbMarkingAssumption DEF IInv, Typed, Allowed
<1>2. FrameNum \in 0..MaxFrameNum - 1
  BY NextFrameNum DEF IInv, Typed
<1>3. Marking = Marks(entries, plus1)
  BY MarkingIs DEF IInv
<1>4. /\ cmds \in Seq(RM!Commands) /\ SixIsLast(cmds)
      /\ \A k \in 1..Len(cmds) : Reaches(entries, FrameNum, cmds[k])
  BY NamesReach
<1>5. Marking \in RM!Markings
  BY MarkingTyped DEF IInv
<1>6. \A k \in 0..Len(cmds) :
        k = 0 \/ cmds[k].op # 6 =>
          Follows(LoopBefore(entries, FrameNum, cmds)[k],
                  RM!AfterEach(Marks(entries, plus1), FrameNum, pics + 1, cmds)[k], entries)
  BY <1>1, <1>2, <1>4, LoopFollows
<1>7. EachBefore(LoopBefore(entries, FrameNum, cmds), pics, entries, FrameNum, cmds)
  BY <1>1, <1>4, BeforeOneByOne
<1>8. EachApplied(RM!AfterEach(Marking, FrameNum, pics + 1, cmds), Marking, FrameNum,
                  pics + 1, cmds)
  BY <1>1, <1>4, <1>5, AppliedOneByOne
<1>9. \A k \in 0..Len(cmds) :
        /\ LoopBefore(entries, FrameNum, cmds)[k] \in Buffers(pics)
        /\ RM!AfterEach(Marking, FrameNum, pics + 1, cmds)[k] \in RM!Markings
  BY <1>7, <1>8 DEF EachBefore, EachApplied
<1> QED BY <1>3, <1>6, <1>9 DEF InStep

(* With commands, room has been made before the picture is inserted.       *)
LEMMA JoinsOthers ==
    ASSUME AllAvoided, IInv, NEW cmds, Allowed(cmds), NEW b, NEW a, InStep(b, a)
    PROVE  /\ b \in Buffers(pics) /\ Apart(b)
           /\ \A e \in b : e.pic.frame_num # FrameNum
           /\ \A x \in b : \E e \in entries : x.pic = e.pic
           /\ Shorts(b) \subseteq Shorts(entries)
           /\ a = Marks(b, a.plus1) /\ a.plus1 \in Plus1s
           /\ Results(b \cup {New}, RM!AddShort(a, pics + 1, FrameNum))
           /\ RM!AddShort(a, pics + 1, FrameNum).plus1 = a.plus1
           /\ RM!Total(a) = Cardinality(b)
           /\ RM!Total(RM!AddShort(a, pics + 1, FrameNum)) = Cardinality(b) + 1
<1>1. /\ b \in Buffers(pics) /\ Apart(b)
      /\ \A x \in b : \E e \in entries : x.pic = e.pic
      /\ Shorts(b) \subseteq Shorts(entries)
      /\ a = Marks(b, a.plus1) /\ a.plus1 \in Plus1s
  BY MarkingParts DEF InStep, Follows
<1>2. \A e \in b : e.pic.frame_num # FrameNum
  BY <1>1, NumberIsNew
<1>3. pics < MaxPics /\ pics \in Nat
  BY DpbMarkingAssumption DEF Allowed, IInv, Typed
<1>4. PICK r : r = RM!AddShort(a, pics + 1, FrameNum)
  OBVIOUS
<1>5. PICK p \in Plus1s : p = a.plus1
  BY <1>1
<1>6. r = RM!AddShort(Marks(b, p), pics + 1, FrameNum)
  BY <1>1, <1>4, <1>5
<1>7. Results(b \cup {New}, r) /\ r.plus1 = p
  BY <1>1, <1>2, <1>3, <1>6, ShortAdded
<1>8. RM!Total(a) = Cardinality(b) /\ IsFiniteSet(b)
  BY <1>1, TotalCounted, FramesCounted
<1>9. Cardinality(b \cup {New}) = Cardinality(b) + 1
  <2>1. New \notin b
    <3>1. New.pic.frame_num = FrameNum
      BY <1>3, NewIs DEF IInv
    <3> QED BY <1>2, <3>1
  <2> QED BY <1>8, <2>1, FS_AddElement
<1>10. b \cup {New} \in Buffers(pics + 1)
  <2>1. b \in Buffers(pics + 1)
    BY <1>1, <1>3, LaterBuffer
  <2>2. /\ Current(FrameNum) \in StoredPics /\ Current(FrameNum).id = pics + 1
    BY <1>3, NextFrameNum, CurrentTyped DEF IInv, Typed
  <2>3. New \in [pic : StoredPics, ref : Statuses] /\ New.pic.id <= pics + 1
    BY <1>3, <2>2 DEF New, Entry, Statuses
  <2> QED BY <2>1, <2>3 DEF Buffers
<1>11. RM!Total(r) = Cardinality(b \cup {New})
  <2>1. Apart(b \cup {New}) /\ r = Marks(b \cup {New}, p)
    BY <1>7 DEF Results
  <2> QED BY <1>10, <2>1, TotalCounted
<1> QED BY <1>1, <1>2, <1>4, <1>5, <1>7, <1>8, <1>9, <1>11

(* A picture whose commands do not make it a long-term picture.            *)
LEMMA AdaptiveResults ==
    ASSUME AllAvoided, IInv, NEW cmds, Allowed(cmds), cmds # <<>>, ~ RM!Has(cmds, 6)
    PROVE  LET a == RM!AfterReference(Marking, FrameNum, pics + 1, cmds)
           IN  /\ Results(Finalize(entries, Current(FrameNum), ShortTerm, cmds), a)
               /\ a.plus1 = RM!Applied(Marking, FrameNum, pics + 1, cmds).plus1
<1> DEFINE a == RM!AfterReference(Marking, FrameNum, pics + 1, cmds)
<1>1. PICK l : l = Len(cmds)
  OBVIOUS
<1>2. PICK b : b = LoopBefore(entries, FrameNum, cmds)[l]
  OBVIOUS
<1>3. PICK m : m = RM!AfterEach(Marking, FrameNum, pics + 1, cmds)[l]
  OBVIOUS
<1>4. cmds \in Seq(RM!Commands) /\ SixIsLast(cmds)
  BY NamesReach
<1>5. l \in Nat /\ l # 0 /\ \A k \in 1..l : cmds[k].op # 6 /\ cmds[k].op # 5
  <2>1. \A k \in 1..Len(cmds) : cmds[k] \in RM!Commands
    BY <1>4
  <2>2. \A k \in 1..Len(cmds) : cmds[k].op # 5
    BY <2>1, CommandKinds DEF CommandIs, AllAvoided
  <2> QED BY <1>1, <1>4, <2>2 DEF RM!Has
<1>6. InStep(b, m)
  BY <1>1, <1>2, <1>3, <1>5, CommandsInStep
<1>7. /\ b \in Buffers(pics) /\ Apart(b)
      /\ Results(b \cup {New}, RM!AddShort(m, pics + 1, FrameNum))
      /\ RM!AddShort(m, pics + 1, FrameNum).plus1 = m.plus1
      /\ RM!Total(RM!AddShort(m, pics + 1, FrameNum)) = Cardinality(b) + 1
  BY <1>6, JoinsOthers
<1>8. RM!Applied(Marking, FrameNum, pics + 1, cmds) = m
  BY <1>1, <1>3 DEF RM!Applied
<1>9. RM!KnownAs(FrameNum, cmds) = FrameNum
  BY <1>1, <1>4, <1>5 DEF RM!KnownAs, RM!Has
<1>10. a = RM!AddShort(m, pics + 1, FrameNum)
  BY <1>8, <1>9 DEF RM!AfterReference
<1>11. Cardinality(b) < MaxRefFrames
  <2>1. RM!Total(a) <= MaxRefFrames
    BY DEF Allowed, RM!Legal
  <2>2. Cardinality(b) \in Nat
    BY <1>7, FramesCounted
  <2> QED BY <1>7, <1>10, <2>1, <2>2, DpbMarkingAssumption
<1>12. /\ pics \in Nat /\ pics < MaxPics /\ FrameNum \in 0..MaxFrameNum - 1 /\ Typed
  BY NextFrameNum, DpbMarkingAssumption DEF Allowed, IInv, Typed
<1>13. Insert(b, MaxRefFrames, Current(FrameNum), ShortTerm) = b \cup {New}
  BY <1>7, <1>11, <1>12, RoomLeft, FrameInserted
<1>14. Finalize(entries, Current(FrameNum), ShortTerm, cmds) = b \cup {New}
  <2>1. Current(FrameNum) \in StoredPics /\ Current(FrameNum).id = pics + 1
        /\ Current(FrameNum).frame_num = FrameNum
    BY <1>12, CurrentTyped
  <2>2. PICK n \in Nat : n = pics + 1
    BY <1>12
  <2>3. PICK x : x = b \cup {New}
    OBVIOUS
  <2>4. x \in Buffers(n)
    BY <1>7, <1>12, <1>13, <2>1, <2>2, <2>3, InsertTyped
  <2>5. LoopAfter(x, FrameNum, cmds)[l] = x
    BY <1>1, <1>4, <1>5, <2>4, NothingAfter
  <2> QED BY <1>1, <1>2, <1>13, <2>1, <2>3, <2>5 DEF Finalize
<1> HIDE DEF a
<1> QED BY <1>7, <1>8, <1>10, <1>14 DEF a

\* x is b with the new picture beside it, a long-term one of index i.
HasJoinedAsLong(x, b, i) ==
    /\ Apart(x)
    /\ \A y \in x : y.pic = New.pic \/ \E e \in entries : y.pic = e.pic
    /\ Shorts(x) = Shorts(b)
    /\ LongsOf(x) = {q \in LongsOf(b) : q.idx # i} \cup {[id |-> pics + 1, idx |-> i]}

(* The picture of the last command 6 becomes a long-term picture after it  *)
(* has been inserted (decoder.rs:387-391, dpb.rs:672-691).                 *)
LEMMA CurrentPromoted ==
    ASSUME IInv, pics < MaxPics, NEW b \in Buffers(pics), Apart(b),
           \A e \in b : e.pic.frame_num # FrameNum,
           \A x \in b : \E e \in entries : x.pic = e.pic,
           Shorts(b) \subseteq Shorts(entries),
           NEW i \in Nat, NEW x, x = MarkCurrentAsLongTerm(b \cup {New}, i, FrameNum)
    PROVE  HasJoinedAsLong(x, b, i)
<1> DEFINE d == b \cup {New}
           S == {e \in Shorts(WithoutIndex(d, i)) : e.pic.frame_num = FrameNum}
<1>1. /\ New.pic = Current(FrameNum) /\ New.ref = ShortTerm
      /\ New.pic.id = pics + 1 /\ New.pic.frame_num = FrameNum /\ pics \in Nat
      /\ Typed
  BY NewIs, DpbMarkingAssumption DEF IInv, Typed
<1>2. /\ Apart(d) /\ Shorts(d) = Shorts(b) \cup {New} /\ LongsOf(d) = LongsOf(b)
  BY <1>1, Added
<1>3. \A e \in d : EntryIs(e)
  <2>1. /\ Current(FrameNum) \in StoredPics /\ FrameNum \in 0..MaxFrameNum - 1
    BY <1>1, NextFrameNum, CurrentTyped DEF Typed
  <2>2. EntryIs(New)
    <3>1. New = Entry(New.pic, New.ref)
      BY <1>1 DEF New
    <3> QED BY <1>1, <2>1, <3>1 DEF EntryIs, StoredPics, ShortTerm
  <2> QED BY <2>2, EntryKinds
<1>4. S = {New}
  <2>1. Shorts(WithoutIndex(d, i)) = Shorts(d)
    <3> HIDE DEF d
    <3> QED BY <1>3, FreedLongs
  <2>2. \A e \in Shorts(b) : e.pic.frame_num # FrameNum
    BY DEF Shorts
  <2> QED BY <1>1, <1>2, <2>1, <2>2
<1>5. LastOf(S) = {New}
  <2> HIDE DEF S
  <2> QED BY <1>1, <1>4, SingleEnds
<1>6. x = Promote(WithoutIndex(d, i), {New}, i)
  BY <1>5 DEF MarkCurrentAsLongTerm
<1>7. /\ Apart(x)
      /\ \A y \in x : \E e \in d : y.pic = e.pic
      /\ Shorts(x) = Shorts(d) \ {New}
      /\ LongsOf(x) = {q \in LongsOf(d) : q.idx # i}
                        \cup {[id |-> e.pic.id, idx |-> i] : e \in {New}}
  <2>1. PICK T : T = {New}
    OBVIOUS
  <2>2. T \in SUBSET Shorts(d) /\ \A e, f \in T : e = f
    BY <1>2, <2>1
  <2> HIDE DEF d
  <2>3. x = Promote(WithoutIndex(d, i), T, i)
    BY <1>6, <2>1
  <2>4. HasPromoted(x, d, T, i)
    BY <1>2, <1>3, <2>2, <2>3, Promoted
  <2> QED BY <2>1, <2>4 DEF HasPromoted
<1>8. New \notin Shorts(b)
  <2>1. New \notin b
    BY <1>1
  <2> QED BY <2>1 DEF Shorts
<1>9. \A y \in x : y.pic = New.pic \/ \E e \in entries : y.pic = e.pic
  <2> SUFFICES ASSUME NEW y \in x PROVE y.pic = New.pic \/ \E e \in entries : y.pic = e.pic
    OBVIOUS
  <2>1. PICK e \in d : y.pic = e.pic
    BY <1>7
  <2>2. e = New \/ e \in b
    OBVIOUS
  <2> QED BY <2>1, <2>2
<1>10. Shorts(x) = Shorts(b)
  BY <1>2, <1>7, <1>8
<1>11. LongsOf(x) = {q \in LongsOf(b) : q.idx # i} \cup {[id |-> pics + 1, idx |-> i]}
  BY <1>1, <1>2, <1>7
<1> QED BY <1>7, <1>9, <1>10, <1>11 DEF HasJoinedAsLong

(* A picture whose last command makes it a long-term picture.              *)
LEMMA SixResults ==
    ASSUME AllAvoided, IInv, NEW cmds, Allowed(cmds), RM!Has(cmds, 6)
    PROVE  LET a == RM!AfterReference(Marking, FrameNum, pics + 1, cmds)
           IN  /\ Results(Finalize(entries, Current(FrameNum), ShortTerm, cmds), a)
               /\ a.plus1 = RM!Applied(Marking, FrameNum, pics + 1, cmds).plus1
<1> DEFINE a == RM!AfterReference(Marking, FrameNum, pics + 1, cmds)
           A == RM!AfterEach(Marking, FrameNum, pics + 1, cmds)
           B == LoopBefore(entries, FrameNum, cmds)
<1>1. cmds \in Seq(RM!Commands) /\ SixIsLast(cmds)
  BY NamesReach
<1>2. PICK l \in Nat \ {0} : l = Len(cmds) /\ cmds[l].op = 6
  <2>1. PICK k \in DOMAIN cmds : cmds[k].op = 6
    BY DEF RM!Has
  <2>2. k \in 1..Len(cmds) /\ k = Len(cmds)
    BY <1>1, <2>1 DEF SixIsLast
  <2> QED BY <1>1, <2>1, <2>2
<1>3. l - 1 \in 0..l /\ l \in 1..l /\ (l - 1 = 0 \/ cmds[l - 1].op # 6)
  BY <1>1, <1>2 DEF SixIsLast
<1>4. PICK c \in RM!Commands : c = cmds[l] /\ c.op = 6
  BY <1>1, <1>2
<1>5. c.idx \in LongIdxSet /\ c.idx \in Nat
  BY <1>4, CommandKinds, DpbMarkingAssumption DEF CommandIs
<1>6. /\ pics \in Nat /\ pics < MaxPics /\ pics + 1 \in 1..MaxPics
      /\ FrameNum \in 0..MaxFrameNum - 1 /\ Typed /\ entries \in Buffers(pics)
  BY NextFrameNum, DpbMarkingAssumption DEF Allowed, IInv, Typed
<1>7. PICK b : b = B[l - 1]
  OBVIOUS
<1>8. PICK m : m = A[l - 1]
  OBVIOUS
<1>9. InStep(b, m)
  BY <1>2, <1>3, <1>7, <1>8, CommandsInStep
<1>10. /\ b \in Buffers(pics) /\ Apart(b)
       /\ \A e \in b : e.pic.frame_num # FrameNum
       /\ \A x \in b : \E e \in entries : x.pic = e.pic
       /\ Shorts(b) \subseteq Shorts(entries)
       /\ m = Marks(b, m.plus1) /\ m.plus1 \in Plus1s
       /\ RM!Total(m) = Cardinality(b)
  BY <1>9, JoinsOthers
<1>11. B[l] = b
  <2> HIDE DEF B
  <2>1. EachBefore(B, pics, entries, FrameNum, cmds)
    BY <1>1, <1>6, BeforeOneByOne DEF B
  <2>2. B[l] = BeforeInsert(b, FrameNum, c)
    BY <1>2, <1>3, <1>4, <1>7, <2>1 DEF EachBefore
  <2> QED BY <1>4, <2>2 DEF BeforeInsert
<1>12. Insert(b, MaxRefFrames, Current(FrameNum), ShortTerm) = b \cup {New}
  <2>1. Cardinality(b) < MaxRefFrames
    <3>1. RM!Total(m) < MaxRefFrames
      BY <1>2, <1>8 DEF Allowed, RM!Avoids, AllAvoided
    <3> QED BY <1>10, <3>1
  <2> QED BY <1>6, <1>10, <2>1, RoomLeft, FrameInserted
<1>13. PICK d : d = b \cup {New}
  OBVIOUS
<1>14. PICK x : x = MarkCurrentAsLongTerm(d, c.idx, FrameNum)
  OBVIOUS
<1>15. /\ Current(FrameNum) \in StoredPics /\ Current(FrameNum).id = pics + 1
       /\ Current(FrameNum).frame_num = FrameNum
  BY <1>6, CurrentTyped
<1>16. Finalize(entries, Current(FrameNum), ShortTerm, cmds) = x
  <2>1. PICK n \in Nat : n = pics + 1
    BY <1>6
  <2>2. d \in Buffers(n)
    BY <1>6, <1>10, <1>12, <1>13, <1>15, <2>1, InsertTyped
  <2>3. PICK f : f = LoopAfter(d, FrameNum, cmds)
    OBVIOUS
  <2>4. f[l - 1] = d
    BY <1>1, <1>2, <1>3, <2>2, <2>3, NothingAfter
  <2>5. EachAfter(f, n, d, FrameNum, cmds)
    BY <1>1, <2>2, <2>3, AfterOneByOne
  <2>6. f[l] = AfterInsert(d, FrameNum, c)
    BY <1>2, <1>3, <1>4, <2>4, <2>5 DEF EachAfter
  <2>7. f[l] = x
    BY <1>4, <1>14, <2>6 DEF AfterInsert
  <2> HIDE DEF B
  <2> QED BY <1>2, <1>11, <1>12, <1>13, <1>15, <2>3, <2>7 DEF Finalize, B
<1>17. /\ Apart(x)
       /\ \A y \in x : y.pic = New.pic \/ \E e \in entries : y.pic = e.pic
       /\ Shorts(x) = Shorts(b)
       /\ LongsOf(x) = {q \in LongsOf(b) : q.idx # c.idx}
                         \cup {[id |-> pics + 1, idx |-> c.idx]}
  <2>1. PICK i \in Nat : i = c.idx
    BY <1>5
  <2>2. x = MarkCurrentAsLongTerm(b \cup {New}, i, FrameNum)
    BY <1>13, <1>14, <2>1
  <2>3. HasJoinedAsLong(x, b, i)
    BY <1>6, <1>10, <2>2, CurrentPromoted
  <2> QED BY <2>1, <2>3 DEF HasJoinedAsLong
<1>18. a = A[l] /\ RM!Applied(Marking, FrameNum, pics + 1, cmds) = A[l]
  <2>1. cmds # <<>>
    BY <1>2
  <2> QED BY <1>2, <2>1 DEF RM!AfterReference, RM!Applied
<1>19. Effect(m, FrameNum, pics + 1, c, a)
  <2> HIDE DEF A, a
  <2>1. Marking \in RM!Markings
    BY <1>6, MarkingTyped
  <2>2. EachApplied(A, Marking, FrameNum, pics + 1, cmds)
    BY <1>1, <1>6, <2>1, AppliedOneByOne DEF A
  <2>3. a = RM!Apply(m, FrameNum, pics + 1, c)
    BY <1>2, <1>3, <1>4, <1>8, <1>18, <2>2 DEF EachApplied
  <2>4. m \in RM!Markings
    BY <1>9 DEF InStep
  <2> QED BY <2>3, <2>4, ApplyIs
<1> HIDE DEF a, A, B
<1>20. a = MarkingOf(m.short,
                     RM!Free(m, c.idx) \cup {[id |-> pics + 1, idx |-> c.idx]}, m.plus1)
  BY <1>4, <1>19 DEF Effect
<1>21. m.short = ShortsOf(b) /\ m.long = LongsOf(b)
  BY <1>10, MarksParts
<1>22. ShortsOf(x) = ShortsOf(b)
  BY <1>17 DEF ShortsOf
<1>23. RM!Free(m, c.idx) = {q \in LongsOf(b) : q.idx # c.idx}
  BY <1>21 DEF RM!Free
<1>24. a = MarkingOf(ShortsOf(x), LongsOf(x), m.plus1)
  BY <1>17, <1>20, <1>21, <1>22, <1>23
<1>25. a = Marks(x, a.plus1) /\ a.plus1 \in Plus1s
  BY <1>10, <1>24 DEF Marks, MarkingOf
<1>26. Results(x, a)
  BY <1>10, <1>17, <1>25 DEF Results
<1> QED BY <1>16, <1>18, <1>26 DEF a

-----------------------------------------------------------------------------
(* The steps.                                                              *)

(* What the standard has marked after a step.                              *)
LEMMA MarkingAfter ==
    ASSUME KnownByNumber'
    PROVE  Marking' = Marks(entries', plus1')
<1>1. {[id |-> e.pic.id, frame_num |-> numbers'[e.pic.id]] : e \in Shorts(entries')}
        = ShortsOf(entries')
  <2>1. \A e \in Shorts(entries') : e.pic.frame_num = numbers'[e.pic.id]
    BY DEF KnownByNumber, Shorts
  <2> QED BY <2>1 DEF ShortsOf
<1> QED BY <1>1 DEF Marking, Marks, MarkingOf, LongsOf

(* Without command 5 a picture keeps its frame_num.                        *)
LEMMA KeepsNumber ==
    ASSUME AllAvoided, NEW cmds \in Seq(RM!Commands), NEW frame_num
    PROVE  RM!KnownAs(frame_num, cmds) = frame_num
<1>1. \A k \in DOMAIN cmds : cmds[k] \in RM!Commands
  OBVIOUS
<1>2. \A k \in DOMAIN cmds : cmds[k].op # 5
  BY <1>1, CommandKinds DEF CommandIs, AllAvoided
<1> QED BY <1>2 DEF RM!KnownAs, RM!Has

(* After a reference picture: what is left of the invariant, once the      *)
(* buffer is known to mark what the standard marks.                        *)
LEMMA ReferenceKeeps ==
    ASSUME AllAvoided, IInv, NEW cmds, FinalizeReference(cmds), NEW a,
           a = RM!AfterReference(Marking, FrameNum, pics + 1, cmds),
           Results(entries', a),
           a.plus1 = RM!Applied(Marking, FrameNum, pics + 1, cmds).plus1
    PROVE  IInv' /\ Marking' = a
<1>1. Allowed(cmds)
  BY DEF FinalizeReference, Allowed
<1>2. cmds \in Seq(RM!Commands) /\ \A e \in entries : e.pic.frame_num # FrameNum
  BY <1>1, NamesReach, NumberIsNew
<1>3. /\ pics' = pics + 1 /\ prev' = FrameNum /\ plus1' = a.plus1
      /\ numbers' = [numbers EXCEPT ![pics + 1] = FrameNum]
  BY <1>2, KeepsNumber DEF FinalizeReference
<1>4. /\ pics \in Nat /\ pics < MaxPics /\ pics + 1 \in 1..MaxPics
      /\ entries \in Buffers(pics) /\ Typed /\ prev \in 0..MaxFrameNum - 1
      /\ FrameNum \in 0..MaxFrameNum - 1
      /\ FrameNum = IF prev + 1 = MaxFrameNum THEN 0 ELSE prev + 1
      /\ numbers \in [1..MaxPics -> 0..MaxFrameNum - 1]
  BY <1>1, NextFrameNum, DpbMarkingAssumption DEF Allowed, IInv, Typed
<1>5. Typed'
  BY <1>4, ReferenceTyped
<1>6. New.pic.id = pics + 1 /\ New.pic.frame_num = FrameNum /\ New.ref = ShortTerm
  BY <1>4, NewIs
<1>7. \A e \in entries : /\ e.pic.id \in 1..MaxPics /\ e.pic.id <= pics
                         /\ e.pic.frame_num \in 0..MaxFrameNum - 1
                         /\ e.pic.frame_num = numbers[e.pic.id]
  BY <1>4 DEF Buffers, StoredPics, IInv, KnownByNumber
<1>8. \A x \in entries' : x.pic = New.pic \/ \E e \in entries : x.pic = e.pic
  BY DEF Results
<1>9. KnownByNumber'
  <2> SUFFICES ASSUME NEW x \in entries' PROVE x.pic.frame_num = numbers'[x.pic.id]
    BY DEF KnownByNumber
  <2>1. CASE x.pic = New.pic
    BY <1>3, <1>4, <1>6, <2>1
  <2>2. ASSUME NEW e \in entries, x.pic = e.pic PROVE x.pic.frame_num = numbers'[x.pic.id]
    BY <1>3, <1>4, <1>7, <2>2
  <2> QED BY <1>8, <2>1, <2>2
<1>10. InOrder(entries', prev')
  <2> SUFFICES ASSUME NEW e \in Shorts(entries'), NEW f \in Shorts(entries'),
                      e.pic.id < f.pic.id
               PROVE  RM!PicNum(e.pic, FrameNum) < RM!PicNum(f.pic, FrameNum)
    BY <1>3 DEF InOrder
  <2>1. e \in Shorts(entries) \cup {New} /\ f \in Shorts(entries) \cup {New}
    BY DEF Results
  <2>2. CASE e \in Shorts(entries) /\ f \in Shorts(entries)
    <3>1. InOrder(entries, FrameNum)
      BY <1>2, StillInOrder
    <3> QED BY <2>2, <3>1 DEF InOrder
  <2>3. CASE e \in Shorts(entries) /\ f = New
    <3>1. RM!PicNum(f.pic, FrameNum) = FrameNum
      BY <1>4, <1>6, <2>3 DEF RM!PicNum
    <3>2. e.pic.frame_num \in 0..MaxFrameNum - 1 /\ e.pic.frame_num # FrameNum
      BY <1>2, <1>7, <2>3 DEF Shorts
    <3> QED BY <1>4, <3>1, <3>2, DpbMarkingAssumption DEF RM!PicNum
  <2>4. CASE e = New
    <3>1. f.pic.id <= pics + 1 /\ f.pic.id \in Nat
      BY <1>4, <1>6, <1>7, <2>1 DEF Shorts
    <3> QED BY <1>4, <1>6, <2>4, <3>1
  <2> QED BY <2>1, <2>2, <2>3, <2>4
<1>11. ASSUME NEW x \in entries' PROVE Near(x)'
  <2>1. CASE x.pic = New.pic
    <3>1. x.pic.frame_num = FrameNum /\ x.pic.id = pics + 1
      BY <1>6, <2>1
    <3>2. 0 \in 0..(pics + 1) - x.pic.id /\ FrameNum = x.pic.frame_num + 0
      BY <1>4, <3>1
    <3> QED BY <1>3, <3>2 DEF Near
  <2>2. ASSUME NEW e \in entries, x.pic = e.pic PROVE Near(x)'
    <3>1. PICK i \in Nat, n \in Nat : i = e.pic.id /\ n = e.pic.frame_num /\ i <= pics
                                      /\ n < MaxFrameNum
      <4>1. e.pic.id \in Nat /\ e.pic.frame_num \in Nat /\ e.pic.frame_num < MaxFrameNum
            /\ e.pic.id <= pics
        BY <1>7, DpbMarkingAssumption
      <4> QED BY <4>1
    <3>2. SUFFICES ASSUME (pics + 1) - i < MaxFrameNum
                   PROVE  \E d \in 0..(pics + 1) - i :
                            FrameNum = n + d \/ FrameNum = (n + d) - MaxFrameNum
      BY <1>3, <2>2, <3>1 DEF Near
    <3>3. pics - i < MaxFrameNum
      BY <1>4, <3>1, <3>2, DpbMarkingAssumption
    <3>4. PICK d \in 0..pics - i : prev = n + d \/ prev = (n + d) - MaxFrameNum
      BY <3>1, <3>3 DEF IInv, Near
    <3>5. d + 1 \in 0..(pics + 1) - i
      BY <1>4, <3>1, <3>4
    <3>6. FrameNum = n + (d + 1) \/ FrameNum = (n + (d + 1)) - MaxFrameNum
      <4>1. PICK N \in Nat : N = MaxFrameNum
        BY DpbMarkingAssumption
      <4>2. d \in Nat /\ d < N /\ n < N
        BY <1>4, <3>1, <3>3, <3>4, <4>1
      <4>3. CASE prev + 1 = N
        <5>1. FrameNum = 0
          BY <1>4, <4>1, <4>3
        <5>2. prev = n + d
          BY <1>4, <3>1, <3>4, <4>1, <4>2, <4>3
        <5> QED BY <3>1, <4>1, <4>2, <4>3, <5>1, <5>2
      <4>4. CASE prev + 1 # N
        <5>1. FrameNum = prev + 1
          BY <1>4, <4>1, <4>4
        <5>2. CASE prev = n + d
          BY ONLY n \in Nat, <4>2, <5>1, <5>2
        <5>3. CASE prev = (n + d) - N
          BY ONLY n \in Nat, N \in Nat, <4>1, <4>2, <5>1, <5>3
        <5> QED BY <3>4, <4>1, <5>2, <5>3
      <4> QED BY <4>3, <4>4
    <3> QED BY <3>5, <3>6
  <2> QED BY <1>8, <2>1, <2>2
<1>12. Apart(entries') /\ a = Marks(entries', a.plus1)
  BY DEF Results
<1>13. TotalWithinCapacity'
  <2>1. RM!Total(a) = Cardinality(entries')
    <3>1. entries' \in Buffers(pics + 1)
      BY <1>3, <1>5 DEF Typed
    <3>2. PICK x : x = entries'
      OBVIOUS
    <3>3. RM!Total(Marks(x, a.plus1)) = Cardinality(x)
      BY <1>12, <3>1, <3>2, TotalCounted
    <3> QED BY <1>12, <3>2, <3>3
  <2>2. RM!Total(a) <= MaxRefFrames
    BY <1>1 DEF Allowed, RM!Legal
  <2> QED BY <2>1, <2>2 DEF TotalWithinCapacity
<1>14. Marking' = a
  BY <1>3, <1>9, <1>12, MarkingAfter
<1> QED BY <1>5, <1>9, <1>10, <1>11, <1>12, <1>13, <1>14 DEF IInv

(* A reference picture.                                                    *)
LEMMA ReferenceStep ==
    ASSUME AllAvoided, IInv, NEW cmds, FinalizeReference(cmds)
    PROVE  IInv' /\ Marking' = RM!AfterReference(Marking, FrameNum, pics + 1, cmds)
<1>1. PICK a : a = RM!AfterReference(Marking, FrameNum, pics + 1, cmds)
  OBVIOUS
<1>2. Allowed(cmds)
  BY DEF FinalizeReference, Allowed
<1>3. entries' = Finalize(entries, Current(FrameNum), ShortTerm, cmds)
  BY DEF FinalizeReference
<1>4. Results(entries', a)
      /\ a.plus1 = RM!Applied(Marking, FrameNum, pics + 1, cmds).plus1
  <2>1. CASE cmds = <<>>
    BY <1>1, <1>2, <1>3, <2>1, WindowResults
  <2>2. CASE cmds # <<>> /\ ~ RM!Has(cmds, 6)
    BY <1>1, <1>2, <1>3, <2>2, AdaptiveResults
  <2>3. CASE RM!Has(cmds, 6)
    BY <1>1, <1>2, <1>3, <2>3, SixResults
  <2> QED BY <2>1, <2>2, <2>3
<1> QED BY <1>1, <1>4, ReferenceKeeps

(* An IDR picture: the buffer holds that picture only (8.2.5.1).           *)
LEMMA IdrStep ==
    ASSUME AllAvoided, IInv, NEW flag \in BOOLEAN, FinalizeIdr(flag)
    PROVE  IInv' /\ Marking' = RM!AfterIdr(pics + 1, flag)
<1> DEFINE ref == IF flag THEN LongTerm(0) ELSE ShortTerm
<1>1. /\ pics < MaxPics /\ pics \in Nat /\ pics + 1 \in 1..MaxPics /\ Typed
      /\ pics' = pics + 1 /\ prev' = 0 /\ plus1' = (IF flag THEN 1 ELSE 0)
      /\ numbers' = [numbers EXCEPT ![pics + 1] = 0]
      /\ numbers \in [1..MaxPics -> 0..MaxFrameNum - 1]
  BY DpbMarkingAssumption DEF FinalizeIdr, IInv, Typed
<1>2. Typed'
  BY <1>1, IdrTyped
<1>3. Current(0).id = pics + 1 /\ Current(0).frame_num = 0
  BY <1>1 DEF Current, Picture
<1> PICK x : x = Entry(Current(0), ref)
  OBVIOUS
<1>4. entries' = {x}
  <2>1. SlidingWindowMark({}, MaxRefFrames) = {}
    BY DEF SlidingWindowMark
  <2>2. ref # Unused
    BY DEF Unused, ShortTerm, LongTerm
  <2> QED BY <2>1, <2>2 DEF FinalizeIdr, Insert, Clear
<1>5. x.pic = Current(0) /\ x.ref = ref
  BY DEF Entry
<1>6. KnownByNumber'
  BY <1>1, <1>3, <1>4, <1>5 DEF KnownByNumber
<1>7. Apart(entries') /\ InOrder(entries', prev')
  <2>1. \A e, f \in entries' : e = f /\ e.pic.id = pics + 1
    BY <1>3, <1>4, <1>5
  <2>2. ~ (pics + 1 < pics + 1)
    BY <1>1
  <2> QED BY <2>1, <2>2 DEF Apart, InOrder, Shorts
<1>8. \A e \in entries' : Near(e)'
  <2> SUFFICES Near(x)'
    BY <1>4
  <2>1. 0 \in 0..(pics + 1) - x.pic.id /\ 0 = x.pic.frame_num + 0
    BY <1>1, <1>3, <1>5
  <2> QED BY <1>1, <2>1 DEF Near
<1>9. TotalWithinCapacity'
  <2>1. Cardinality(entries') = 1
    BY <1>4, FS_Singleton
  <2> QED BY <2>1, DpbMarkingAssumption DEF TotalWithinCapacity
<1>10. Marking' = RM!AfterIdr(pics + 1, flag)
  <2>1. Marking' = Marks({x}, plus1')
    BY <1>4, <1>6, MarkingAfter
  <2>2. CASE flag
    <3>1. x.ref # ShortTerm /\ x.ref.kind = "long" /\ x.ref.idx = 0
      BY <1>5, <2>2 DEF LongTerm, ShortTerm
    <3>2. ShortsOf({x}) = {} /\ LongsOf({x}) = {[id |-> pics + 1, idx |-> 0]}
      <4>1. Shorts({x}) = {} /\ Longs({x}) = {x}
        BY <3>1 DEF Shorts, Longs
      <4> QED BY <1>3, <1>5, <3>1, <4>1 DEF ShortsOf, LongsOf
    <3> QED BY <1>1, <2>1, <2>2, <3>2 DEF Marks, MarkingOf, RM!AfterIdr
  <2>3. CASE ~ flag
    <3>1. x.ref = ShortTerm /\ x.ref.kind # "long"
      BY <1>5, <2>3 DEF LongTerm, ShortTerm
    <3>2. ShortsOf({x}) = {[id |-> pics + 1, frame_num |-> 0]} /\ LongsOf({x}) = {}
      <4>1. Shorts({x}) = {x} /\ Longs({x}) = {}
        BY <3>1 DEF Shorts, Longs
      <4> QED BY <1>3, <1>5, <4>1 DEF ShortsOf, LongsOf
    <3> QED BY <1>1, <2>1, <2>3, <3>2 DEF Marks, MarkingOf, RM!AfterIdr
  <2> QED BY <2>2, <2>3
<1> QED BY <1>2, <1>6, <1>7, <1>8, <1>9, <1>10 DEF IInv

(* A picture no other refers to changes nothing (dpb.rs:708-711).          *)
LEMMA NonReferenceStep ==
    ASSUME AllAvoided, IInv, FinalizeNonReference
    PROVE  IInv' /\ Marking' = Marking
<1>1. /\ pics < MaxPics /\ pics \in Nat /\ pics + 1 \in 1..MaxPics /\ Typed
      /\ pics' = pics + 1 /\ prev' = prev /\ plus1' = plus1
      /\ numbers' = [numbers EXCEPT ![pics + 1] = FrameNum]
      /\ numbers \in [1..MaxPics -> 0..MaxFrameNum - 1]
      /\ entries \in Buffers(pics)
  BY DpbMarkingAssumption DEF FinalizeNonReference, IInv, Typed
<1>2. Typed'
  BY <1>1, NonReferenceTyped
<1>3. entries' = entries
  <2>1. PICK cmds : cmds = <<>>
    OBVIOUS
  <2>2. cmds \in Seq(RM!Commands) /\ Len(cmds) = 0 /\ SixIsLast(cmds)
    BY <2>1 DEF SixIsLast
  <2>3. ASSUME NEW frame_num
        PROVE  /\ LoopBefore(entries, frame_num, cmds)[0] = entries
               /\ LoopAfter(entries, frame_num, cmds)[0] = entries
    <3>1. EachBefore(LoopBefore(entries, frame_num, cmds), pics, entries, frame_num, cmds)
      BY <1>1, <2>2, BeforeOneByOne
    <3>2. EachAfter(LoopAfter(entries, frame_num, cmds), pics, entries, frame_num, cmds)
      BY <1>1, <2>2, AfterOneByOne
    <3> QED BY <3>1, <3>2 DEF EachBefore, EachAfter
  <2>4. entries' = Finalize(entries, Current(FrameNum), Unused, cmds)
    BY <2>1 DEF FinalizeNonReference
  <2> QED BY <2>2, <2>3, <2>4 DEF Finalize, Insert
<1>4. \A e \in entries : /\ e.pic.id \in 1..MaxPics /\ e.pic.id <= pics
                         /\ e.pic.frame_num = numbers[e.pic.id]
  BY <1>1 DEF Buffers, StoredPics, IInv, KnownByNumber
<1>5. KnownByNumber'
  <2> SUFFICES ASSUME NEW e \in entries PROVE e.pic.frame_num = numbers'[e.pic.id]
    BY <1>3 DEF KnownByNumber
  <2> QED BY <1>1, <1>4
<1>6. \A e \in entries' : Near(e)'
  <2> SUFFICES ASSUME NEW e \in entries PROVE Near(e)'
    BY <1>3
  <2>1. PICK i \in Nat : i = e.pic.id /\ i <= pics
    BY <1>4
  <2>2. SUFFICES ASSUME (pics + 1) - i < MaxFrameNum
                 PROVE  \E d \in 0..(pics + 1) - i :
                          \/ prev = e.pic.frame_num + d
                          \/ prev = (e.pic.frame_num + d) - MaxFrameNum
    BY <1>1, <2>1 DEF Near
  <2>3. pics - i < MaxFrameNum
    BY <1>1, <2>1, <2>2, DpbMarkingAssumption
  <2>4. PICK d \in 0..pics - i : \/ prev = e.pic.frame_num + d
                                 \/ prev = (e.pic.frame_num + d) - MaxFrameNum
    BY <2>1, <2>3 DEF IInv, Near
  <2>5. d \in 0..(pics + 1) - i
    BY <1>1, <2>1
  <2> QED BY <2>4, <2>5
<1>7. Apart(entries') /\ InOrder(entries', prev') /\ TotalWithinCapacity'
  BY <1>1, <1>3 DEF IInv, TotalWithinCapacity
<1>8. Marking' = Marking
  <2>1. Marking' = Marks(entries', plus1')
    BY <1>5, MarkingAfter
  <2>2. Marking = Marks(entries, plus1)
    BY MarkingIs DEF IInv
  <2> QED BY <1>1, <1>3, <2>1, <2>2
<1> QED BY <1>2, <1>5, <1>6, <1>7, <1>8 DEF IInv

(* The invariant holds at the start.                                       *)
LEMMA InvariantInit == Init => IInv
<1> SUFFICES ASSUME Init PROVE IInv
  OBVIOUS
<1>1. entries = {} /\ Typed
  BY TypedInit DEF Init
<1>2. TotalWithinCapacity
  BY <1>1, FS_EmptySet, DpbMarkingAssumption DEF TotalWithinCapacity
<1> QED BY <1>1, <1>2 DEF IInv, KnownByNumber, Apart, InOrder, Shorts

(* Every step keeps the invariant, and is one of the standard.             *)
LEMMA InvariantStep ==
    ASSUME AllAvoided, IInv, [Next]_vars
    PROVE  IInv' /\ [RM!Next]_RM!vars
<1>1. ASSUME NEW flag \in {FALSE, IdrLong}, FinalizeIdr(flag)
      PROVE  IInv' /\ RM!IdrPicture(flag)
  <2>1. flag \in BOOLEAN
    BY DpbMarkingAssumption
  <2>2. IInv' /\ Marking' = RM!AfterIdr(pics + 1, flag)
    BY <1>1, <2>1, IdrStep
  <2> QED BY <1>1, <2>2 DEF FinalizeIdr, RM!IdrPicture
<1>2. ASSUME NEW cmds, FinalizeReference(cmds)
      PROVE  IInv' /\ RM!ReferencePicture(commands')
  <2>1. IInv' /\ Marking' = RM!AfterReference(Marking, FrameNum, pics + 1, cmds)
    BY <1>2, ReferenceStep
  <2> QED BY <1>2, <2>1 DEF FinalizeReference, RM!ReferencePicture, FrameNum
<1>3. ASSUME FinalizeNonReference
      PROVE  IInv' /\ RM!NonReferencePicture
  <2>1. IInv' /\ Marking' = Marking
    BY <1>3, NonReferenceStep
  <2> QED BY <1>3, <2>1 DEF FinalizeNonReference, RM!NonReferencePicture
<1>4. ASSUME UNCHANGED vars
      PROVE  IInv' /\ UNCHANGED RM!vars
  <2>1. Typed' /\ KnownByNumber'
    BY <1>4 DEF vars, IInv, Typed, KnownByNumber
  <2>2. Apart(entries') /\ InOrder(entries', prev') /\ TotalWithinCapacity'
    BY <1>4 DEF vars, IInv, TotalWithinCapacity
  <2>3. \A e \in entries' : Near(e)'
    BY <1>4 DEF vars, IInv, Near
  <2>4. Marking' = Marking
    BY <1>4 DEF vars, Marking
  <2>5. UNCHANGED RM!vars
    BY <1>4, <2>4 DEF vars, RM!vars
  <2> QED BY <2>1, <2>2, <2>3, <2>5 DEF IInv
<1> QED BY <1>1, <1>2, <1>3, <1>4 DEF Next, RM!Next

-----------------------------------------------------------------------------
(* The results.                                                            *)

(* Where the three situations are avoided, the buffer never holds more     *)
(* frames than the SPS allows: with commands the stream makes the room,    *)
(* without them the window does (sliding_window_mark, dpb.rs:556-594).     *)
THEOREM CapacityKept ==
    ASSUME AllAvoided
    PROVE  Spec => []TotalWithinCapacity
<1>1. IInv /\ [Next]_vars => IInv'
  BY InvariantStep
<1>2. IInv => TotalWithinCapacity
  BY DEF IInv
<1> QED BY <1>1, <1>2, InvariantInit, PTL DEF Spec

(* Decoder::finalize_pending marks the pictures that the standard marks,   *)
(* each as short-term or under the same long-term index: every step of the *)
(* code is one of RefMarking, or changes nothing that RefMarking sees.     *)
THEOREM MarkingImplemented ==
    ASSUME AllAvoided
    PROVE  Spec => ImplementsMarking
<1>1. Init => RM!Init
  <2> SUFFICES ASSUME Init PROVE RM!Init
    OBVIOUS
  <2>1. ShortsOf({}) = {} /\ LongsOf({}) = {}
    BY DEF ShortsOf, LongsOf, Shorts, Longs
  <2>2. Marking = Marks(entries, plus1)
    BY MarkingIs, InvariantInit DEF IInv
  <2>3. Marking = [short |-> {}, long |-> {}, plus1 |-> 0]
    BY <2>1, <2>2 DEF Init, Marks, MarkingOf
  <2> QED BY <2>3 DEF Init, RM!Init
<1>2. IInv /\ [Next]_vars => IInv' /\ [RM!Next]_RM!vars
  BY InvariantStep
<1> QED BY <1>1, <1>2, InvariantInit, PTL DEF Spec, ImplementsMarking, RM!Spec

(* The pictures of a marking are those of the buffer.                      *)
LEMMA MarkedStored ==
    ASSUME NEW n, NEW es \in Buffers(n), NEW p
    PROVE  /\ \A q \in Marks(es, p).short : \E e \in es : e.pic.id = q.id
           /\ \A e \in es : \/ \E q \in Marks(es, p).short : q.id = e.pic.id
                            \/ \E q \in Marks(es, p).long : q.id = e.pic.id
<1>1. Marks(es, p).short = ShortsOf(es) /\ Marks(es, p).long = LongsOf(es)
  BY MarksParts
<1>2. \A q \in ShortsOf(es) : \E e \in es : e.pic.id = q.id
  <2> SUFFICES ASSUME NEW q \in ShortsOf(es) PROVE \E e \in es : e.pic.id = q.id
    OBVIOUS
  <2>1. PICK e \in Shorts(es) : q = [id |-> e.pic.id, frame_num |-> e.pic.frame_num]
    BY DEF ShortsOf
  <2> QED BY <2>1 DEF Shorts
<1>3. ASSUME NEW e \in es
      PROVE  \/ \E q \in ShortsOf(es) : q.id = e.pic.id
             \/ \E q \in LongsOf(es) : q.id = e.pic.id
  <2>1. EntryIs(e)
    BY EntryKinds
  <2>2. CASE e.ref = ShortTerm
    <3>1. PICK q : q = [id |-> e.pic.id, frame_num |-> e.pic.frame_num]
      OBVIOUS
    <3>2. q \in ShortsOf(es) /\ q.id = e.pic.id
      BY <2>2, <3>1 DEF ShortsOf, Shorts
    <3> QED BY <3>2
  <2>3. CASE e.ref.kind = "long"
    <3>1. PICK q : q = [id |-> e.pic.id, idx |-> e.ref.idx]
      OBVIOUS
    <3>2. q \in LongsOf(es) /\ q.id = e.pic.id
      BY <2>3, <3>1 DEF LongsOf, Longs
    <3> QED BY <3>2
  <2> QED BY <2>1, <2>2, <2>3 DEF EntryIs
<1> QED BY <1>1, <1>2, <1>3

(* With commands: the marking after them, and the picture itself.          *)
LEMMA AdaptiveMarking ==
    ASSUME AllAvoided, IInv, NEW cmds, FinalizeReference(cmds), cmds # <<>>,
           NEW m, m = RM!Applied(Marking, FrameNum, pics + 1, cmds)
    PROVE  /\ Marking'.long = m.long
           /\ m.short \subseteq Marking'.short
           /\ \A q \in Marking'.short : q \in m.short \/ q.id = pics + 1
<1>1. Marking' = IF RM!Has(cmds, 6) THEN m
                 ELSE RM!AddShort(m, pics + 1, RM!KnownAs(FrameNum, cmds))
  <2>1. Marking' = RM!AfterReference(Marking, FrameNum, pics + 1, cmds)
    BY ReferenceStep
  <2> QED BY <2>1 DEF RM!AfterReference
<1>2. m \in RM!Markings
  <2>1. cmds \in Seq(RM!Commands) /\ pics + 1 \in 1..MaxPics
    BY DpbMarkingAssumption DEF FinalizeReference, RM!Legal, IInv, Typed
  <2>2. Marking \in RM!Markings
    BY MarkingTyped DEF IInv
  <2>3. EachApplied(RM!AfterEach(Marking, FrameNum, pics + 1, cmds), Marking, FrameNum,
                    pics + 1, cmds)
    BY <2>1, <2>2, AppliedOneByOne
  <2>4. Len(cmds) \in Nat
    BY <2>1
  <2> QED BY <2>3, <2>4 DEF EachApplied, RM!Applied
<1>3. m = [short |-> m.short, long |-> m.long, plus1 |-> m.plus1]
  BY <1>2, MarkingParts DEF MarkingOf
<1>4. CASE ~ RM!Has(cmds, 6)
  <2>1. PICK q : q = [id |-> pics + 1, frame_num |-> RM!KnownAs(FrameNum, cmds)]
    OBVIOUS
  <2>2. q.id = pics + 1
    BY <2>1
  <2>3. Marking' = [m EXCEPT !.short = m.short \cup {q}]
    BY <1>1, <1>4, <2>1 DEF RM!AddShort
  <2>4. Marking'.short = m.short \cup {q} /\ Marking'.long = m.long
    BY <1>3, <2>3
  <2> QED BY <2>2, <2>4
<1> QED BY <1>1, <1>4

(* A picture that comes with commands removes only what they remove: the   *)
(* window does not slide of its own accord (dpb.rs:98-122).                *)
THEOREM NothingElseEvicted ==
    ASSUME AllAvoided
    PROVE  Spec => AdaptiveEvictsNothingElse
<1> DEFINE Kept == commands' # <<>> =>
                     \A p \in RM!Applied(Marking, FrameNum, pics + 1, commands').short :
                       \E e \in entries' : e.pic.id = p.id
<1>1. IInv /\ [Next]_vars => IInv' /\ [Kept]_vars
  <2> SUFFICES ASSUME IInv, [Next]_vars PROVE IInv' /\ [Kept]_vars
    OBVIOUS
  <2>1. IInv'
    BY InvariantStep
  <2>2. ASSUME NEW cmds, FinalizeReference(cmds) PROVE Kept
    <3> SUFFICES ASSUME cmds # <<>>,
                        NEW p \in RM!Applied(Marking, FrameNum, pics + 1, cmds).short
                 PROVE  \E e \in entries' : e.pic.id = p.id
      BY <2>2 DEF FinalizeReference
    <3>1. p \in Marking'.short
      BY <2>2, AdaptiveMarking
    <3>2. Marking' = Marks(entries', plus1') /\ entries' \in Buffers(pics')
      BY <2>1, MarkingAfter DEF IInv, Typed
    <3> QED BY <3>1, <3>2, MarkedStored
  <2>3. ASSUME NEW flag, FinalizeIdr(flag) PROVE Kept
    BY <2>3 DEF FinalizeIdr
  <2>4. ASSUME FinalizeNonReference PROVE Kept
    BY <2>4 DEF FinalizeNonReference
  <2>5. Next => Kept
    <3> HIDE DEF Kept
    <3> QED BY <2>2, <2>3, <2>4 DEF Next
  <2> QED BY <2>1, <2>5
<1> QED BY <1>1, InvariantInit, PTL DEF Spec, AdaptiveEvictsNothingElse

\* The picture of rank id is no reference in m.
Without(m, id) == (\A q \in m.short : q.id # id) /\ (\A q \in m.long : q.id # id)

(* No command brings a picture back.                                       *)
LEMMA StaysAway ==
    ASSUME NEW m \in RM!Markings, NEW frame_num, NEW cur, NEW c \in RM!Commands,
           NEW id, cur # id, Without(m, id)
    PROVE  Without(RM!Apply(m, frame_num, cur, c), id)
<1>1. PICK a : a = RM!Apply(m, frame_num, cur, c)
  OBVIOUS
<1>2. Effect(m, frame_num, cur, c, a)
  BY <1>1, ApplyIs
<1>3. c.op \in 1..6
  BY CommandKinds DEF CommandIs
<1>4. ASSUME NEW s, NEW l, NEW p, a = MarkingOf(s, l, p),
             \A q \in s : q.id # id, \A q \in l : q.id # id
      PROVE  Without(a, id)
  BY <1>4 DEF MarkingOf, Without
<1>5. (\A q \in m.short : q.id # id) /\ (\A q \in m.long : q.id # id)
  BY DEF Without
<1>6. \A q \in RM!Free(m, c.idx) : q.id # id
  BY <1>5 DEF RM!Free
<1>7. CASE c.op = 1
  <2>1. a = MarkingOf(m.short \ RM!Named(m, frame_num, c), m.long, m.plus1)
    BY <1>2, <1>7 DEF Effect
  <2> QED BY <1>1, <1>4, <1>5, <2>1
<1>8. CASE c.op = 2
  <2>1. a = MarkingOf(m.short, RM!Free(m, c.idx), m.plus1)
    BY <1>2, <1>8 DEF Effect
  <2> QED BY <1>1, <1>4, <1>5, <1>6, <2>1
<1>9. CASE c.op = 3
  <2>1. PICK s : s = m.short \ RM!Named(m, frame_num, c)
    OBVIOUS
  <2>2. PICK l : l = RM!Free(m, c.idx) \cup NowLong(m, frame_num, c)
    OBVIOUS
  <2>3. a = MarkingOf(s, l, m.plus1)
    BY <1>2, <1>9, <2>1, <2>2 DEF Effect
  <2>4. \A q \in NowLong(m, frame_num, c) : q.id # id
    BY <1>5 DEF NowLong, RM!Named
  <2>5. (\A q \in s : q.id # id) /\ (\A q \in l : q.id # id)
    BY <1>5, <1>6, <2>1, <2>2, <2>4
  <2> QED BY <1>1, <1>4, <2>3, <2>5
<1>10. CASE c.op = 4
  <2>1. a = MarkingOf(m.short, {p \in m.long : p.idx < c.plus1}, c.plus1)
    BY <1>2, <1>10 DEF Effect
  <2> QED BY <1>1, <1>4, <1>5, <2>1
<1>11. CASE c.op = 5
  <2>1. a = MarkingOf({}, {}, 0)
    BY <1>2, <1>11 DEF Effect
  <2> QED BY <1>1, <1>4, <2>1
<1>12. CASE c.op = 6
  <2>1. PICK q : q = [id |-> cur, idx |-> c.idx]
    OBVIOUS
  <2>2. q.id # id
    BY <2>1
  <2>3. a = MarkingOf(m.short, RM!Free(m, c.idx) \cup {q}, m.plus1)
    BY <1>2, <1>12, <2>1 DEF Effect
  <2> QED BY <1>1, <1>4, <1>5, <1>6, <2>2, <2>3
<1> QED BY <1>3, <1>7, <1>8, <1>9, <1>10, <1>11, <1>12

(* The picture a legal op 1 names is no reference after it: a command      *)
(* before it cannot have taken it, since then op 1 would name no picture.  *)
LEMMA NamedGoes ==
    ASSUME AllAvoided, IInv, NEW cmds, Allowed(cmds),
           NEW k \in 1..Len(cmds), cmds[k].op = 1,
           NEW p \in RM!Named(Marking, FrameNum, cmds[k])
    PROVE  Without(RM!AfterEach(Marking, FrameNum, pics + 1, cmds)[k], p.id)
<1> DEFINE A == RM!AfterEach(Marking, FrameNum, pics + 1, cmds)
           x == PicNumNamed(FrameNum, cmds[k])
<1>1. /\ cmds \in Seq(RM!Commands) /\ SixIsLast(cmds)
      /\ Reaches(entries, FrameNum, cmds[k])
  BY NamesReach
<1>2. PICK c \in RM!Commands : c = cmds[k] /\ c.op = 1
  BY <1>1
<1>3. /\ pics + 1 \in 1..MaxPics /\ FrameNum \in 0..MaxFrameNum - 1
      /\ entries \in Buffers(pics) /\ Apart(entries) /\ Marking \in RM!Markings
      /\ Marking = Marks(entries, plus1)
  BY NextFrameNum, MarkingTyped, MarkingIs, DpbMarkingAssumption DEF Allowed, IInv, Typed
<1>4. k - 1 \in 0..Len(cmds) /\ (k - 1 = 0 \/ cmds[k - 1].op # 6)
  <2>1. PICK l \in Nat : l = Len(cmds)
    BY <1>1
  <2> QED BY <1>1, <2>1 DEF SixIsLast
<1>5. PICK b : b = LoopBefore(entries, FrameNum, cmds)[k - 1]
  OBVIOUS
<1>6. PICK m : m = A[k - 1]
  OBVIOUS
<1>7. /\ b \in Buffers(pics) /\ Apart(b) /\ Shorts(b) \subseteq Shorts(entries)
      /\ m = Marks(b, m.plus1) /\ m \in RM!Markings
  <2>1. InStep(b, m)
    BY <1>4, <1>5, <1>6, CommandsInStep
  <2> QED BY <2>1 DEF InStep, Follows
<1>8. m.short = ShortsOf(b) /\ m.long = LongsOf(b)
  BY <1>7, MarksParts
<1>9. RM!Named(m, FrameNum, c) = {q \in ShortsOf(b) : q.frame_num = x}
  <2>1. Reaches(b, FrameNum, c)
    BY <1>1, <1>2, <1>7 DEF Reaches
  <2> QED BY <1>2, <1>3, <1>7, <2>1, NumberNamed
<1>10. p \in ShortsOf(entries) /\ p.frame_num = x
  BY <1>1, <1>2, <1>3, NumberNamed
<1>11. PICK q \in RM!Named(m, FrameNum, c) : TRUE
  <2>1. k \in DOMAIN cmds
    BY <1>1
  <2> QED BY <1>2, <1>6, <2>1 DEF Allowed, RM!Legal, RM!LegalCommand
<1> HIDE DEF A, x
<1>12. PICK e \in Shorts(entries) : p = [id |-> e.pic.id, frame_num |-> e.pic.frame_num]
  BY <1>10 DEF ShortsOf
<1>13. PICK g \in Shorts(b) : q = [id |-> g.pic.id, frame_num |-> g.pic.frame_num]
  BY <1>9 DEF ShortsOf
<1>14. g = e
  <2>1. e.pic.frame_num = x /\ g.pic.frame_num = x
    BY <1>9, <1>10, <1>12, <1>13
  <2>2. e \in entries /\ g \in entries
    BY <1>7 DEF Shorts
  <2> QED BY <1>3, <2>1, <2>2 DEF Apart
<1>15. q = p /\ q.id = g.pic.id
  BY <1>12, <1>13, <1>14
<1>16. A[k] = MarkingOf(ShortsOf(b) \ RM!Named(m, FrameNum, c), LongsOf(b), m.plus1)
  <2>1. EachApplied(A, Marking, FrameNum, pics + 1, cmds)
    BY <1>1, <1>3, AppliedOneByOne DEF A
  <2>2. A[k] = RM!Apply(m, FrameNum, pics + 1, c)
    BY <1>2, <1>6, <2>1 DEF EachApplied
  <2>3. Effect(m, FrameNum, pics + 1, c, A[k])
    BY <1>7, <2>2, ApplyIs
  <2> QED BY <1>2, <1>8, <2>3 DEF Effect
<1>17. \A r \in ShortsOf(b) : r.id = q.id => r = q
  <2> SUFFICES ASSUME NEW r \in ShortsOf(b), r.id = q.id PROVE r = q
    OBVIOUS
  <2>1. PICK f \in Shorts(b) : r = [id |-> f.pic.id, frame_num |-> f.pic.frame_num]
    BY DEF ShortsOf
  <2>2. f.pic.id = g.pic.id
    BY <1>15, <2>1
  <2>3. f = g
    BY <1>7, <2>2 DEF Apart, Shorts
  <2> QED BY <1>13, <2>1, <2>3
<1>18. \A r \in LongsOf(b) : r.id # q.id
  <2> SUFFICES ASSUME NEW r \in LongsOf(b), r.id = q.id PROVE FALSE
    OBVIOUS
  <2>1. PICK f \in Longs(b) : r = [id |-> f.pic.id, idx |-> f.ref.idx]
    BY DEF LongsOf
  <2>2. f.pic.id = g.pic.id
    BY <1>15, <2>1
  <2>3. f = g
    BY <1>7, <2>2 DEF Apart, Shorts, Longs
  <2> QED BY <2>3 DEF Shorts, Longs, ShortTerm
<1>19. \A r \in ShortsOf(b) \ RM!Named(m, FrameNum, c) : r.id # p.id
  BY <1>11, <1>15, <1>17
<1>20. Without(A[k], p.id)
  BY <1>15, <1>16, <1>18, <1>19 DEF Without, MarkingOf
<1> QED BY <1>20 DEF A

(* A picture that op 1 names is no reference once the step is over         *)
(* (mark_short_term_unused, dpb.rs:596-605).                               *)
THEOREM NamedRemoved ==
    ASSUME AllAvoided
    PROVE  Spec => Op1Removes
<1> DEFINE Gone == \A k \in DOMAIN commands' : commands'[k].op = 1 =>
                     \A p \in RM!Named(Marking, FrameNum, commands'[k]) :
                       \A e \in entries' : e.pic.id # p.id
<1>1. IInv /\ [Next]_vars => IInv' /\ [Gone]_vars
  <2> SUFFICES ASSUME IInv, [Next]_vars PROVE IInv' /\ [Gone]_vars
    OBVIOUS
  <2>1. IInv'
    BY InvariantStep
  <2>2. ASSUME NEW cmds, FinalizeReference(cmds) PROVE Gone
    <3> DEFINE A == RM!AfterEach(Marking, FrameNum, pics + 1, cmds)
    <3>1. SUFFICES ASSUME NEW k \in DOMAIN cmds, cmds[k].op = 1,
                          NEW p \in RM!Named(Marking, FrameNum, cmds[k]),
                          NEW e \in entries'
                   PROVE  e.pic.id # p.id
      BY <2>2 DEF FinalizeReference
    <3>2. Allowed(cmds)
      BY <2>2 DEF FinalizeReference, Allowed
    <3>3. cmds \in Seq(RM!Commands)
      BY <3>2, NamesReach
    <3>4. PICK l \in Nat : l = Len(cmds)
      BY <3>3
    <3>5. k \in 1..l
      BY <3>3, <3>4
    <3>6. Marking = Marks(entries, plus1) /\ entries \in Buffers(pics)
          /\ pics + 1 \in 1..MaxPics /\ Marking \in RM!Markings
      BY MarkingIs, MarkingTyped, <3>2, DpbMarkingAssumption DEF Allowed, IInv, Typed
    <3>7. p.id # pics + 1
      <4>1. p \in Marks(entries, plus1).short
        BY <3>6 DEF RM!Named
      <4>2. PICK f \in entries : f.pic.id = p.id
        BY <3>6, <4>1, MarkedStored
      <4>3. f.pic.id \in Nat /\ f.pic.id <= pics /\ pics \in Nat
        BY <3>6, DpbMarkingAssumption DEF Buffers, StoredPics, IInv, Typed
      <4> QED BY <4>2, <4>3
    <3>8. EachApplied(A, Marking, FrameNum, pics + 1, cmds)
      BY <3>3, <3>6, AppliedOneByOne
    <3> HIDE DEF A
    <3>9. \A j \in 0..l : j \in {i \in 0..l : k <= i => Without(A[i], p.id)}
      <4> DEFINE S == {i \in 0..l : k <= i => Without(A[i], p.id)}
      <4>1. 0 \in S
        BY <3>5
      <4>2. ASSUME NEW j \in 1..l, j - 1 \in S PROVE j \in S
        <5>1. CASE j < k
          BY <3>5, <5>1
        <5>2. CASE j = k
          <6>1. Without(A[k], p.id)
            BY <3>1, <3>2, <3>4, <3>5, NamedGoes DEF A
          <6> QED BY <5>2, <6>1
        <5>3. CASE k < j
          <6>1. j - 1 \in 0..l /\ Without(A[j - 1], p.id)
            BY <3>5, <4>2, <5>3
          <6>2. A[j - 1] \in RM!Markings /\ cmds[j] \in RM!Commands
            BY <3>3, <3>4, <3>8, <6>1 DEF EachApplied
          <6>3. A[j] = RM!Apply(A[j - 1], FrameNum, pics + 1, cmds[j])
            BY <3>4, <3>8 DEF EachApplied
          <6>4. Without(A[j], p.id)
            BY <3>7, <6>1, <6>2, <6>3, StaysAway
          <6> QED BY <6>4
        <5> QED BY <3>5, <5>1, <5>2, <5>3
      <4>3. \A j \in 0..l : j \in S
        <5> HIDE DEF S
        <5> QED BY <4>1, <4>2, EveryIteration
      <4> QED BY <4>3
    <3>10. PICK m : m = RM!Applied(Marking, FrameNum, pics + 1, cmds)
      OBVIOUS
    <3>11. Without(m, p.id)
      <4>1. m = A[l]
        BY <3>4, <3>10 DEF A, RM!Applied
      <4>2. l \in 0..l /\ k <= l
        BY <3>5
      <4> QED BY <3>9, <4>1, <4>2
    <3>12. /\ Marking'.long = m.long
           /\ \A q \in Marking'.short : q \in m.short \/ q.id = pics + 1
      <4>1. cmds # <<>>
        BY <3>4, <3>5
      <4> QED BY <2>2, <3>10, <4>1, AdaptiveMarking
    <3>13. Without(Marking', p.id)
      BY <3>7, <3>11, <3>12 DEF Without
    <3>14. Marking' = Marks(entries', plus1') /\ entries' \in Buffers(pics')
      BY <2>1, MarkingAfter DEF IInv, Typed
    <3>15. \/ \E q \in Marking'.short : q.id = e.pic.id
           \/ \E q \in Marking'.long : q.id = e.pic.id
      BY <3>14, MarkedStored
    <3> QED BY <3>13, <3>15 DEF Without
  <2>3. ASSUME NEW flag, FinalizeIdr(flag) PROVE Gone
    BY <2>3 DEF FinalizeIdr
  <2>4. ASSUME FinalizeNonReference PROVE Gone
    BY <2>4 DEF FinalizeNonReference
  <2>5. Next => Gone
    <3> HIDE DEF Gone
    <3> QED BY <2>2, <2>3, <2>4 DEF Next
  <2> QED BY <2>1, <2>5
<1> QED BY <1>1, InvariantInit, PTL DEF Spec, Op1Removes
=============================================================================

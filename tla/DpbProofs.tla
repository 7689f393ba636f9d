----------------------------- MODULE DpbProofs ------------------------------
(***************************************************************************)
(* Theorems about module Dpb for every set of frame_nums, long-term        *)
(* indices and capacities and every number of insertions.                  *)
(***************************************************************************)
EXTENDS Dpb, FiniteSetTheorems, WellFoundedInduction, TLAPS

\* The inductive invariant.  The ranks are what makes "the first entry with
\* this frame_num" one entry, and so a freed index go to one picture.
IInv ==
    /\ TypeOK
    /\ RanksUnique
    /\ LongTermIndexUnique

-----------------------------------------------------------------------------
(* Facts about natural numbers.  The least-element principle is stated for *)
(* sets: applied to the counterexamples of a claim it is induction.        *)

(* Every non-empty set of naturals has a least element; it is what lets the *)
(* proofs say where a loop of the code stops.                               *)
LEMMA MinExists ==
    ASSUME NEW S \in SUBSET Nat, S # {}
    PROVE  \E m \in S : \A x \in S : m <= x
<1> DEFINE R == {q \in Nat \X Nat : q[1] < q[2]}
<1>1. IsWellFoundedOn(R, Nat)
  BY NatLessThanWellFounded DEF OpToRel
<1>2. \E m \in S : \A x \in S : ~ (<<x, m>> \in R)
  <2> HIDE DEF R
  <2> QED BY <1>1, WFMin
<1>3. PICK m \in S : \A x \in S : ~ (<<x, m>> \in R)
  BY <1>2
<1>4. \A x \in S : m <= x
  <2> TAKE x \in S
  <2>1. m \in Nat /\ x \in Nat
    OBVIOUS
  <2>2. ~ (x < m)
    BY <1>3, <2>1
  <2> QED BY <2>1, <2>2
<1> QED BY <1>4

(* Every non-empty set of naturals with an upper bound has a greatest       *)
(* element: the last picture of the buffer with some quality.               *)
LEMMA MaxExists ==
    ASSUME NEW n \in Nat, NEW S \in SUBSET (0..n), S # {}
    PROVE  \E m \in S : \A x \in S : x <= m
<1> DEFINE T == {n - x : x \in S}
<1>1. T \in SUBSET Nat /\ T # {}
  <2>1. \A x \in S : x \in 0..n /\ n - x \in Nat
    OBVIOUS
  <2> QED BY <2>1
<1>2. PICK t \in T : \A y \in T : t <= y
  <2> HIDE DEF T
  <2> QED BY <1>1, MinExists
<1>3. PICK m \in S : t = n - m
  OBVIOUS
<1>4. \A x \in S : x <= m
  <2> TAKE x \in S
  <2>1. n - m <= n - x
    BY <1>2, <1>3
  <2> QED BY <2>1
<1> QED BY <1>4

-----------------------------------------------------------------------------
(* The window.                                                             *)

(* The eviction loop stops: there is a first stopping point.               *)
LEMMA StopExists ==
    ASSUME NEW n \in Nat, NEW max \in Nat,
           NEW es, \A e \in es : e.pic.id \in 1..n
    PROVE  \E cut \in Cuts(es) : StopsAt(es, max, cut)
<1> DEFINE Good == {c \in Cuts(es) : WindowFits(es \ EvictedUpTo(es, c), max)}
<1>1. Cuts(es) \in SUBSET (0..n) /\ Cuts(es) # {}
  BY DEF Cuts, Shorts
<1>2. PICK last \in Cuts(es) : \A c \in Cuts(es) : c <= last
  BY <1>1, MaxExists
<1>3. \A e \in Shorts(es) : e.pic.id <= last
  BY <1>2 DEF Cuts
<1>4. EvictedUpTo(es, last) = Shorts(es)
  BY <1>3 DEF EvictedUpTo, FrameNums, Shorts
<1>5. last \in Good
  <2>1. Shorts(es \ EvictedUpTo(es, last)) = {}
    BY <1>4 DEF Shorts
  <2> QED BY <2>1, <1>2 DEF WindowFits
<1>6. Good \in SUBSET Nat
  BY <1>1
<1>7. PICK cut \in Good : \A c \in Good : cut <= c
  <2> HIDE DEF Good
  <2> QED BY <1>5, <1>6, MinExists
<1> QED BY <1>7 DEF StopsAt

(* What sliding the window leaves: a part of the buffer that has room for  *)
(* one more reference frame, or that has no short-term picture left; every *)
(* long-term picture is still there.                                       *)
LEMMA SlidingWindow ==
    ASSUME NEW n \in Nat, NEW max \in Nat \ {0},
           NEW es, \A e \in es : e.pic.id \in 1..n
    PROVE  /\ SlidingWindowMark(es, max) \subseteq es
           /\ WindowFits(SlidingWindowMark(es, max), max)
           /\ Longs(es) \subseteq SlidingWindowMark(es, max)
<1> DEFINE cut == CHOOSE c \in Cuts(es) : StopsAt(es, max, c)
<1>1. StopsAt(es, max, cut)
  BY StopExists
<1>2. SlidingWindowMark(es, max) = es \ EvictedUpTo(es, cut)
  BY DEF SlidingWindowMark
<1>3. WindowFits(SlidingWindowMark(es, max), max)
  <2> HIDE DEF cut
  <2> QED BY <1>1, <1>2 DEF StopsAt
<1>4. \A e \in Longs(es) : e \notin Shorts(es)
  BY DEF Longs, Shorts, ShortTerm
<1> QED BY <1>2, <1>3, <1>4 DEF EvictedUpTo, Longs

(* Whatever its arguments, an insertion adds nothing but the new picture.  *)
LEMMA InsertShape ==
    ASSUME NEW n \in Nat, NEW max \in Nat,
           NEW es, \A e \in es : e.pic.id \in 1..n,
           NEW pic, NEW ref
    PROVE  Insert(es, max, pic, ref) \subseteq es \cup {Entry(pic, ref)}
<1>1. SlidingWindowMark(es, max) \subseteq es
  <2>1. CASE max = 0
    BY <2>1 DEF SlidingWindowMark
  <2>2. CASE max # 0
    BY <2>2, SlidingWindow
  <2> QED BY <2>1, <2>2
<1> QED BY <1>1 DEF Insert

-----------------------------------------------------------------------------
(* The invariant.                                                          *)

(* Taking entries out keeps the invariant: it is all that marking a        *)
(* picture unused does.                                                    *)
LEMMA Removal ==
    ASSUME IInv, NEW S \in SUBSET entries, Mark(S)
    PROVE  IInv'
BY DEF IInv, TypeOK, RanksUnique, LongTermIndexUnique, Mark, Longs

(* Giving one picture of a buffer in which index i is free the index i     *)
(* keeps the invariant.                                                    *)
LEMMA Promotion ==
    ASSUME IInv, NEW i \in LongIdxSet,
           NEW S \in SUBSET WithoutIndex(entries, i),
           \A e, f \in S : e = f,
           Mark(Promote(WithoutIndex(entries, i), S, i))
    PROVE  IInv'
<1> DEFINE kept == WithoutIndex(entries, i)
<1>1. kept \subseteq entries
  BY DEF WithoutIndex
<1>2. /\ entries' = (kept \ S) \cup {Entry(e.pic, LongTerm(i)) : e \in S}
      /\ UNCHANGED <<max_ref_frames, inserted, limit, repeated>>
  BY DEF Mark, Promote
<1>3. \A e \in kept : e.ref # LongTerm(i)
  BY DEF WithoutIndex
<1> HIDE DEF kept
<1>4. \A e \in S : /\ Entry(e.pic, LongTerm(i)).pic = e.pic
                   /\ Entry(e.pic, LongTerm(i)).ref = LongTerm(i)
  BY DEF Entry
<1>5. TypeOK'
  <2>1. \A e \in S : Entry(e.pic, LongTerm(i)) \in [pic : Pictures, ref : Statuses]
    BY <1>1, S \subseteq kept DEF IInv, TypeOK, Entry, Statuses, kept
  <2> QED BY <1>1, <1>2, <2>1 DEF IInv, TypeOK
<1>6. RanksUnique'
  <2>1. \A e \in entries' : \E o \in kept : /\ e.pic = o.pic
                                            /\ e = o \/ (o \in S /\ e = Entry(o.pic, LongTerm(i)))
                                            /\ o \notin S => e = o
                                            /\ o \in S => e = Entry(o.pic, LongTerm(i))
    BY <1>2, <1>4, S \subseteq kept DEF kept
  <2>2. \A e \in entries' : e.pic.id <= inserted'
    BY <2>1, <1>1, <1>2 DEF IInv, RanksUnique
  <2>3. ASSUME NEW e \in entries', NEW f \in entries', e.pic.id = f.pic.id
        PROVE  e = f
    <3>1. PICK o \in kept : /\ e.pic = o.pic
                            /\ o \notin S => e = o
                            /\ o \in S => e = Entry(o.pic, LongTerm(i))
      BY <2>1
    <3>2. PICK p \in kept : /\ f.pic = p.pic
                            /\ p \notin S => f = p
                            /\ p \in S => f = Entry(p.pic, LongTerm(i))
      BY <2>1
    <3>3. o = p
      BY <3>1, <3>2, <2>3, <1>1 DEF IInv, RanksUnique
    <3> QED BY <3>1, <3>2, <3>3
  <2> QED BY <2>2, <2>3 DEF RanksUnique
<1>7. LongTermIndexUnique'
  <2> SUFFICES ASSUME NEW e \in Longs(entries)', NEW f \in Longs(entries)', e.ref = f.ref
               PROVE  e = f
    BY DEF LongTermIndexUnique
  <2>1. e \in entries' /\ f \in entries' /\ e.ref.kind = "long" /\ f.ref.kind = "long"
    BY DEF Longs
  <2>2. CASE e \in kept \ S /\ f \in kept \ S
    BY <2>1, <2>2, <1>1 DEF IInv, LongTermIndexUnique, Longs
  <2>3. CASE e \notin kept \ S \/ f \notin kept \ S
    <3>1. e.ref = LongTerm(i) /\ f.ref = LongTerm(i)
      BY <2>1, <2>3, <1>2, <1>4
    <3>2. PICK o \in S, p \in S : /\ e = Entry(o.pic, LongTerm(i))
                                  /\ f = Entry(p.pic, LongTerm(i))
      BY <3>1, <2>1, <1>2, <1>3
    <3> QED BY <3>2
  <2> QED BY <2>2, <2>3
<1> QED BY <1>5, <1>6, <1>7 DEF IInv

(* "The first entry with this quality", and the last, is at most one.      *)
LEMMA EndsAreSingle ==
    ASSUME IInv, NEW S \in SUBSET entries
    PROVE  /\ \A e, f \in FirstOf(S) : e = f
           /\ \A e, f \in LastOf(S) : e = f
           /\ FirstOf(S) \subseteq S /\ LastOf(S) \subseteq S
<1>1. \A e \in entries : e.pic.id \in Int
  BY DEF IInv, TypeOK, Pictures
<1>2. \A e, f \in FirstOf(S) : e.pic.id = f.pic.id
  BY <1>1 DEF FirstOf
<1>3. \A e, f \in LastOf(S) : e.pic.id = f.pic.id
  BY <1>1 DEF LastOf
<1> QED BY <1>2, <1>3 DEF FirstOf, LastOf, IInv, RanksUnique

LEMMA InsertStep ==
    ASSUME IInv, NEW fn \in FrameNumSet, NEW st \in Structures,
           NEW ref \in {Unused, ShortTerm, LongTerm(0)}, DpbInsert(fn, st, ref)
    PROVE  IInv'
<1> DEFINE pic == Picture(inserted + 1, fn, 0, st)
           new == Entry(pic, ref)
<1> USE DpbAssumption
<1>1. /\ inserted \in Nat /\ max_ref_frames \in Nat
      /\ inserted' = inserted + 1 /\ inserted' \in 1..MaxInserts
      /\ max_ref_frames' = max_ref_frames
  BY DEF DpbInsert, IInv, TypeOK
<1>8. limit' \in Capacities \cup {0} /\ repeated' \in BOOLEAN
  <2>1. limit' = max_ref_frames \/ limit' = limit
    BY DEF DpbInsert
  <2>2. repeated' = (repeated \/ Repeats(new))
    BY DEF DpbInsert
  <2> HIDE DEF new
  <2> QED BY <2>1, <2>2 DEF DpbInsert, IInv, TypeOK
<1>2. \A e \in entries : e.pic.id \in 1..inserted
  BY DEF IInv, TypeOK, RanksUnique, Pictures
<1>3. PICK kept \in SUBSET entries :
          entries' = kept \/ (ref # Unused /\ entries' = kept \cup {new})
  <2>1. CASE ref = Unused
    BY <2>1 DEF DpbInsert, Insert
  <2>2. CASE ref # Unused
    <3> HIDE DEF new
    <3>1. entries' \subseteq entries \cup {new}
      <4>1. entries' = Insert(entries, max_ref_frames, pic, ref)
        BY DEF DpbInsert
      <4> HIDE DEF pic
      <4> QED BY <4>1, <1>1, <1>2, InsertShape DEF new
    <3>2. /\ entries' \cap entries \in SUBSET entries
          /\ \/ entries' = entries' \cap entries
             \/ entries' = (entries' \cap entries) \cup {new}
      BY <3>1
    <3> QED BY <3>2, <2>2
  <2> QED BY <2>1, <2>2
<1>4. /\ new.pic.id = inserted + 1 /\ new.pic = pic /\ new.ref = ref
      /\ pic \in Pictures
  BY <1>1 DEF Entry, Picture, Pictures
<1>5. TypeOK'
  <2>1. ref # Unused => new \in [pic : Pictures, ref : Statuses]
    BY <1>4 DEF Entry, Statuses
  <2> QED BY <2>1, <1>1, <1>3, <1>8 DEF IInv, TypeOK
<1>6. RanksUnique'
  BY <1>1, <1>2, <1>3, <1>4 DEF IInv, RanksUnique
<1>7. LongTermIndexUnique'
  <2>1. CASE ref.kind = "long"
    <3>1. kept = {}
      BY <2>1 DEF DpbInsert
    <3> QED BY <3>1, <1>3 DEF LongTermIndexUnique, Longs
  <2>2. CASE ref.kind # "long"
    BY <2>2, <1>3, <1>4 DEF IInv, LongTermIndexUnique, Longs
  <2> QED BY <2>1, <2>2
<1> QED BY <1>5, <1>6, <1>7 DEF IInv

(* IInv is kept by every call.                                             *)
LEMMA InductiveStep == IInv /\ [Next]_vars => IInv'
<1> SUFFICES ASSUME IInv, [Next]_vars PROVE IInv'
  OBVIOUS
<1>1. ASSUME NEW n \in Capacities, SetMaxRefFrames(n) PROVE IInv'
  BY <1>1 DEF SetMaxRefFrames, IInv, TypeOK, RanksUnique, LongTermIndexUnique, Longs
<1>2. ASSUME NEW fn \in FrameNumSet, NEW s \in Structures,
             NEW ref \in {Unused, ShortTerm, LongTerm(0)}, DpbInsert(fn, s, ref)
      PROVE  IInv'
  BY <1>2, InsertStep
<1>3. ASSUME NEW fn \in FrameNumSet, Mark(MarkShortTermUnused(entries, fn)) PROVE IInv'
  BY <1>3, Removal DEF MarkShortTermUnused
<1>4. ASSUME NEW i \in LongIdxSet, Mark(MarkLongTermUnused(entries, i)) PROVE IInv'
  BY <1>4, Removal DEF MarkLongTermUnused
<1>5. ASSUME NEW fn \in FrameNumSet, NEW i \in LongIdxSet,
             Mark(AssignLongTerm(entries, fn, i))
      PROVE  IInv'
  <2> DEFINE S == {e \in Shorts(WithoutIndex(entries, i)) : e.pic.frame_num = fn}
  <2>1. S \subseteq entries /\ S \subseteq WithoutIndex(entries, i)
    BY DEF Shorts, WithoutIndex
  <2>2. AssignLongTerm(entries, fn, i) = Promote(WithoutIndex(entries, i), FirstOf(S), i)
    BY DEF AssignLongTerm
  <2> HIDE DEF S
  <2> QED BY <1>5, <2>1, <2>2, EndsAreSingle, Promotion
<1>6. ASSUME NEW fn \in FrameNumSet, NEW i \in LongIdxSet,
             Mark(MarkCurrentAsLongTerm(entries, i, fn))
      PROVE  IInv'
  <2> DEFINE S == {e \in Shorts(WithoutIndex(entries, i)) : e.pic.frame_num = fn}
  <2>1. S \subseteq entries /\ S \subseteq WithoutIndex(entries, i)
    BY DEF Shorts, WithoutIndex
  <2>2. MarkCurrentAsLongTerm(entries, i, fn)
          = Promote(WithoutIndex(entries, i), LastOf(S), i)
    BY DEF MarkCurrentAsLongTerm
  <2> HIDE DEF S
  <2> QED BY <1>6, <2>1, <2>2, EndsAreSingle, Promotion
<1>7. ASSUME NEW k, Mark(SetMaxLongTermFrameIdx(entries, k)) PROVE IInv'
  BY <1>7, Removal DEF SetMaxLongTermFrameIdx
<1>8. CASE Mark(ClearAllRefs(entries))
  BY <1>8, Removal DEF ClearAllRefs
<1>9. CASE UNCHANGED vars
  BY <1>9 DEF vars, IInv, TypeOK, RanksUnique, LongTermIndexUnique, Longs
<1> QED
  BY <1>1, <1>2, <1>3, <1>4, <1>5, <1>6, <1>7, <1>8, <1>9 DEF Next

(* Type correctness and the two facts the invariant needs, for every       *)
(* behaviour of the buffer.                                                *)
THEOREM Invariance == Spec => []IInv
<1>1. Init => IInv
  <2> SUFFICES ASSUME Init PROVE IInv
    OBVIOUS
  <2>1. repeated \in BOOLEAN
    BY DEF Init
  <2>2. /\ entries = {} /\ max_ref_frames \in Capacities \cup {0} /\ limit \in Capacities \cup {0}
        /\ inserted \in 0..MaxInserts
    BY DpbAssumption DEF Init
  <2> QED BY <2>1, <2>2 DEF IInv, TypeOK, RanksUnique, LongTermIndexUnique, Longs
<1> QED BY <1>1, InductiveStep, PTL DEF Spec

(* Every entry is a reference picture between two calls: remove_unused     *)
(* has run (dpb.rs:707-711).                                               *)
THEOREM TypeCorrect == Spec => []TypeOK
<1>1. IInv => TypeOK
  BY DEF IInv
<1> QED BY <1>1, Invariance, PTL

(* No two pictures of the buffer ever hold the same long-term index        *)
(* (dpb.rs assign_long_term, mark_current_as_long_term).                   *)
THEOREM LongTermIndex == Spec => []LongTermIndexUnique
<1>1. IInv => LongTermIndexUnique
  BY DEF IInv
<1> QED BY <1>1, Invariance, PTL

-----------------------------------------------------------------------------
(* The capacity.                                                           *)

(* Fewer pictures name fewer frames.                                       *)
LEMMA FewerFrames ==
    ASSUME NEW A, NEW B, A \subseteq B, \A e \in B : e.pic.frame_num \in FrameNumSet
    PROVE  /\ IsFiniteSet(FrameNums(B)) /\ Cardinality(FrameNums(B)) \in Nat
           /\ IsFiniteSet(FrameNums(A)) /\ Cardinality(FrameNums(A)) \in Nat
           /\ Cardinality(FrameNums(A)) <= Cardinality(FrameNums(B))
<1>1. FrameNums(A) \subseteq FrameNums(B) /\ FrameNums(B) \subseteq FrameNumSet
  BY DEF FrameNums
<1>2. IsFiniteSet(FrameNums(B))
  BY <1>1, DpbAssumption, FS_Subset
<1> QED BY <1>1, <1>2, FS_Subset, FS_CardinalityType

\* As long as no frame_num is repeated, two short-term pictures that share
\* one are the fields of a frame, and the frame_nums stay within the limit.
FieldsShare ==
    \A e, f \in Shorts(entries) :
        e # f /\ e.pic.frame_num = f.pic.frame_num => Complements(e, f) \/ Complements(f, e)

CapacityInv ==
    ~repeated => /\ FieldsShare
                 /\ Cardinality(FrameNums(Shorts(entries))) <= Max0(limit, 1)

(* Then there are no more frames than frame_nums: a frame is counted at    *)
(* its first field alone.                                                  *)
LEMMA FramesNamed ==
    ASSUME IInv, CapacityInv
    PROVE  ShortTermWithinCapacity
<1> SUFFICES ASSUME ~repeated
             PROVE  Cardinality(ShortFrames(entries)) <= Max0(limit, 1)
  BY DEF ShortTermWithinCapacity
<1>1. FieldsShare /\ Cardinality(FrameNums(Shorts(entries))) <= Max0(limit, 1)
  BY DEF CapacityInv
<1> DEFINE S == ShortFrames(entries)
           T == FrameNums(Shorts(entries))
           f == [e \in S |-> e.pic.frame_num]
<1>2. S \subseteq Shorts(entries)
  BY DEF ShortFrames
<1>3. f \in Injection(S, T)
  <2>1. \A e \in S : e.pic.frame_num \in T
    BY <1>2 DEF FrameNums
  <2>2. ASSUME NEW e \in S, NEW g \in S, e.pic.frame_num = g.pic.frame_num
        PROVE  e = g
    <3>1. ~Complements(e, g) /\ ~Complements(g, e)
      BY <1>2 DEF ShortFrames
    <3> HIDE DEF S
    <3> QED BY <1>1, <1>2, <2>2, <3>1 DEF FieldsShare
  <2> HIDE DEF S, T
  <2> QED BY <2>1, <2>2 DEF Injection, IsInjective
<1>4. IsFiniteSet(T) /\ Cardinality(T) \in Nat
  <2>1. \A e \in Shorts(entries) : e.pic.frame_num \in FrameNumSet
    BY DEF IInv, TypeOK, Pictures, Shorts
  <2> QED BY <2>1, FewerFrames
<1>5. Max0(limit, 1) \in Nat
  BY DpbAssumption DEF IInv, TypeOK, Max0
<1> HIDE DEF S, T, f
<1>6. Cardinality(S) <= Cardinality(T) /\ Cardinality(S) \in Nat
  BY <1>3, <1>4, FS_Injection, FS_CardinalityType
<1> QED BY <1>1, <1>4, <1>5, <1>6 DEF S, T

(* Fewer short-term pictures under the same limit.                         *)
LEMMA CapacityLeft ==
    ASSUME IInv, CapacityInv, Shorts(entries') \subseteq Shorts(entries),
           UNCHANGED <<limit, repeated>>
    PROVE  CapacityInv'
<1>1. \A e \in Shorts(entries) : e.pic.frame_num \in FrameNumSet
  BY DEF IInv, TypeOK, Pictures, Shorts
<1>2. /\ Cardinality(FrameNums(Shorts(entries'))) <= Cardinality(FrameNums(Shorts(entries)))
      /\ Cardinality(FrameNums(Shorts(entries'))) \in Nat
      /\ Cardinality(FrameNums(Shorts(entries))) \in Nat
  BY <1>1, FewerFrames
<1>3. Max0(limit, 1) \in Nat
  BY DpbAssumption DEF IInv, TypeOK, Max0
<1>4. FieldsShare => FieldsShare'
  BY DEF FieldsShare, Complements
<1>5. Max0(limit', 1) = Max0(limit, 1)
  OBVIOUS
<1> QED BY <1>2, <1>3, <1>4, <1>5 DEF CapacityInv

(* A short-term picture that repeats no frame_num completes a frame, or    *)
(* the window has made room for it.                                        *)
LEMMA CapacityInsert ==
    ASSUME 0 \notin Capacities, IInv, CapacityInv,
           NEW fn \in FrameNumSet, NEW s \in Structures, DpbInsert(fn, s, ShortTerm)
    PROVE  CapacityInv'
<1> USE DpbAssumption
<1> DEFINE pic  == Picture(inserted + 1, fn, 0, s)
           new  == Entry(pic, ShortTerm)
           kept == SlidingWindowMark(entries, max_ref_frames)
<1>0. \A e \in entries : e.pic.frame_num \in FrameNumSet
  BY DEF IInv, TypeOK, Pictures
<1>1. /\ max_ref_frames \in Nat \ {0} /\ max_ref_frames \in Capacities
      /\ repeated' = (repeated \/ Repeats(new))
      /\ limit' = IF StartsFrame(new) THEN max_ref_frames ELSE limit
  BY DEF DpbInsert
<1>2. /\ new.pic = pic /\ new.pic.frame_num = fn /\ new.ref = ShortTerm /\ pic.frame_num = fn
      /\ pic.structure = s /\ new.pic.structure = s
  BY DEF Entry, Picture
<1> HIDE DEF pic, new
<1> SUFFICES ASSUME ~repeated'
             PROVE  FieldsShare' /\ Cardinality(FrameNums(Shorts(entries'))) <= Max0(limit', 1)
  BY DEF CapacityInv
<1>3. /\ FieldsShare /\ Cardinality(FrameNums(Shorts(entries))) <= Max0(limit, 1)
      /\ \A e \in Sharers(new) : Complements(new, e)
  BY <1>1, <1>2 DEF CapacityInv, Repeats
<1>4. entries' \subseteq entries \cup {new} /\ new \in entries'
  <2>1. \A e \in entries : e.pic.id \in 1..inserted
    BY DEF IInv, TypeOK, RanksUnique, Pictures
  <2>2. inserted \in Nat
    BY DEF IInv, TypeOK
  <2>3. entries' = Insert(entries, max_ref_frames, pic, ShortTerm)
    BY DEF DpbInsert, pic
  <2>4. new \in entries'
    BY <2>3 DEF Insert, Unused, ShortTerm, new
  <2> QED BY <1>1, <2>1, <2>2, <2>3, <2>4, InsertShape DEF new
<1>5. FieldsShare'
  <2> SUFFICES ASSUME NEW e \in Shorts(entries'), NEW f \in Shorts(entries'), e # f,
                      e.pic.frame_num = f.pic.frame_num
               PROVE  Complements(e, f) \/ Complements(f, e)
    BY DEF FieldsShare, Complements
  <2>1. \A g \in Shorts(entries') : g = new \/ g \in Shorts(entries)
    BY <1>4 DEF Shorts
  <2>2. CASE e \in Shorts(entries) /\ f \in Shorts(entries)
    BY <1>3, <2>2 DEF FieldsShare
  <2>3. CASE e = new /\ f \in Shorts(entries)
    BY <1>3, <2>3 DEF Sharers
  <2>4. CASE f = new /\ e \in Shorts(entries)
    BY <1>3, <2>4 DEF Sharers
  <2> QED BY <2>1, <2>2, <2>3, <2>4
<1>6. CASE Sharers(new) # {}
  <2>1. PICK e \in Sharers(new) : Complements(new, e)
    BY <1>3, <1>6
  <2>2. limit' = limit
    BY <1>1, <2>1 DEF StartsFrame
  <2>3. CompletesPair(entries, pic)
    <3>1. /\ s # e.pic.structure /\ s # "Frame" /\ e.pic.structure # "Frame"
      BY <1>2, <2>1 DEF Complements
    <3> QED BY <1>2, <2>1, <3>1 DEF CompletesPair, Sharers
  <2>4. entries' = entries \cup {new}
    BY <2>3 DEF DpbInsert, Insert, Unused, ShortTerm, pic, new
  <2>5. FrameNums(Shorts(entries')) = FrameNums(Shorts(entries))
    BY <1>2, <2>1, <2>4 DEF Sharers, FrameNums, Shorts
  <2> QED BY <1>3, <1>5, <2>2, <2>5
<1>7. CASE Sharers(new) = {}
  <2>1. limit' = max_ref_frames
    BY <1>1, <1>2, <1>7 DEF StartsFrame
  <2>2. ~CompletesPair(entries, pic)
    BY <1>2, <1>7 DEF CompletesPair, Sharers
  <2>3. entries' = kept \cup {new}
    BY <2>2 DEF DpbInsert, Insert, Unused, ShortTerm, pic, new
  <2>4. kept \subseteq entries /\ WindowFits(kept, max_ref_frames)
    <3>1. \A e \in entries : e.pic.id \in 1..inserted
      BY DEF IInv, TypeOK, RanksUnique, Pictures
    <3> QED BY <3>1, <1>1, SlidingWindow DEF IInv, TypeOK
  <2> HIDE DEF kept
  <2>5. FrameNums(Shorts(entries')) = FrameNums(Shorts(kept)) \cup {fn}
    BY <1>2, <2>3 DEF FrameNums, Shorts
  <2>6. /\ IsFiniteSet(FrameNums(Shorts(kept)))
        /\ Cardinality(FrameNums(Shorts(kept))) \in Nat
        /\ Cardinality(FrameNums(kept)) \in Nat
        /\ Cardinality(FrameNums(Shorts(kept))) <= Cardinality(FrameNums(kept))
    <3>1. Shorts(kept) \subseteq kept /\ \A e \in kept : e.pic.frame_num \in FrameNumSet
      BY <2>4, <1>0 DEF Shorts
    <3> QED BY <3>1, FewerFrames
  <2>7. /\ Cardinality(FrameNums(Shorts(entries'))) \in Nat
        /\ Cardinality(FrameNums(Shorts(entries'))) <= Cardinality(FrameNums(Shorts(kept))) + 1
    <3> DEFINE F == FrameNums(Shorts(kept))
    <3> HIDE DEF F
    <3>1. IsFiniteSet(F) /\ Cardinality(F) \in Nat
      BY <2>6 DEF F
    <3>2. /\ IsFiniteSet(F \cup {fn})
          /\ Cardinality(F \cup {fn}) = IF fn \in F THEN Cardinality(F) ELSE Cardinality(F) + 1
      BY <3>1, FS_AddElement
    <3>3. Cardinality(F \cup {fn}) \in Nat /\ Cardinality(F \cup {fn}) <= Cardinality(F) + 1
      BY <3>1, <3>2
    <3> QED BY <3>3, <2>5 DEF F
  <2>8. Cardinality(FrameNums(Shorts(kept))) < max_ref_frames
    <3>1. CASE Shorts(kept) = {}
      <4>1. FrameNums(Shorts(kept)) = {}
        BY <3>1 DEF FrameNums
      <4> QED BY <4>1, FS_EmptySet, <1>1
    <3>2. CASE Cardinality(FrameNums(kept)) < max_ref_frames
      BY <3>2, <2>6, <1>1
    <3> QED BY <3>1, <3>2, <2>4 DEF WindowFits
  <2>9. Cardinality(FrameNums(Shorts(entries'))) <= Max0(limit', 1)
    BY <2>1, <2>6, <2>7, <2>8, <1>1 DEF Max0
  <2> QED BY <1>5, <2>9
<1> QED BY <1>6, <1>7

(* Every call keeps the bound: one that adds no short-term picture leaves  *)
(* at most those that there are.                                           *)
LEMMA CapacityStep ==
    ASSUME 0 \notin Capacities, IInv, CapacityInv, [Next]_vars
    PROVE  CapacityInv'
<1> DEFINE Shrinks == /\ Shorts(entries') \subseteq Shorts(entries)
                      /\ UNCHANGED <<limit, repeated>>
<1>1. ASSUME NEW fn \in FrameNumSet, NEW s \in Structures,
             NEW ref \in {Unused, LongTerm(0)}, DpbInsert(fn, s, ref)
      PROVE  Shrinks
  <2>1. ref # ShortTerm
    BY DEF Unused, ShortTerm, LongTerm
  <2>2. Shorts(entries') \subseteq Shorts(entries)
    BY <1>1, <2>1 DEF DpbInsert, Insert, Shorts, Entry
  <2>3. PICK new : new = Entry(Picture(inserted + 1, fn, 0, s), ref)
    OBVIOUS
  <2>4. new.ref = ref
    BY <2>3 DEF Entry
  <2>5. /\ limit' = IF StartsFrame(new) THEN max_ref_frames ELSE limit
        /\ repeated' = (repeated \/ Repeats(new))
    BY <1>1, <2>3 DEF DpbInsert
  <2>6. ~StartsFrame(new) /\ ~Repeats(new)
    BY <2>1, <2>4 DEF StartsFrame, Repeats
  <2>7. repeated \in BOOLEAN
    BY DEF IInv, TypeOK
  <2>8. limit' = limit
    BY <2>5, <2>6
  <2>9. repeated' = repeated
    BY <2>5, <2>6, <2>7
  <2> QED BY <2>2, <2>8, <2>9
<1>2. ASSUME NEW S, NEW T \in SUBSET S, NEW i, entries' = Promote(S, T, i), S \subseteq entries
      PROVE  Shorts(entries') \subseteq Shorts(entries)
  BY <1>2 DEF Promote, Shorts, Entry, ShortTerm, LongTerm
<1>3. ASSUME NEW fn, NEW i, Mark(AssignLongTerm(entries, fn, i))
      PROVE  Shrinks
  BY <1>3, <1>2 DEF AssignLongTerm, Mark, WithoutIndex, Shorts, FirstOf
<1>4. ASSUME NEW fn, NEW i, Mark(MarkCurrentAsLongTerm(entries, i, fn))
      PROVE  Shrinks
  BY <1>4, <1>2 DEF MarkCurrentAsLongTerm, Mark, WithoutIndex, Shorts, LastOf
<1>5. ASSUME entries' \subseteq entries, UNCHANGED <<limit, repeated>>
      PROVE  Shrinks
  BY <1>5 DEF Shorts
<1>6. ASSUME NEW fn, Mark(MarkShortTermUnused(entries, fn)) PROVE Shrinks
  BY <1>5, <1>6 DEF Mark, MarkShortTermUnused
<1>7. ASSUME NEW i, Mark(MarkLongTermUnused(entries, i)) PROVE Shrinks
  BY <1>5, <1>7 DEF Mark, MarkLongTermUnused
<1>8. ASSUME NEW k, Mark(SetMaxLongTermFrameIdx(entries, k)) PROVE Shrinks
  BY <1>5, <1>8 DEF Mark, SetMaxLongTermFrameIdx
<1>9. ASSUME Mark(ClearAllRefs(entries)) PROVE Shrinks
  BY <1>5, <1>9 DEF Mark, ClearAllRefs
<1>10. ASSUME (\E n \in Capacities : SetMaxRefFrames(n)) \/ UNCHANGED vars PROVE Shrinks
  BY <1>5, <1>10 DEF SetMaxRefFrames, vars
<1>11. Shrinks => CapacityInv'
  BY CapacityLeft
<1>12. ASSUME NEW fn \in FrameNumSet, NEW s \in Structures,
              NEW ref \in {Unused, ShortTerm, LongTerm(0)}, DpbInsert(fn, s, ref)
       PROVE  CapacityInv'
  <2>1. CASE ref = ShortTerm
    BY <1>12, <2>1, CapacityInsert
  <2>2. CASE ref \in {Unused, LongTerm(0)}
    BY <1>1, <1>11, <1>12, <2>2
  <2> QED BY <2>1, <2>2
<1> HIDE DEF Shrinks
<1> QED
  BY <1>3, <1>4, <1>6, <1>7, <1>8, <1>9, <1>10, <1>11, <1>12 DEF Next

(* Once no SPS announces a capacity of zero, and as long as no short-term  *)
(* frame repeats the frame_num of another, the buffer has no more          *)
(* short-term frames than max_num_ref_frames was when the last one came:   *)
(* the window stops only with room for one more, a second field joins its  *)
(* first, and no marking command adds a short-term picture                 *)
(* (dpb.rs:98-120, 557-594).                                               *)
THEOREM ShortTermCapacity ==
    ASSUME 0 \notin Capacities
    PROVE  Spec => []ShortTermWithinCapacity
<1>1. Init => CapacityInv
  <2> SUFFICES ASSUME Init PROVE CapacityInv
    OBVIOUS
  <2>1. Shorts(entries) = {} /\ FrameNums(Shorts(entries)) = {} /\ limit = 0
    BY DEF Init, Shorts, FrameNums
  <2>2. FieldsShare
    BY <2>1 DEF FieldsShare
  <2> QED BY <2>1, <2>2, FS_EmptySet DEF CapacityInv, Max0
<1>2. IInv /\ CapacityInv /\ [Next]_vars => CapacityInv'
  BY CapacityStep
<1>3. IInv /\ CapacityInv => ShortTermWithinCapacity
  BY FramesNamed
<1> QED BY <1>1, <1>2, <1>3, Invariance, PTL DEF Spec

-----------------------------------------------------------------------------
(* The order of eviction.                                                  *)

(* Where the loop stops everything before is gone: a short-term picture    *)
(* that stays is younger than some evicted picture of each evicted frame.  *)
LEMMA OldestGoFirst ==
    ASSUME NEW n \in Nat, NEW max \in Nat,
           NEW es, \A e \in es : e.pic.id \in 1..n,
           NEW e \in es, e \notin SlidingWindowMark(es, max),
           NEW f \in Shorts(es), f \in SlidingWindowMark(es, max)
    PROVE  \E g \in Shorts(es) : /\ g \notin SlidingWindowMark(es, max)
                                 /\ g.pic.frame_num = e.pic.frame_num
                                 /\ g.pic.id < f.pic.id
<1> DEFINE cut == CHOOSE c \in Cuts(es) : StopsAt(es, max, c)
           gone == FrameNums({x \in Shorts(es) : x.pic.id <= cut})
<1>1. max # 0
  BY DEF SlidingWindowMark
<1>2. StopsAt(es, max, cut)
  BY StopExists
<1>3. cut \in Nat
  <2>1. cut \in Cuts(es)
    BY <1>2 DEF StopsAt
  <2> HIDE DEF cut
  <2> QED BY <2>1 DEF Cuts, Shorts
<1>4. SlidingWindowMark(es, max) = es \ EvictedUpTo(es, cut)
  BY <1>1 DEF SlidingWindowMark
<1>5. EvictedUpTo(es, cut) = {x \in Shorts(es) : x.pic.frame_num \in gone}
  BY DEF EvictedUpTo
<1> HIDE DEF cut
<1>6. PICK g \in Shorts(es) : g.pic.id <= cut /\ g.pic.frame_num = e.pic.frame_num
  BY <1>4, <1>5 DEF FrameNums
<1>7. g.pic.frame_num \in gone /\ g \in EvictedUpTo(es, cut)
  BY <1>5, <1>6 DEF FrameNums
<1>8. ~ (f.pic.id <= cut)
  BY <1>4, <1>5 DEF FrameNums
<1>9. g.pic.id \in Nat /\ f.pic.id \in Nat
  BY DEF Shorts
<1> QED BY <1>3, <1>4, <1>6, <1>7, <1>8, <1>9

(* An insertion displaces the oldest short-term frames first and no        *)
(* long-term picture (dpb.rs:98-120, 557-594).                             *)
THEOREM OldestEvicted == Spec => WindowEvictsOldest
<1> DEFINE A == inserted' # inserted =>
          /\ Longs(entries) \subseteq entries'
          /\ \A e \in Shorts(entries) \ entries', f \in Shorts(entries) \cap entries' :
               f.pic.id < e.pic.id =>
                 \E g \in Shorts(entries) \ entries' :
                   g.pic.frame_num = e.pic.frame_num /\ g.pic.id < f.pic.id
<1>1. IInv /\ [Next]_vars => [A]_vars
  <2> SUFFICES ASSUME IInv, [Next]_vars, inserted' # inserted PROVE A
    OBVIOUS
  <2>1. PICK fn \in FrameNumSet, st \in Structures,
             ref \in {Unused, ShortTerm, LongTerm(0)} : DpbInsert(fn, st, ref)
    BY DEF Next, vars, SetMaxRefFrames, Mark
  <2> DEFINE pic == Picture(inserted + 1, fn, 0, st)
             new == Entry(pic, ref)
             kept == SlidingWindowMark(entries, max_ref_frames)
  <2>2. inserted \in Nat /\ max_ref_frames \in Nat
    BY DpbAssumption DEF IInv, TypeOK
  <2>3. \A e \in entries : e.pic.id \in 1..inserted
    BY DEF IInv, TypeOK, RanksUnique, Pictures
  <2>4. new.pic.id = inserted + 1 /\ new \notin entries
    <3>1. new.pic.id = inserted + 1
      BY DEF Entry, Picture
    <3> HIDE DEF new
    <3> QED BY <2>2, <2>3, <3>1
  <2>5. \/ entries \subseteq entries'
        \/ entries' = kept \cup {new}
    BY <2>1 DEF DpbInsert, Insert
  <2> HIDE DEF new
  <2>6. CASE entries \subseteq entries'
    BY <2>6 DEF Longs, Shorts
  <2>7. CASE entries' = kept \cup {new}
    <3>1. Longs(entries) \subseteq entries'
      <4>1. CASE max_ref_frames = 0
        BY <4>1, <2>7 DEF SlidingWindowMark, Longs
      <4>2. CASE max_ref_frames # 0
        BY <4>2, <2>2, <2>3, <2>7, SlidingWindow
      <4> QED BY <4>1, <4>2
    <3> HIDE DEF kept
    <3>2. ASSUME NEW e \in Shorts(entries) \ entries', NEW f \in Shorts(entries) \cap entries'
          PROVE  \E g \in Shorts(entries) \ entries' :
                   g.pic.frame_num = e.pic.frame_num /\ g.pic.id < f.pic.id
      <4>1. e \in entries /\ e \notin kept /\ f \in Shorts(entries) /\ f \in kept
        BY <2>4, <2>7 DEF Shorts
      <4>2. PICK g \in Shorts(entries) : /\ g \notin kept
                                         /\ g.pic.frame_num = e.pic.frame_num
                                         /\ g.pic.id < f.pic.id
        BY <4>1, <2>2, <2>3, OldestGoFirst DEF kept
      <4>3. g \notin entries'
        BY <2>4, <2>7, <4>2 DEF Shorts
      <4> QED BY <4>2, <4>3
    <3> QED BY <3>1, <3>2
  <2> QED BY <2>5, <2>6, <2>7
<1> QED BY <1>1, Invariance, PTL DEF Spec, WindowEvictsOldest
=============================================================================

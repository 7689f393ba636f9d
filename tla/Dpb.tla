-------------------------------- MODULE Dpb ---------------------------------
(***************************************************************************)
(* The decoded picture buffer as a library object (src/src/dpb.rs): its    *)
(* public marking methods, called in any order with any arguments.  The    *)
(* only call pattern assumed is the one of the single place that inserts a *)
(* long-term picture, Decoder::finalize_pending, which clears the buffer   *)
(* for the IDR picture first (src/src/decoder.rs:307-315).                 *)
(*                                                                         *)
(* What holds here holds whatever stream is decoded, damaged ones          *)
(* included.  The reference marking of a conforming stream is the subject  *)
(* of module DpbMarking, and picture order counts that of module PocLsb.     *)
(***************************************************************************)
EXTENDS DpbOps

CONSTANTS
    FrameNumSet,   \* values of frame_num
    LongIdxSet,    \* values of long_term_frame_idx
    Capacities,    \* values of max_num_ref_frames that SPSs announce
    MaxInserts     \* bound on the pictures inserted in a behaviour

ASSUME DpbAssumption ==
    /\ FrameNumSet \subseteq Nat /\ IsFiniteSet(FrameNumSet)  \* log2_max_frame_num bits
    /\ LongIdxSet \subseteq Nat
    /\ Capacities \subseteq Nat
    /\ MaxInserts \in Nat

VARIABLES
    entries,         \* Dpb::entries
    max_ref_frames,  \* Dpb::max_ref_frames
    inserted,        \* pictures inserted so far: the rank of the last one
    limit,           \* history: max_ref_frames at the last short-term frame
    repeated         \* history: two short-term frames had one frame_num

vars == <<entries, max_ref_frames, inserted, limit, repeated>>

Pictures == [id : 1..MaxInserts, frame_num : FrameNumSet, poc : {0},
             structure : Structures]
Statuses == {ShortTerm} \cup {LongTerm(i) : i \in LongIdxSet \cup {0}}

Init ==
    /\ entries = {}
    /\ max_ref_frames = 0
    /\ inserted = 0
    /\ limit = 0
    /\ repeated = FALSE

\* The second field of the frame that has the first one: the next picture,
\* of the other parity.
Complements(second, first) ==
    /\ second.pic.frame_num = first.pic.frame_num
    /\ second.pic.id = first.pic.id + 1
    /\ {second.pic.structure, first.pic.structure} = {"TopField", "BottomField"}

\* A short-term picture with the frame_num of another one in the buffer is
\* its second field, or repeats it.
Sharers(new) == {e \in Shorts(entries) : e.pic.frame_num = new.pic.frame_num}

StartsFrame(new) ==
    new.ref = ShortTerm /\ \A e \in Sharers(new) : ~Complements(new, e)

Repeats(new) ==
    new.ref = ShortTerm /\ \E e \in Sharers(new) : ~Complements(new, e)

SetMaxRefFrames(n) ==
    /\ max_ref_frames' = n
    /\ UNCHANGED <<entries, inserted, limit, repeated>>

\* The guard on a long-term status is the call pattern of finalize_pending.
DpbInsert(frame_num, structure, ref) ==
    LET pic == Picture(inserted + 1, frame_num, 0, structure)
        new == Entry(pic, ref)
    IN  /\ inserted < MaxInserts
        /\ max_ref_frames \in Capacities   \* no slice is decoded before an SPS
        /\ ref.kind = "long" => entries = {}
        /\ inserted' = inserted + 1
        /\ entries' = Insert(entries, max_ref_frames, pic, ref)
        /\ limit' = IF StartsFrame(new) THEN max_ref_frames ELSE limit
        /\ repeated' = (repeated \/ Repeats(new))
        /\ UNCHANGED max_ref_frames

Mark(marked) ==
    /\ entries' = marked
    /\ UNCHANGED <<max_ref_frames, inserted, limit, repeated>>

Next ==
    \/ \E n \in Capacities : SetMaxRefFrames(n)
    \/ \E fn \in FrameNumSet, s \in Structures,
          ref \in {Unused, ShortTerm, LongTerm(0)} : DpbInsert(fn, s, ref)
    \/ \E fn \in FrameNumSet : Mark(MarkShortTermUnused(entries, fn))
    \/ \E i \in LongIdxSet : Mark(MarkLongTermUnused(entries, i))
    \/ \E fn \in FrameNumSet, i \in LongIdxSet : Mark(AssignLongTerm(entries, fn, i))
    \/ \E fn \in FrameNumSet, i \in LongIdxSet :
          Mark(MarkCurrentAsLongTerm(entries, i, fn))
    \/ \E k \in {0} \cup {i + 1 : i \in LongIdxSet} :
          Mark(SetMaxLongTermFrameIdx(entries, k))
    \/ Mark(ClearAllRefs(entries))

Spec == Init /\ [][Next]_vars

-----------------------------------------------------------------------------
(* Every entry is a reference picture: remove_unused() runs before each    *)
(* method returns, so no Unused entry is ever seen between two calls.      *)
TypeOK ==
    /\ entries \in SUBSET [pic : Pictures, ref : Statuses]
    /\ max_ref_frames \in Capacities \cup {0}
    /\ inserted \in 0..MaxInserts
    /\ limit \in Capacities \cup {0} /\ repeated \in BOOLEAN

(* A long-term index names one picture: assign_long_term and               *)
(* mark_current_as_long_term free the index before they hand it out.       *)
LongTermIndexUnique ==
    \A e, f \in Longs(entries) : e.ref = f.ref => e = f

(* The ranks name the entries: they grow with every insertion, so the      *)
(* vector order is the order of the ranks and no two entries share one.    *)
RanksUnique ==
    /\ \A e \in entries : e.pic.id <= inserted
    /\ \A e, f \in entries : e.pic.id = f.pic.id => e = f

\* The short-term frames of the buffer: its pictures, a second field with
\* its first one.
ShortFrames(es) == {e \in Shorts(es) : \A f \in Shorts(es) : ~Complements(e, f)}

(* The buffer has no more short-term frames than max_num_ref_frames was    *)
(* when the last of them came, one at the least, whatever marking commands *)
(* and SPSs come between the insertions: "While short-term ref count >=    *)
(* max_ref_frames, mark the oldest as unused" (src/src/dpb.rs:558).  The   *)
(* code counts frame_nums, so a short-term frame that repeats one which is *)
(* still in use, as none of a conforming stream does (7.4.3), escapes the  *)
(* bound for good.                                                         *)
ShortTermWithinCapacity ==
    ~repeated => Cardinality(ShortFrames(entries)) <= Max0(limit, 1)

(* An insertion that displaces anything displaces the oldest short-term    *)
(* frames first: no short-term picture is dropped while an older one of    *)
(* another frame_num is kept, and no long-term picture is dropped at all.  *)
WindowEvictsOldest ==
    [][ inserted' # inserted =>
          /\ Longs(entries) \subseteq entries'
          /\ \A e \in Shorts(entries) \ entries', f \in Shorts(entries) \cap entries' :
               f.pic.id < e.pic.id =>
                 \E g \in Shorts(entries) \ entries' :
                   g.pic.frame_num = e.pic.frame_num /\ g.pic.id < f.pic.id
      ]_vars
=============================================================================

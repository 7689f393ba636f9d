------------------------------ MODULE Decoder -------------------------------
(***************************************************************************)
(* Decoder (src/src/decoder.rs): parameter sets and slices in, frames in   *)
(* decoding order out, one picture late.  The state is a record            *)
(*                                                                         *)
(*   sps_table, pps_table   what the tables map ids to: the width and the  *)
(*                          height of an SPS's frames, the SPS of a PPS    *)
(*   pending                the PictureState being assembled, or None      *)
(*   pending_field          a field that waits for its complement, or None *)
(*   panicked               a call panicked: the crate catches no panic    *)
(*                                                                         *)
(* and each method an operator from a state to its result and next state.  *)
(* Macroblock decoding is abstracted to which slices went into a picture   *)
(* and to where it fails: `outcome` of a NAL unit says whether it parses,  *)
(* and for a slice whether the error comes before decode_slice takes the   *)
(* pending picture ("header", and "empty" when not even first_mb_in_slice  *)
(* can be read) or after ("data").  What finalizing does to the reference  *)
(* pictures is module DpbMarking; nothing of it flows back into the        *)
(* control below.  Pictures of as many macroblocks have as many in a row   *)
(* (an assumption of OrderedDecoder), so cropping drops no frame.          *)
(***************************************************************************)
EXTENDS Integers, FiniteSets

CONSTANT None   \* Rust's None

NewDecoder ==
    [sps_table |-> <<>>, pps_table |-> <<>>, pending |-> None, pending_field |-> None,
     panicked |-> FALSE]

SliceTypes == {"Slice", "SliceIdr"}

\* What decode_nal returns, with the state it leaves; Err when it panics too.
Ok(d, frame) == [d |-> d, ok |-> TRUE, frame |-> frame]
Err(d)       == [d |-> d, ok |-> FALSE, frame |-> None]

Put(table, id, value) ==
    [k \in DOMAIN table \cup {id} |-> IF k = id THEN value ELSE table[k]]

-----------------------------------------------------------------------------
(* finalize_pending: hand the pending picture out.  A field is held until  *)
(* another field comes, and the two are then interleaved into one frame.   *)

FrameOf(ps) ==
    [poc |-> ps.frame_poc, width |-> ps.width, height |-> ps.height, slices |-> ps.slices]

\* The rows of a frame of this width and height can be taken from the field:
\* no slice of its luma or chroma plane is out of range.
Covers(field, width, height) ==
    /\ width * (height \div 2) <= field.width * field.height
    /\ (width \div 2) * (height \div 4) <= (field.width \div 2) * (field.height \div 2)

\* The width is the second field's, the height that of its SPS.
Combine(first, second, frame_height) ==
    [poc    |-> IF second.poc <= first.poc THEN second.poc ELSE first.poc,
     width  |-> second.width,
     height |-> frame_height,
     slices |-> first.slices \cup second.slices]

\* Both fields are taken out before they are combined, which panics when one
\* of them is too small.
FinalizePending(d) ==
    IF d.pending = None THEN [d |-> d, frame |-> None]
    ELSE LET taken == [d EXCEPT !.pending = None]
             ps == d.pending
             frame == FrameOf(ps)
             combined == [taken EXCEPT !.pending_field = None]
         IN  IF ~ps.field_pic_flag THEN [d |-> taken, frame |-> frame]
             ELSE IF d.pending_field = None
             THEN [d |-> [taken EXCEPT !.pending_field = frame], frame |-> None]
             ELSE IF \A field \in {d.pending_field, frame} :
                       Covers(field, ps.width, ps.frame_height)
             THEN [d |-> combined, frame |-> Combine(d.pending_field, frame, ps.frame_height)]
             ELSE [d |-> [combined EXCEPT !.panicked = TRUE], frame |-> None]

Flush(d) ==
    LET f == FinalizePending(d)
    IN  IF f.frame # None THEN f
        ELSE [d |-> [f.d EXCEPT !.pending_field = None], frame |-> f.d.pending_field]

-----------------------------------------------------------------------------
(* decode_slice.  The first PPS of the table is used, whichever the slice  *)
(* names.                                                                  *)

FirstPps(d) == d.pps_table[CHOOSE i \in DOMAIN d.pps_table :
                              \A j \in DOMAIN d.pps_table : i <= j]

HasParameterSets(d) ==
    DOMAIN d.pps_table # {} /\ FirstPps(d) \in DOMAIN d.sps_table

ActiveSps(d) == d.sps_table[FirstPps(d)]

\* A field has half the height of the SPS.
PictureHeight(sps, field_pic_flag) == IF field_pic_flag THEN sps.height \div 2 ELSE sps.height

Macroblocks(width, height) == ((width + 15) \div 16) * ((height + 15) \div 16)

TotalMbs(sps, field_pic_flag) == Macroblocks(sps.width, PictureHeight(sps, field_pic_flag))

\* Otherwise a new picture takes the place of the pending one.
IsContinuation(d, nal) ==
    /\ nal.first_mb > 0
    /\ d.pending # None
    /\ d.pending.total_mbs = TotalMbs(ActiveSps(d), nal.field_pic_flag)

\* What the header and the SPS of the last slice set, and what those of the
\* first one do.
WithSlice(d, nal) ==
    [d.pending EXCEPT !.field_pic_flag = nal.field_pic_flag,
                      !.frame_height = ActiveSps(d).height,
                      !.slices = @ \cup {nal.slice}]

NewPicture(d, nal) ==
    LET sps == ActiveSps(d)
    IN  [frame_poc |-> nal.poc, field_pic_flag |-> nal.field_pic_flag,
         width |-> sps.width, height |-> PictureHeight(sps, nal.field_pic_flag),
         frame_height |-> sps.height, total_mbs |-> TotalMbs(sps, nal.field_pic_flag),
         slices |-> {nal.slice}]

\* The Result, with the state in which decode_slice leaves the decoder.
DecodeSlice(d, nal) ==
    IF ~HasParameterSets(d) \/ nal.outcome \in {"header", "empty"} THEN [d |-> d, ok |-> FALSE]
    ELSE LET continues == IsContinuation(d, nal)
         IN  IF nal.outcome = "data"
             THEN [d  |-> IF continues THEN [d EXCEPT !.pending = None] ELSE d,
                   ok |-> FALSE]
             ELSE [d  |-> [d EXCEPT !.pending = IF continues
                                                THEN WithSlice(d, nal)
                                                ELSE NewPicture(d, nal)],
                   ok |-> TRUE]

-----------------------------------------------------------------------------
(* decode_nal.                                                             *)

\* What finalizing the previous picture gives, before the slice is decoded.
Previous(d, nal) == IF nal.first_mb = 0 THEN FinalizePending(d) ELSE [d |-> d, frame |-> None]

\* Mutant: no backup of the pending picture.
DecodeSliceNalNoBackup(d, nal) ==
    LET prev == Previous(d, nal)
        s == DecodeSlice(prev.d, nal)
    IN  IF prev.d.panicked THEN Err(prev.d)
        ELSE IF s.ok \/ s.d.pending # None THEN Ok(s.d, prev.frame) ELSE Err(s.d)

\* Mutant: any slice NAL unit starts a picture.
DecodeSliceNalAlwaysNew(d, nal) ==
    LET prev == FinalizePending(d)
        s == DecodeSlice(prev.d, nal)
    IN  IF s.ok /\ ~prev.d.panicked THEN Ok(s.d, prev.frame) ELSE Err(s.d)

\* Mutant: the backup is taken before the picture is finalized, and
\* restored whenever the slice fails.
DecodeSliceNalRestores(d, nal) ==
    LET prev == Previous(d, nal)
        s == DecodeSlice(prev.d, nal)
    IN  IF prev.d.panicked THEN Err(prev.d)
        ELSE IF s.ok \/ s.d.pending # None THEN Ok(s.d, prev.frame)
        ELSE Ok([s.d EXCEPT !.pending = d.pending], prev.frame)

DecodeSliceNal(d, nal) ==
    LET prev == Previous(d, nal)
        had_pending == nal.first_mb # 0 /\ d.pending # None
        s == DecodeSlice(prev.d, nal)
    IN  IF prev.d.panicked THEN Err(prev.d)
        ELSE IF s.ok \/ s.d.pending # None THEN Ok(s.d, prev.frame)
        ELSE IF had_pending THEN Ok([s.d EXCEPT !.pending = d.pending], prev.frame)
        ELSE Err(s.d)

DecodeNal(d, nal) ==
    CASE nal.type = "Sps" ->
           IF nal.outcome = "ok"
           THEN Ok([d EXCEPT !.sps_table = Put(@, nal.id, nal.size)], None)
           ELSE Err(d)
      [] nal.type = "Pps" ->
           IF nal.outcome = "ok"
           THEN Ok([d EXCEPT !.pps_table = Put(@, nal.id, nal.sps)], None)
           ELSE Err(d)
      [] nal.type \in SliceTypes -> DecodeSliceNal(d, nal)
      [] OTHER -> Ok(d, None)
=============================================================================

--------------------------- MODULE OrderedDecoder ---------------------------
(***************************************************************************)
(* OrderedDecoder (src/src/decoder.rs:1166-1414) around the Decoder of     *)
(* module Decoder, and the caller that feeds it a stream NAL unit by NAL   *)
(* unit.  The caller's metadata for a picture is the number of the frame   *)
(* it belongs to, so that a mispairing shows.                              *)
(*                                                                         *)
(* The stream is one the encoder side of the standard allows: frames or    *)
(* pairs of fields, each in one or more slices in order, with parameter    *)
(* sets between them.  `Kinds`, `Loss` and `Outcomes` add non-paired       *)
(* fields, frames with op 5, NAL units that do not arrive and NAL units    *)
(* that do not decode.                                                     *)
(***************************************************************************)
EXTENDS Decoder, Sequences

CONSTANTS
    max_depth,    \* OrderedDecoder::max_depth
    Kinds,        \* of frames: subset of {"frame", "fields", "single", "reset"}
    Loss,         \* "none", "join" (the stream's first slice) or "any"
    Outcomes,     \* of slices: subset of {"ok", "header", "data", "empty"}
    Widths,       \* of frames, in samples
    Heights,
    Pocs,         \* POCs of non-IDR frames
    MaxFrames,    \* bound on the frames of the stream
    MaxSlices,    \* bound on the slices of a picture
    MaxSets       \* bound on the SPSs sent

ASSUME OrderedDecoderAssumption ==
    /\ max_depth \in Nat \ {0}      \* with_max_depth takes max(1)
    /\ Kinds \subseteq {"frame", "fields", "single", "reset"}
    /\ Loss \in {"none", "join", "any"}
    /\ "ok" \in Outcomes /\ Outcomes \subseteq {"ok", "header", "data", "empty"}
    /\ Widths \subseteq Nat \ {0} /\ Heights \subseteq Nat \ {0} /\ Pocs \subseteq Nat \ {0}
    /\ \A w, v \in Widths : \A h, g \in Heights \cup {height \div 2 : height \in Heights} :
         Macroblocks(w, h) = Macroblocks(v, g) => Macroblocks(w, 1) = Macroblocks(v, 1)
    /\ {MaxFrames, MaxSlices, MaxSets} \subseteq Nat
    /\ MaxSlices > 0                \* every picture has a first slice

VARIABLES
    d,               \* OrderedDecoder::inner
    buffer,          \* OrderedDecoder::buffer
    building_meta,   \* OrderedDecoder::building_meta
    gop_id,          \* OrderedDecoder::gop_id
    shown,           \* the caller: frames received, with their metadata
    sent,            \* the stream: GOP and POC of each frame sent
    slices,          \* the stream: the slices of each frame
    cur,             \* the stream: where it is in the last frame
    sets             \* the stream: SPSs sent

vars == <<d, buffer, building_meta, gop_id, shown, sent, slices, cur, sets>>

decoderVars == <<d, buffer, building_meta, gop_id, shown>>

-----------------------------------------------------------------------------
(* The reorder buffer.  The key of an entry is (gop_id, POC); the vector   *)
(* order breaks ties, as the stable sort and min_by_key do.                *)

Before(s, i, j) ==
    \/ s[i].gop < s[j].gop
    \/ s[i].gop = s[j].gop /\ s[i].frame.poc < s[j].frame.poc
    \/ s[i].gop = s[j].gop /\ s[i].frame.poc = s[j].frame.poc /\ i < j

Rank(s, i) == Cardinality({j \in DOMAIN s : Before(s, j, i)})

\* The indices of s by key, and the n lowest entries; what is left keeps
\* its order.
ByKey(s) == [k \in DOMAIN s |-> CHOOSE i \in DOMAIN s : Rank(s, i) = k - 1]

Lowest(s, n) == [k \in 1..n |-> s[ByKey(s)[k]]]

Without(s, n) ==
    LET left == {i \in DOMAIN s : Rank(s, i) >= n}
        nth(k) == CHOOSE i \in left : Cardinality({j \in left : j < i}) = k - 1
    IN  [k \in 1..Cardinality(left) |-> s[nth(k)]]

\* How many entries a call releases.  drain_completed_gops takes those of
\* earlier GOPs, then pop_lowest those beyond max_depth.
Completed(s, gop) == Cardinality({i \in DOMAIN s : s[i].gop < gop})
Excess(s) == IF Len(s) > max_depth THEN Len(s) - max_depth ELSE 0

\* Mutant: a full buffer releases nothing until the GOP is complete.
ReleasedNoBound(s, gop) == Completed(s, gop)

Released(s, gop) ==
    IF Completed(s, gop) >= Excess(s) THEN Completed(s, gop) ELSE Excess(s)

\* Mutant: the GOP counter moves before the previous frame is pushed.
PushedNextGop(frame) == Append(buffer, [gop |-> gop_id + 1, frame |-> frame, meta |-> building_meta])

Pushed(frame) == Append(buffer, [gop |-> gop_id, frame |-> frame, meta |-> building_meta])

Received(entries) ==
    [k \in DOMAIN entries |-> [frame |-> entries[k].frame, meta |-> entries[k].meta]]

\* Mutant: the frame gets a copy of the metadata, `clone` for `take`.
BuildingMetaCopied(nal, meta, finalized) ==
    IF nal.type \in SliceTypes /\ building_meta = None THEN meta ELSE building_meta

\* Mutant: only a slice that starts a picture brings metadata.
BuildingMetaFirstSlice(nal, meta, finalized) ==
    LET left == IF finalized THEN None ELSE building_meta
    IN  IF nal.type \in SliceTypes /\ nal.first_mb = 0 /\ (finalized \/ left = None)
        THEN meta ELSE left

\* `finalized`: the call returned a frame, which took the stored metadata.
BuildingMeta(nal, meta, finalized) ==
    LET left == IF finalized THEN None ELSE building_meta
    IN  IF nal.type \in SliceTypes /\ (finalized \/ left = None) THEN meta ELSE left

\* Mutant: an IDR picture starts no GOP.
NextGopNever(nal) == gop_id

NextGop(nal) == IF nal.type = "SliceIdr" THEN gop_id + 1 ELSE gop_id

DecodeNalWithMeta(nal, meta) ==
    LET r == DecodeNal(d, nal)
        full == IF r.frame = None THEN buffer ELSE Pushed(r.frame)
        n == Released(full, NextGop(nal))
    IN  /\ d' = r.d
        /\ IF ~r.ok THEN UNCHANGED <<buffer, building_meta, gop_id, shown>>
           ELSE /\ building_meta' = BuildingMeta(nal, meta, r.frame # None)
                /\ gop_id' = NextGop(nal)
                /\ shown' = shown \o Received(Lowest(full, n))
                /\ buffer' = Without(full, n)

\* Mutant: the buffer is drained, the picture under construction stays.
FlushWithMetaBuffer ==
    /\ shown' = shown \o Received(Lowest(buffer, Len(buffer)))
    /\ buffer' = <<>>
    /\ UNCHANGED <<d, building_meta, gop_id>>

FlushWithMeta ==
    LET r == Flush(d)
        full == IF r.frame = None THEN buffer ELSE Pushed(r.frame)
    IN  /\ d' = r.d
        /\ IF r.d.panicked THEN UNCHANGED <<buffer, building_meta, shown>>
           ELSE /\ building_meta' = IF r.frame = None THEN building_meta ELSE None
                /\ shown' = shown \o Received(Lowest(full, Len(full)))
                /\ buffer' = <<>>
        /\ UNCHANGED gop_id

-----------------------------------------------------------------------------
(* The stream.  cur.part: 0 in a frame picture, 1 and 2 in the fields of a *)
(* pair, 3 in a non-paired field; cur.n: the last slice of that picture.   *)

FrameNumber == Len(sent)

Sizes == [width : Widths, height : Heights]

AtBoundary == cur.part # 1     \* the last frame may be over

\* A panic ends the program, and with it the stream.
Going == ~cur.done /\ ~d.panicked

Slice(number, part, n) == [frame |-> number, part |-> part, n |-> n]

\* The NAL unit that carries a slice.  Both fields of a pair are sent with
\* the POC of the pair, plus one for the second; only a first field is IDR.
\* Where first_mb_in_slice cannot be read, decode_nal takes it as 0.
SliceNal(idr, poc, slice, outcome) ==
    [type |-> IF idr /\ slice.part # 2 THEN "SliceIdr" ELSE "Slice",
     first_mb |-> IF outcome = "empty" THEN 0 ELSE slice.n,
     field_pic_flag |-> slice.part # 0,
     poc |-> IF slice.part = 2 THEN poc + 1 ELSE poc,
     slice |-> slice,
     outcome |-> outcome]

MayLose(slice) ==
    \/ Loss = "any"
    \/ Loss = "join" /\ slice = Slice(1, slice.part, 0) /\ slice.part # 2

\* One slice leaves the encoder; it is decoded or it does not arrive.
Feed(idr, poc, slice) ==
    \/ \E o \in Outcomes : DecodeNalWithMeta(SliceNal(idr, poc, slice, o), slice.frame)
    \/ MayLose(slice) /\ UNCHANGED decoderVars

\* The encoder reorders no further than the buffer is deep.
ReorderFits(gop, poc) ==
    Cardinality({f \in DOMAIN sent : sent[f].gop = gop /\ sent[f].poc > poc}) <= max_depth

PocIsFree(gop, poc) ==
    \A f \in DOMAIN sent : sent[f].gop = gop => sent[f].poc # poc

\* A frame with op 5 is shown after all before it; order counts start again
\* from it, although its own header continues the old ones.
SendFrame(idr, kind, poc) ==
    LET number == FrameNumber + 1
        resets == kind = "reset"
        gop == IF idr \/ resets \/ sent = <<>> THEN number ELSE sent[FrameNumber].gop
        part == CASE kind \in {"frame", "reset"} -> 0 [] kind = "fields" -> 1
                  [] kind = "single" -> 3
    IN  /\ Going /\ AtBoundary /\ FrameNumber < MaxFrames
        /\ Loss = "none" => cur.pps /\ (sent = <<>> => idr)
        /\ idr => poc = 0
        /\ idr \/ (cur.resized = FALSE /\ PocIsFree(gop, poc) /\ ReorderFits(gop, poc))
        /\ resets => ~idr /\ \A f \in DOMAIN sent : sent[f].poc < poc
        /\ sent' = Append(sent, [gop |-> gop, poc |-> IF resets THEN 0 ELSE poc])
        /\ slices' = Append(slices, {Slice(number, part, 0)})
        /\ cur' = [cur EXCEPT !.part = part, !.n = 0, !.idr = idr, !.resized = FALSE]
        /\ UNCHANGED sets
        /\ Feed(idr, poc, Slice(number, part, 0))

\* Another slice of the same picture, or the first one of the second field.
SendSlice(part, n) ==
    LET slice == Slice(FrameNumber, part, n)
    IN  /\ Going /\ sent # <<>> /\ ~cur.resized
        /\ \/ part = cur.part /\ n = cur.n + 1 /\ n < MaxSlices
           \/ cur.part = 1 /\ part = 2 /\ n = 0
        /\ slices' = [slices EXCEPT ![FrameNumber] = @ \cup {slice}]
        /\ cur' = [cur EXCEPT !.part = part, !.n = n]
        /\ UNCHANGED <<sent, sets>>
        /\ Feed(cur.idr, sent[FrameNumber].poc, slice)

\* An SPS and the PPS that names it, before an IDR frame or at the start.
SendSps(size) ==
    /\ Going /\ AtBoundary /\ sets < MaxSets
    /\ sets' = sets + 1
    /\ cur' = [cur EXCEPT !.resized = sent # <<>>]
    /\ UNCHANGED <<sent, slices>>
    /\ DecodeNalWithMeta([type |-> "Sps", id |-> 0, size |-> size, outcome |-> "ok"], None)

SendPps ==
    /\ Going /\ AtBoundary /\ sets > 0
    /\ cur' = [cur EXCEPT !.pps = TRUE]
    /\ UNCHANGED <<sent, slices, sets>>
    /\ DecodeNalWithMeta([type |-> "Pps", id |-> 0, sps |-> 0, outcome |-> "ok"], None)

\* Anything else, and parameter sets that do not parse.
SendOther(type) ==
    /\ Going
    /\ UNCHANGED <<sent, slices, cur, sets>>
    /\ DecodeNalWithMeta([type |-> type, outcome |-> "bad"], None)

End ==
    /\ Going /\ AtBoundary
    /\ cur' = [cur EXCEPT !.done = TRUE]
    /\ UNCHANGED <<sent, slices, sets>>
    /\ FlushWithMeta

Init ==
    /\ d = NewDecoder
    /\ buffer = <<>> /\ shown = <<>> /\ sent = <<>> /\ slices = <<>>
    /\ building_meta = None
    /\ gop_id = 0 /\ sets = 0
    /\ cur = [part |-> 0, n |-> 0, idr |-> FALSE, resized |-> FALSE, pps |-> FALSE, done |-> FALSE]

Next ==
    \/ \E idr \in BOOLEAN, kind \in Kinds, poc \in Pocs \cup {0} : SendFrame(idr, kind, poc)
    \/ \E part \in 0..3, n \in 0..MaxSlices - 1 : SendSlice(part, n)
    \/ \E size \in Sizes : SendSps(size)
    \/ SendPps
    \/ \E type \in {"Sei", "Sps", "Pps"} : SendOther(type)
    \/ End

Spec == Init /\ [][Next]_vars

-----------------------------------------------------------------------------
SliceSet == [frame : 1..MaxFrames, part : 0..3, n : 0..MaxSlices - 1]
Frames == [poc : Nat, width : Nat, height : Nat, slices : SUBSET SliceSet]
Metas == 1..MaxFrames \cup {None}
PendingSet == [frame_poc : Nat, field_pic_flag : BOOLEAN, width : Nat, height : Nat,
               frame_height : Nat, total_mbs : Nat, slices : (SUBSET SliceSet) \ {{}}]

\* An Option that is None holds nothing else.
ASSUME NoneAssumption == None \notin Nat \cup Frames \cup PendingSet

Elements(s) == {s[i] : i \in DOMAIN s}
Entries == Elements(shown) \cup Elements(buffer)

\* The frames of the stream that a decoded frame has slices of.
Numbers(frame) == {s.frame : s \in frame.slices}

TypeOK ==
    /\ d.pending \in PendingSet \cup {None}
    /\ d.pending_field \in Frames \cup {None} /\ d.panicked \in BOOLEAN
    /\ \A e \in Entries : e.frame \in Frames /\ e.meta \in Metas
    /\ \A e \in Elements(buffer) : e.gop <= gop_id
    /\ building_meta \in Metas

(* Metadata stays with its picture through the delay of the inner decoder  *)
(* and through reordering: "This keeps timestamps such as PTS values       *)
(* associated with the correct frame through B-frame reordering"           *)
(* (src/src/decoder.rs:1265).  The stored metadata is that of the picture  *)
(* under construction, both fields of a pair included.                     *)
MetaAssociation ==
    /\ \A e \in Entries : Numbers(e.frame) = {e.meta}
    /\ d.pending # None => Numbers(d.pending) = {building_meta}
    /\ d.pending_field # None => Numbers(d.pending_field) = {building_meta}

(* Every frame is put together of all its slices, of both fields, and of   *)
(* no other's: what decides is first_mb_in_slice alone.                    *)
FramesWhole ==
    \A e \in Entries : \E f \in DOMAIN sent : e.frame.slices = slices[f]

(* The caller never waits for more than the reorder buffer and the picture *)
(* under construction: "The buffer also has a maximum depth (16 frames) to *)
(* bound latency" (src/src/decoder.rs:1133).                               *)
LatencyBounded == FrameNumber - Len(shown) <= max_depth + 1

(* The frames come out in display order, and each of them once: "emits     *)
(* them in display order" of the reorder buffer and the drain at an IDR.   *)
Order == INSTANCE DisplayOrder WITH
            shown <- [i \in DOMAIN shown |-> CHOOSE f \in DOMAIN sent :
                                               f \in Numbers(shown[i].frame)]

ImplementsDisplayOrder == Order!Spec

(* Nothing is left behind: once the caller has flushed, every frame of the *)
(* stream has been released, the ones still in the reorder buffer, under   *)
(* construction or held as a field included.                               *)
AllShownOnceFlushed == cur.done => Order!AllShown

(* Whatever arrives, no frame reaches the caller without metadata, which   *)
(* would be the panic of expect_meta (src/src/decoder.rs:1408).            *)
MetaPresent == \A e \in Entries : e.meta # None

\* The slices of every frame, those received and those in the buffer.
Pieces(out, left) ==
    [i \in 1..Len(out) + Len(left) |-> IF i <= Len(out) THEN out[i].frame.slices
                                       ELSE left[i - Len(out)].frame.slices]

SlicesIn(picture) == IF picture = None THEN {} ELSE picture.slices

(* Whatever arrives, no slice is part of two frames: the backup that       *)
(* decode_nal restores is never next to what it was made from, and a field *)
(* is combined once.                                                       *)
NoSliceTwice ==
    LET pieces == Pieces(shown, buffer)
        pending == SlicesIn(d.pending)
        field == SlicesIn(d.pending_field)
    IN  /\ \A i, j \in DOMAIN pieces : i # j => pieces[i] \cap pieces[j] = {}
        /\ \A i \in DOMAIN pieces : pieces[i] \cap (pending \cup field) = {}
        /\ pending \cap field = {}

(* A slice that is not the first of its picture and fails leaves the       *)
(* decoder as it was, although decode_slice has taken the pending picture  *)
(* by then: "Restore the backup so already-decoded MBs from earlier slices *)
(* are preserved" (src/src/decoder.rs:234).  Only where first_mb_in_slice  *)
(* cannot be read is the picture finalized, a field held with its slices.  *)
FailedContinuationRestores ==
    [][ LET slice == Slice(FrameNumber', cur'.part, cur'.n)
        IN  /\ d.pending # None /\ slices' # slices /\ cur'.n > 0
            /\ d'.pending = None \/ slice \notin d'.pending.slices
            => d' \in {d, FinalizePending(d).d}
      ]_vars

(* "If a single field is pending (complement never arrived), output it as  *)
(* a half-height frame rather than losing it" (src/src/decoder.rs:256).    *)
NoFieldLeftBehind == cur.done => d.pending_field = None

(* "Decode an Annex B fuzz regression file. Must not panic."               *)
(* (src/src/decoder.rs:2559): whatever two fields are combined.            *)
NeverPanics == ~d.panicked

(* "when this NAL starts a new picture, the decoder finalizes the previous *)
(* one and returns it" (src/src/decoder.rs:168): the slices of a picture   *)
(* that the decoder holds leave it for the caller or the buffer.           *)
FinishedFramesReturned ==
    [][ d.pending # None /\ d.pending.slices # {} =>
          \A s \in d.pending.slices :
            \/ d'.pending # None /\ s \in d'.pending.slices
            \/ d'.pending_field # None /\ s \in d'.pending_field.slices
            \/ \E e \in Entries' : s \in e.frame.slices
      ]_vars

(* "Continuation slices (first_mb > 0) belong to the same picture"         *)
(* (src/src/decoder.rs:203): a frame has slices of one picture, or of the  *)
(* two fields of one.                                                      *)
SlicesOfOnePicture ==
    \A e \in Entries : Cardinality(Numbers(e.frame)) = 1
=============================================================================

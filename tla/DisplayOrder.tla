---------------------------- MODULE DisplayOrder ----------------------------
(***************************************************************************)
(* What OrderedDecoder promises its caller: "emits frames in display order *)
(* (sorted by picture order count) instead of decode order"                *)
(* (src/src/decoder.rs:1119), each frame once and none forgotten.  Frames  *)
(* are numbered in decoding order.  No definition here stands for code;    *)
(* OrderedDecoder is shown to implement it.                                *)
(***************************************************************************)
EXTENDS Integers, Sequences

VARIABLES
    sent,    \* sent[f] is the place of frame f: its GOP and its POC
    shown    \* the frames released so far, in the order of their release

vars == <<sent, shown>>

Precedes(f, g) ==
    \/ sent[f].gop < sent[g].gop
    \/ sent[f].gop = sent[g].gop /\ sent[f].poc < sent[g].poc

Ordered == \A i, j \in DOMAIN shown : i < j => Precedes(shown[i], shown[j])

Init == sent = <<>> /\ shown = <<>>

\* A frame is sent, frames are released, or both: one NAL unit both starts
\* a picture and completes an earlier one.
Next ==
    /\ UNCHANGED sent \/ (Len(sent') = Len(sent) + 1 /\ SubSeq(sent', 1, Len(sent)) = sent)
    /\ SubSeq(shown', 1, Len(shown)) = shown
    /\ \A i \in DOMAIN shown' : shown'[i] \in DOMAIN sent'
    /\ Ordered'

AllShown == \A f \in DOMAIN sent : \E i \in DOMAIN shown : shown[i] = f

Spec == Init /\ [][Next]_vars
=============================================================================

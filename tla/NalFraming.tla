----------------------------- MODULE NalFraming -----------------------------
(***************************************************************************)
(* nal.rs: from bytes to NAL units, for streams with start codes (Annex B) *)
(* and for the length-prefixed samples of MP4 with their avcC box.         *)
(*                                                                         *)
(* Bytes are counted from 0 as in the code; a unit is [ref, type, rbsp],   *)
(* and an operator that returns Option<NalUnit> returns a sequence of at   *)
(* most one.  That an RBSP without emulation prevention is borrowed and    *)
(* not copied is left out.                                                 *)
(***************************************************************************)
EXTENDS Integers, Sequences, FiniteSetsExt

At0(data, i) == data[i + 1]
Slice0(data, from, to) == SubSeq(data, from + 1, to)      \* data[from..to]
NoStartCode == [after |-> -1, start |-> -1]

-----------------------------------------------------------------------------
(* Emulation prevention and the NAL header *)

Prevents(data, i) ==
  /\ i + 2 < Len(data)
  /\ At0(data, i) = 0 /\ At0(data, i + 1) = 0 /\ At0(data, i + 2) = 3

(* Mutant: a 3 is removed behind two zeros of the output, a second one too. *)
RemoveRepeatedly(data) ==
  LET out[i \in 0..Len(data)] ==
        IF i = 0 THEN <<>>
        ELSE LET n == Len(out[i - 1])
             IN IF data[i] = 3 /\ n > 1 /\ out[i - 1][n] = 0 /\ out[i - 1][n - 1] = 0
                THEN out[i - 1] ELSE Append(out[i - 1], data[i])
  IN out[Len(data)]

RemoveEmulationPrevention(data) ==
  LET rest[i \in 0..Len(data)] ==
        IF i = Len(data) THEN <<>>
        ELSE IF Prevents(data, i) THEN <<0, 0>> \o rest[i + 3]
        ELSE <<At0(data, i)>> \o rest[i + 1]
  IN rest[0]

(* None for an empty unit and for one with forbidden_zero_bit. *)
ParseNalBytes(bytes) ==
  IF bytes = <<>> \/ bytes[1] >= 128 THEN <<>>
  ELSE <<[ref  |-> bytes[1] \div 32,
          type |-> bytes[1] % 32,
          rbsp |-> RemoveEmulationPrevention(Tail(bytes))]>>

-----------------------------------------------------------------------------
(* Annex B *)

StartCodeAt(data, i) ==
  /\ At0(data, i) = 0 /\ At0(data, i + 1) = 0
  /\ \/ At0(data, i + 2) = 1
     \/ i + 3 < Len(data) /\ At0(data, i + 2) = 0 /\ At0(data, i + 3) = 1

FindStartCode(data, offset) ==
  LET found == {i \in offset..Len(data) - 3 : StartCodeAt(data, i)}
      i == Min(found)
  IN IF found = {} THEN NoStartCode
     ELSE [start |-> i, after |-> IF At0(data, i + 2) = 1 THEN i + 3 ELSE i + 4]

(* The end of a unit that starts at i, without the zeros before a start code. *)
Stripped(data, i, end) ==
  Max({i} \cup {e \in i + 1..end : At0(data, e - 1) # 0})

ParseAnnexB(data) ==
  LET Unit(i, next) ==
        ParseNalBytes(Slice0(data, i, IF next = NoStartCode THEN Len(data)
                                      ELSE Stripped(data, i, next.start)))
      units[i \in -1..Len(data)] ==
        IF i = -1 \/ i = Len(data) THEN <<>>
        ELSE Unit(i, FindStartCode(data, i)) \o units[FindStartCode(data, i).after]
  IN units[FindStartCode(data, 0).after]

-----------------------------------------------------------------------------
(* AVCC *)

LengthSizes == {1, 2, 4}

BigEndian(data, i, size) ==
  LET v[k \in 0..size] == IF k = 0 THEN 0 ELSE (256 * v[k - 1]) + At0(data, i + k - 1)
  IN v[size]

(* A truncated unit ends the sample. *)
ParseAvcc(data, size) ==
  LET units[i \in 0..Len(data)] ==
        IF i + size > Len(data) THEN <<>>
        ELSE LET from == i + size
                 to   == from + BigEndian(data, i, size)
             IN IF to > Len(data) THEN <<>>
                ELSE ParseNalBytes(Slice0(data, from, to)) \o units[to]
  IN IF size \in LengthSizes THEN units[0] ELSE <<>>

(* count units with 16-bit lengths from off on: the units and the offset behind them. *)
Truncated == [ok |-> FALSE, off |-> 0, units |-> <<>>]
ConfigUnits(data, off, count) ==
  LET read[n \in 0..count] ==
        IF n = 0 THEN [ok |-> TRUE, off |-> off, units |-> <<>>]
        ELSE LET got  == read[n - 1]
                 from == got.off + 2
                 to   == from + BigEndian(data, got.off, 2)
             IN IF ~got.ok \/ from > Len(data) THEN Truncated
                ELSE IF to > Len(data) THEN Truncated
                ELSE [ok |-> TRUE, off |-> to,
                      units |-> got.units \o ParseNalBytes(Slice0(data, from, to))]
  IN read[count]

BadConfig == [ok |-> FALSE, size |-> 0, sps |-> <<>>, pps |-> <<>>]
ConfigOf(size, sps, pps) ==
  IF ~pps.ok THEN BadConfig
  ELSE [ok |-> TRUE, size |-> size, sps |-> sps.units, pps |-> pps.units]
ConfigAfterSps(data, size, sps) ==
  IF ~sps.ok \/ sps.off >= Len(data) THEN BadConfig
  ELSE ConfigOf(size, sps, ConfigUnits(data, sps.off + 1, At0(data, sps.off)))
ParseAvccConfig(data) ==
  LET size == (At0(data, 4) % 4) + 1
  IN IF Len(data) < 7 \/ At0(data, 0) # 1 \/ size \notin LengthSizes THEN BadConfig
     ELSE ConfigAfterSps(data, size, ConfigUnits(data, 6, At0(data, 5) % 32))
=============================================================================

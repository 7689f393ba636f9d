----------------------------- MODULE BitReader -----------------------------
(***************************************************************************)
(* BitstreamReader (bitstream.rs): reading an RBSP bit by bit.             *)
(*                                                                         *)
(* r is the reader: its bytes, the byte and bit it stands at, and whether  *)
(* every read so far succeeded.  The code returns at the first error; here *)
(* ok turns FALSE and stays so, and whoever uses the reader looks at ok.   *)
(* A read that gives a value returns [val, r].                             *)
(***************************************************************************)
EXTENDS Integers, Sequences, FiniteSetsExt

PADDING == 128      \* zero bytes behind the RBSP

New(rbsp) == [data |-> rbsp, byte |-> 0, bit |-> 0, ok |-> TRUE]

At(r) == 8 * r.byte + r.bit
Byte(r, k) == IF k < Len(r.data) THEN r.data[k + 1] ELSE 0
BitAt(r, p) == (Byte(r, p \div 8) \div (2 ^ (7 - (p % 8)))) % 2

(* Mutant: the bits left in the byte are forgotten. *)
SkipWholeBytes(r, n) == [r EXCEPT !.byte = @ + (n \div 8), !.bit = n % 8]

(* skip_bits does not look where it ends. *)
SkipBits(r, n) ==
  LET total == r.bit + n IN [r EXCEPT !.byte = @ + (total \div 8), !.bit = total % 8]

(* The value of the next n bits; beyond the padding too they read as zero. *)
PeekBits(r, n) ==
  LET v[k \in 0..n] == IF k = 0 THEN 0 ELSE (2 * v[k - 1]) + BitAt(r, At(r) + k - 1)
  IN v[n]

Consume(r, n) ==
  [SkipBits(r, n) EXCEPT !.ok = @ /\ At(r) + n <= 8 * (Len(r.data) + PADDING)]

ReadBits(r, n) == [val |-> PeekBits(r, n), r |-> Consume(r, n)]
ReadBit(r) == ReadBits(r, 1)

MaxLeadingZeros == 31
LeadingZeros(r) ==
  LET ones == {k \in 0..MaxLeadingZeros : BitAt(r, At(r) + k) = 1}
  IN IF ones = {} THEN MaxLeadingZeros + 1 ELSE Min(ones)

Overflow(r) == [val |-> 0, r |-> [r EXCEPT !.ok = FALSE]]

(* Mutant: the suffix is read without the zeros' weight. *)
UeWithoutOffset(r, zeros) ==
  IF zeros > MaxLeadingZeros THEN Overflow(r) ELSE ReadBits(SkipBits(r, zeros + 1), zeros)

UeAfter(r, zeros) ==
  IF zeros > MaxLeadingZeros THEN Overflow(r)
  ELSE [ReadBits(Consume(r, zeros + 1), zeros) EXCEPT !.val = @ + (2 ^ zeros) - 1]
ReadUe(r) == UeAfter(r, LeadingZeros(r))

ReadTe(r, max) == IF max > 1 THEN ReadUe(r) ELSE [ReadBit(r) EXCEPT !.val = 1 - @]

Signed(code) == IF code % 2 = 0 THEN -((code + 1) \div 2) ELSE (code + 1) \div 2
ReadSe(r) == [ReadUe(r) EXCEPT !.val = Signed(@)]

TrailingZeros(byte) == Max({k \in 0..8 : byte % (2 ^ k) = 0})

(* Mutant: only the very last byte is looked at for the stop bit. *)
MoreDataIgnoringZeroBytes(r) ==
  LET last == Len(r.data)
  IN r.byte < last - 1 \/ (r.byte = last - 1 /\ r.bit < 7 - TrailingZeros(r.data[last]))

(* More than the stop bit and zero bytes is left. *)
MoreRbspData(r) ==
  LET used == {k \in r.byte + 1..Len(r.data) : r.data[k] # 0}
  IN /\ used # {}
     /\ \/ r.byte < Max(used) - 1
        \/ r.bit < 7 - TrailingZeros(r.data[r.byte + 1])

AlignToByte(r) == IF r.bit # 0 THEN [r EXCEPT !.bit = 0, !.byte = @ + 1] ELSE r
=============================================================================

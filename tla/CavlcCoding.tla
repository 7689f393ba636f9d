---------------------------- MODULE CavlcCoding -----------------------------
(***************************************************************************)
(* Clause 9.2 as a writer: the bits of a residual block, given as its      *)
(* places with a level.  CavlcSyntax is compared with it.                  *)
(*                                                                         *)
(* The codewords are those of CavlcSyntax.                                 *)
(***************************************************************************)
EXTENDS CavlcSyntax, StreamWriter

Codeword(codes, v) ==
  LET c == CHOOSE x \in {codes[k] : k \in 1..Len(codes)} : x.val = v IN u(c.code, c.len)

-----------------------------------------------------------------------------
(* 9.2.1.  The last levels are the trailing ones: three at most. *)
TrailingOnes(val) ==
  Max({n \in 0..Min({3, Len(val)}) : \A k \in Len(val) - n + 1..Len(val) : Abs(val[k][2]) = 1})

TokenBits(total, ones, nC) ==
  IF nC = -1 THEN Codeword(COEFF_TOKEN_CHROMA_DC, <<total, ones>>)
  ELSE IF nC \in {0, 1} THEN Codeword(COEFF_TOKEN_NC0, <<total, ones>>)
  ELSE IF nC \in {2, 3} THEN Codeword(COEFF_TOKEN_NC2, <<total, ones>>)
  ELSE IF nC \in 4..7 THEN Codeword(COEFF_TOKEN_NC4, <<total, ones>>)
  ELSE IF total = 0 THEN u(3, 6)
  ELSE u(total - 1, 4) \o u(ones, 2)

-----------------------------------------------------------------------------
(* 9.2.2.  levelCode counts the levels 1, -1, 2, -2, ...; what the short   *)
(* form cannot express an escape does, of the least prefix that suffices.  *)
levelCode(level) == IF level > 0 THEN (2 * level) - 2 ELSE (-2 * level) - 1

EscapeCode(suffixLength) == IF suffixLength = 0 THEN 30 ELSE 15 * (2 ^ suffixLength)
ShortLevel(code, suffixLength) ==
  IF suffixLength > 0
  THEN u(1, (code \div (2 ^ suffixLength)) + 1) \o u(code % (2 ^ suffixLength), suffixLength)
  ELSE IF code < 14 THEN u(1, code + 1)
  ELSE u(1, 15) \o u(code - 14, 4)
LongLevel(rest) ==
  LET prefix == Min({p \in 15..28 : rest < (2 ^ (p - 2)) - 4096})
  IN u(1, prefix + 1) \o u(rest - ((2 ^ (prefix - 3)) - 4096), prefix - 3)
LevelBits(code, suffixLength) ==
  IF code < EscapeCode(suffixLength) THEN ShortLevel(code, suffixLength)
  ELSE LongLevel(code - EscapeCode(suffixLength))

(* The suffix length before the k-th coded level: one more for each level    *)
(* that exceeded what the length before it is meant for.                     *)
Fits(level, suffixLength) == Abs(level) <= 3 * (2 ^ (suffixLength - 1))
SuffixLength(coded, first, k) ==
  LET length[j \in 1..k] ==
        IF j = 1 THEN first
        ELSE LET before == Max({length[j - 1], 1})
             IN IF Fits(coded[j - 1], before) THEN before ELSE Min({6, before + 1})
  IN length[k]

LevelsBits(coded, total, ones) ==
  LET first == IF total > 10 /\ ones < 3 THEN 1 ELSE 0
      Code(k) == levelCode(coded[k]) - (IF k = 1 /\ ones < 3 THEN 2 ELSE 0)
  IN FlattenSeq([k \in 1..Len(coded) |-> LevelBits(Code(k), SuffixLength(coded, first, k))])

-----------------------------------------------------------------------------
(* 9.2.3.  down is the places from the highest frequency: of every one but *)
(* the last the run below it is sent, as long as a zero is left there.     *)
RunBits(down, k) ==
  LET zerosLeft == down[k] - (Len(down) - k)
  IN IF zerosLeft = 0 THEN <<>>
     ELSE Codeword(RUN_BEFORE[Min({zerosLeft, 7})], down[k] - down[k + 1] - 1)
TotalZerosBits(total, zeros, max) ==
  IF total = max THEN <<>>
  ELSE IF max = 4 THEN Codeword(TOTAL_ZEROS_CHROMA_DC[total], zeros)
  ELSE Codeword(TOTAL_ZEROS[total], zeros)
PlaceBits(down, max) ==
  TotalZerosBits(Len(down), down[1] + 1 - Len(down), max)
  \o FlattenSeq([k \in 1..Len(down) - 1 |-> RunBits(down, k)])

-----------------------------------------------------------------------------
BlockBits(val, max, nC) ==
  LET total == Len(val)
      ones  == TrailingOnes(val)
      down  == Reverse(val)
  IN TokenBits(total, ones, nC)
     \o [k \in 1..ones |-> IF down[k][2] < 0 THEN 1 ELSE 0]
     \o LevelsBits([k \in 1..total - ones |-> down[ones + k][2]], total, ones)
     \o (IF total = 0 THEN <<>> ELSE PlaceBits([k \in 1..total |-> down[k][1]], max))
StandardBlock(e) ==
  LET bits == BlockBits(e.val, e.a.max, e.b) IN [bins |-> bits, ctxs |-> Len(bits)]
=============================================================================

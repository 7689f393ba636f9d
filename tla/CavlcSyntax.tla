---------------------------- MODULE CavlcSyntax ----------------------------
(***************************************************************************)
(* parse_residual_block_cavlc: the token, the levels from the highest      *)
(* frequency down, the zeros and where the runs put each level; before it  *)
(* the code tables of cavlc.rs and the lookup in them.                     *)
(*                                                                         *)
(* A codeword is written <<length, value>>.  The row of a table of tokens  *)
(* is the number of coefficients, from 0, its columns the trailing ones;   *)
(* the rows of the other tables are what they are chosen by, from 1, and   *)
(* the columns the number that is coded, from 0.                           *)
(*                                                                         *)
(* b is the sequence of bits to come.  A block is [val, ctxs]: the places  *)
(* with a level, lowest frequency first, and the number of bits taken.     *)
(***************************************************************************)
EXTENDS Integers, Sequences, FiniteSetsExt, SequencesExt

Codes(row, Val(_)) ==
  [k \in 1..Len(row) |-> [len |-> row[k][1], code |-> row[k][2], val |-> Val(k - 1)]]
TokenCodes(rows) ==
  FlattenSeq([n \in 1..Len(rows) |-> Codes(rows[n], LAMBDA ones : <<n - 1, ones>>)])
NumberCodes(rows) == [n \in 1..Len(rows) |-> Codes(rows[n], LAMBDA number : number)]

-----------------------------------------------------------------------------
COEFF_TOKEN_NC0 == TokenCodes(
  <<<<<<1, 1>>>>,
    <<<<6, 5>>, <<2, 1>>>>,
    <<<<8, 7>>, <<6, 4>>, <<3, 1>>>>,
    <<<<9, 7>>, <<8, 6>>, <<7, 5>>, <<5, 3>>>>,
    <<<<10, 7>>, <<9, 6>>, <<8, 5>>, <<6, 3>>>>,
    <<<<11, 7>>, <<10, 6>>, <<9, 5>>, <<7, 4>>>>,
    <<<<13, 15>>, <<11, 6>>, <<10, 5>>, <<8, 4>>>>,
    <<<<13, 11>>, <<13, 14>>, <<11, 5>>, <<9, 4>>>>,
    <<<<13, 8>>, <<13, 10>>, <<13, 13>>, <<10, 4>>>>,
    <<<<14, 15>>, <<14, 14>>, <<13, 9>>, <<11, 4>>>>,
    <<<<14, 11>>, <<14, 10>>, <<14, 13>>, <<13, 12>>>>,
    <<<<15, 15>>, <<15, 14>>, <<14, 9>>, <<14, 12>>>>,
    <<<<15, 11>>, <<15, 10>>, <<15, 13>>, <<14, 8>>>>,
    <<<<16, 15>>, <<15, 1>>, <<15, 9>>, <<15, 12>>>>,
    <<<<16, 11>>, <<16, 14>>, <<16, 13>>, <<15, 8>>>>,
    <<<<16, 7>>, <<16, 10>>, <<16, 9>>, <<16, 12>>>>,
    <<<<16, 4>>, <<16, 6>>, <<16, 5>>, <<16, 8>>>>>>)

COEFF_TOKEN_NC2 == TokenCodes(
  <<<<<<2, 3>>>>,
    <<<<6, 11>>, <<2, 2>>>>,
    <<<<6, 7>>, <<5, 7>>, <<3, 3>>>>,
    <<<<7, 7>>, <<6, 10>>, <<6, 9>>, <<4, 5>>>>,
    <<<<8, 7>>, <<6, 6>>, <<6, 5>>, <<4, 4>>>>,
    <<<<8, 4>>, <<7, 6>>, <<7, 5>>, <<5, 6>>>>,
    <<<<9, 7>>, <<8, 6>>, <<8, 5>>, <<6, 8>>>>,
    <<<<11, 15>>, <<9, 6>>, <<9, 5>>, <<6, 4>>>>,
    <<<<11, 11>>, <<11, 14>>, <<11, 13>>, <<7, 4>>>>,
    <<<<12, 15>>, <<11, 10>>, <<11, 9>>, <<9, 4>>>>,
    <<<<12, 11>>, <<12, 14>>, <<12, 13>>, <<11, 12>>>>,
    <<<<12, 8>>, <<12, 10>>, <<12, 9>>, <<11, 8>>>>,
    <<<<13, 15>>, <<13, 14>>, <<13, 13>>, <<12, 12>>>>,
    <<<<13, 11>>, <<13, 10>>, <<13, 9>>, <<13, 12>>>>,
    <<<<13, 7>>, <<14, 11>>, <<13, 6>>, <<13, 8>>>>,
    <<<<14, 9>>, <<14, 8>>, <<14, 10>>, <<13, 1>>>>,
    <<<<14, 7>>, <<14, 6>>, <<14, 5>>, <<14, 4>>>>>>)

COEFF_TOKEN_NC4 == TokenCodes(
  <<<<<<4, 15>>>>,
    <<<<6, 15>>, <<4, 14>>>>,
    <<<<6, 11>>, <<5, 15>>, <<4, 13>>>>,
    <<<<6, 8>>, <<5, 12>>, <<5, 14>>, <<4, 12>>>>,
    <<<<7, 15>>, <<5, 10>>, <<5, 11>>, <<4, 11>>>>,
    <<<<7, 11>>, <<5, 8>>, <<5, 9>>, <<4, 10>>>>,
    <<<<7, 9>>, <<6, 14>>, <<6, 13>>, <<4, 9>>>>,
    <<<<7, 8>>, <<6, 10>>, <<6, 9>>, <<4, 8>>>>,
    <<<<8, 15>>, <<7, 14>>, <<7, 13>>, <<5, 13>>>>,
    <<<<8, 11>>, <<8, 14>>, <<7, 10>>, <<6, 12>>>>,
    <<<<9, 15>>, <<8, 10>>, <<8, 13>>, <<7, 12>>>>,
    <<<<9, 11>>, <<9, 14>>, <<8, 9>>, <<8, 12>>>>,
    <<<<9, 8>>, <<9, 10>>, <<9, 13>>, <<8, 8>>>>,
    <<<<10, 13>>, <<9, 7>>, <<9, 9>>, <<9, 12>>>>,
    <<<<10, 9>>, <<10, 12>>, <<10, 11>>, <<10, 10>>>>,
    <<<<10, 5>>, <<10, 8>>, <<10, 7>>, <<10, 6>>>>,
    <<<<10, 1>>, <<10, 4>>, <<10, 3>>, <<10, 2>>>>>>)

COEFF_TOKEN_CHROMA_DC == TokenCodes(
  <<<<<<2, 1>>>>,
    <<<<6, 7>>, <<1, 1>>>>,
    <<<<6, 4>>, <<6, 6>>, <<3, 1>>>>,
    <<<<6, 3>>, <<7, 3>>, <<7, 2>>, <<6, 5>>>>,
    <<<<6, 2>>, <<8, 3>>, <<8, 2>>, <<7, 0>>>>>>)

TOTAL_ZEROS == NumberCodes(
  <<<<<<1, 1>>, <<3, 3>>, <<3, 2>>, <<4, 3>>, <<4, 2>>, <<5, 3>>, <<5, 2>>, <<6, 3>>, <<6, 2>>,
      <<7, 3>>, <<7, 2>>, <<8, 3>>, <<8, 2>>, <<9, 3>>, <<9, 2>>, <<9, 1>>>>,
    <<<<3, 7>>, <<3, 6>>, <<3, 5>>, <<3, 4>>, <<3, 3>>, <<4, 5>>, <<4, 4>>, <<4, 3>>, <<4, 2>>,
      <<5, 3>>, <<5, 2>>, <<6, 3>>, <<6, 2>>, <<6, 1>>, <<6, 0>>>>,
    <<<<4, 5>>, <<3, 7>>, <<3, 6>>, <<3, 5>>, <<4, 4>>, <<4, 3>>, <<3, 4>>, <<3, 3>>, <<4, 2>>,
      <<5, 3>>, <<5, 2>>, <<6, 1>>, <<5, 1>>, <<6, 0>>>>,
    <<<<5, 3>>, <<3, 7>>, <<4, 5>>, <<4, 4>>, <<3, 6>>, <<3, 5>>, <<3, 4>>, <<4, 3>>, <<3, 3>>,
      <<4, 2>>, <<5, 2>>, <<5, 1>>, <<5, 0>>>>,
    <<<<4, 5>>, <<4, 4>>, <<4, 3>>, <<3, 7>>, <<3, 6>>, <<3, 5>>, <<3, 4>>, <<3, 3>>, <<4, 2>>,
      <<5, 1>>, <<4, 1>>, <<5, 0>>>>,
    <<<<6, 1>>, <<5, 1>>, <<3, 7>>, <<3, 6>>, <<3, 5>>, <<3, 4>>, <<3, 3>>, <<3, 2>>, <<4, 1>>,
      <<3, 1>>, <<6, 0>>>>,
    <<<<6, 1>>, <<5, 1>>, <<3, 5>>, <<3, 4>>, <<3, 3>>, <<2, 3>>, <<3, 2>>, <<4, 1>>, <<3, 1>>,
      <<6, 0>>>>,
    <<<<6, 1>>, <<4, 1>>, <<5, 1>>, <<3, 3>>, <<2, 3>>, <<2, 2>>, <<3, 2>>, <<3, 1>>,
      <<6, 0>>>>,
    <<<<6, 1>>, <<6, 0>>, <<4, 1>>, <<2, 3>>, <<2, 2>>, <<3, 1>>, <<2, 1>>, <<5, 1>>>>,
    <<<<5, 1>>, <<5, 0>>, <<3, 1>>, <<2, 3>>, <<2, 2>>, <<2, 1>>, <<4, 1>>>>,
    <<<<4, 0>>, <<4, 1>>, <<3, 1>>, <<3, 2>>, <<1, 1>>, <<3, 3>>>>,
    <<<<4, 0>>, <<4, 1>>, <<2, 1>>, <<1, 1>>, <<3, 1>>>>,
    <<<<3, 0>>, <<3, 1>>, <<1, 1>>, <<2, 1>>>>, <<<<2, 0>>, <<2, 1>>, <<1, 1>>>>,
    <<<<1, 0>>, <<1, 1>>>>>>)

TOTAL_ZEROS_CHROMA_DC == NumberCodes(
  <<<<<<1, 1>>, <<2, 1>>, <<3, 1>>, <<3, 0>>>>, <<<<1, 1>>, <<2, 1>>, <<2, 0>>>>,
    <<<<1, 1>>, <<1, 0>>>>>>)

RUN_BEFORE == NumberCodes(
  <<<<<<1, 1>>, <<1, 0>>>>, <<<<1, 1>>, <<2, 1>>, <<2, 0>>>>,
    <<<<2, 3>>, <<2, 2>>, <<2, 1>>, <<2, 0>>>>,
    <<<<2, 3>>, <<2, 2>>, <<2, 1>>, <<3, 1>>, <<3, 0>>>>,
    <<<<2, 3>>, <<2, 2>>, <<3, 3>>, <<3, 2>>, <<3, 1>>, <<3, 0>>>>,
    <<<<2, 3>>, <<3, 0>>, <<3, 1>>, <<3, 3>>, <<3, 2>>, <<3, 5>>, <<3, 4>>>>,
    <<<<3, 7>>, <<3, 6>>, <<3, 5>>, <<3, 4>>, <<3, 3>>, <<3, 2>>, <<3, 1>>, <<4, 1>>, <<5, 1>>,
      <<6, 1>>, <<7, 1>>, <<8, 1>>, <<9, 1>>, <<10, 1>>, <<11, 1>>>>>>)
-----------------------------------------------------------------------------
Value(b, n) ==
  LET v[k \in 0..n] == IF k = 0 THEN 0 ELSE (2 * v[k - 1]) + b[k] IN v[n]

Invalid == [len |-> 0]

(* Of the bits that are peeked each codeword fills the places it begins;   *)
(* what is filled later stays.                                             *)
Filling(codes, bits, peeked) ==
  {k \in 1..Len(codes) : peeked \div (2 ^ (bits - codes[k].len)) = codes[k].code}
LookUp(codes, bits, b) ==
  LET found == Filling(codes, bits, Value(b, bits))
  IN IF found = {} THEN Invalid ELSE codes[Max(found)]

-----------------------------------------------------------------------------
(* The parser. *)

Rest(b, n) == SubSeq(b, n + 1, Len(b))
Abs(v) == IF v < 0 THEN -v ELSE v
BlockRead(val, n) == [val |-> val, ctxs |-> n]
Failed == BlockRead(<<>>, -1)

-----------------------------------------------------------------------------
(* Behind eight coefficients around, a code of fixed length. *)
FixedToken(code) ==
  IF code \in {2, 7} THEN Invalid
  ELSE [len |-> 6, val |-> IF code = 3 THEN <<0, 0>> ELSE <<(code \div 4) + 1, code % 4>>]

parse_coeff_token(b, nc) ==
  IF nc < 0 THEN LookUp(COEFF_TOKEN_CHROMA_DC, 8, b)
  ELSE IF nc < 2 THEN LookUp(COEFF_TOKEN_NC0, 16, b)
  ELSE IF nc < 4 THEN LookUp(COEFF_TOKEN_NC2, 14, b)
  ELSE IF nc < 8 THEN LookUp(COEFF_TOKEN_NC4, 10, b)
  ELSE FixedToken(Value(b, 6))

-----------------------------------------------------------------------------
(* Levels.  s is [n, levels, size, ok]: bits taken, levels so far, the      *)
(* suffix length, and whether the prefixes were in range.                   *)

MaxPrefix == 28
Zeros(b) == Min({MaxPrefix + 1} \cup {k - 1 : k \in {j \in 1..Len(b) : b[j] = 1}})

SuffixBits(prefix, size) ==
  IF prefix > 14 THEN prefix - 3
  ELSE IF prefix = 14 /\ size = 0 THEN 4
  ELSE size

(* Mutant: the escape code does not count on from the short ones. *)
LevelCodeNoOffset(prefix, size, suffix) ==
  (Min({15, prefix}) * (2 ^ size)) + suffix
  + (IF prefix > 15 THEN (2 ^ (prefix - 3)) - 4096 ELSE 0)

LevelCode(prefix, size, suffix) ==
  (Min({15, prefix}) * (2 ^ size)) + suffix
  + (IF prefix >= 15 /\ size = 0 THEN 15 ELSE 0)
  + (IF prefix > 15 THEN (2 ^ (prefix - 3)) - 4096 ELSE 0)

SignedLevel(code) ==
  IF code % 2 = 1 THEN -((code + 2) \div 2) ELSE (code + 2) \div 2

(* Mutant: the first level leaves the suffix length at one, however large. *)
GrownOnce(size, level) ==
  IF size = 0 THEN 1 ELSE IF Abs(level) > 3 * (2 ^ (size - 1)) /\ size < 6 THEN size + 1 ELSE size

Grown(size, level) ==
  LET started == Max({1, size})
  IN IF Abs(level) > 3 * (2 ^ (started - 1)) /\ started < 6 THEN started + 1 ELSE started

NextLevel(s, level, n) ==
  [s EXCEPT !.n = n, !.levels = Append(@, level), !.size = Grown(@, level)]

parse_level(b, s, offset) ==
  LET prefix == Zeros(Rest(b, s.n))
      from   == s.n + prefix + 1
      bits   == SuffixBits(prefix, s.size)
      code   == LevelCode(prefix, s.size, Value(Rest(b, from), bits))
  IN IF ~s.ok \/ prefix > MaxPrefix THEN [s EXCEPT !.ok = FALSE]
     ELSE NextLevel(s, SignedLevel(code + offset), from + bits)

(* What a level cannot be, next to fewer than three ones, is not coded. *)
FirstOffset(k, ones) == IF k = 1 /\ ones < 3 THEN 2 ELSE 0
Levels(b, token) ==
  LET total == token.val[1]
      ones  == token.val[2]
      read[k \in 0..total - ones] ==
        IF k = 0
        THEN [n |-> token.len + ones, ok |-> TRUE,
              size |-> IF total > 10 /\ ones < 3 THEN 1 ELSE 0,
              levels |-> [j \in 1..ones |-> IF b[token.len + j] = 1 THEN -1 ELSE 1]]
        ELSE parse_level(b, read[k - 1], FirstOffset(k, ones))
  IN read[total - ones]

-----------------------------------------------------------------------------
(* Zeros and places *)

TOTAL_ZEROS_BITS == <<9, 6, 6, 5, 5, 6, 6, 6, 6, 5, 4, 4, 3, 2, 1>>
CHROMA_BITS      == <<3, 2, 1>>
RUN_BEFORE_BITS  == <<1, 2, 2, 3, 3, 3, 11>>

parse_total_zeros(b, total) == LookUp(TOTAL_ZEROS[total], TOTAL_ZEROS_BITS[total], b)
parse_total_zeros_chroma_dc(b, total) ==
  LookUp(TOTAL_ZEROS_CHROMA_DC[total], CHROMA_BITS[total], b)
parse_run_before(b, zeros_left) ==
  LET row == Min({zeros_left, 7}) IN LookUp(RUN_BEFORE[row], RUN_BEFORE_BITS[row], b)

TotalZeros(b, total, max_num_coeff) ==
  IF total >= max_num_coeff THEN [len |-> 0, val |-> 0]
  ELSE IF max_num_coeff > 4 THEN parse_total_zeros(b, total)
  ELSE parse_total_zeros_chroma_dc(b, total)

(* Mutant: the zeros that a run took are still to come. *)
WithPlaceKeepsZeros(p, run) ==
  IF run.val + 1 > Head(p.places) THEN [p EXCEPT !.ok = FALSE]
  ELSE [p EXCEPT !.n = @ + run.len, !.places = <<Head(@) - run.val - 1>> \o @]

(* A place is run and one below the one before; p records the places found. *)
WithPlace(p, run) ==
  IF run.val + 1 > Head(p.places) THEN [p EXCEPT !.ok = FALSE]
  ELSE [p EXCEPT !.n = @ + run.len, !.zeros_left = @ - run.val,
                 !.places = <<Head(@) - run.val - 1>> \o @]
Placed(p, run) == IF run = Invalid THEN [p EXCEPT !.ok = FALSE] ELSE WithPlace(p, run)
NextPlace(b, p) ==
  IF ~p.ok THEN p
  ELSE IF p.zeros_left <= 0 THEN WithPlace(p, [len |-> 0, val |-> 0])
  ELSE Placed(p, parse_run_before(Rest(b, p.n), p.zeros_left))

Places(b, total, n, zeros) ==
  LET found[k \in 1..total] ==
        IF k = 1
        THEN [n |-> n, ok |-> TRUE, zeros_left |-> zeros, places |-> <<zeros + total - 1>>]
        ELSE NextPlace(b, found[k - 1])
  IN found[total]

-----------------------------------------------------------------------------
Coefficients(s, p) ==
  LET total == Len(p.places)
  IN BlockRead([k \in 1..total |-> <<p.places[k], s.levels[total + 1 - k]>>], p.n)

(* From the levels on: an invalid code or a place outside ends the slice. *)
PlaceLevels(b, s, zeros, max_num_coeff) ==
  LET total == Len(s.levels)
      p     == Places(b, total, s.n + zeros.len, zeros.val)
  IN IF zeros = Invalid \/ zeros.val + total > max_num_coeff \/ ~p.ok THEN Failed
     ELSE Coefficients(s, p)
ReadBlock(b, s, max_num_coeff) ==
  IF ~s.ok THEN Failed
  ELSE PlaceLevels(b, s, TotalZeros(Rest(b, s.n), Len(s.levels), max_num_coeff), max_num_coeff)

parse_residual_block_cavlc(b, max_num_coeff, nc) ==
  LET token == parse_coeff_token(b, nc)
  IN IF token = Invalid THEN Failed
     ELSE IF token.val[1] = 0 THEN BlockRead(<<>>, token.len)
     ELSE ReadBlock(b, Levels(b, token), max_num_coeff)
=============================================================================

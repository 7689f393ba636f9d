------------------------------- MODULE MvPred -------------------------------
(***************************************************************************)
(* Motion vector prediction and direct modes (mv_pred.rs), on the stores   *)
(* of vectors and references that hold one cell per 4x4 block.  A cell is  *)
(* named by macroblock, column and row in units of four samples; rows that *)
(* the MBAFF helpers remap are rows of samples, as in the code.            *)
(*                                                                         *)
(* m is the part of SliceContext these functions are given:                *)
(*   cell    list -> macroblock -> <<column, row>> -> [mv, ref]            *)
(*   slice, field, i, id, w, mbaff                                         *)
(***************************************************************************)
EXTENDS Integers, Sequences, FiniteSets

NoMb == -1
Zero == <<0, 0>>
Missing == [avail |-> FALSE, mv |-> Zero, ref |-> -1]

(* Division as Rust does it, towards zero. *)
Quot(a, b) == IF (a >= 0) = (b > 0) THEN a \div b ELSE -((-a) \div b)
Absolute(a) == IF a < 0 THEN -a ELSE a
Clamp(a, lo, hi) == IF a < lo THEN lo ELSE IF a > hi THEN hi ELSE a

-----------------------------------------------------------------------------
(* Neighbours in MBAFF: <<macroblock, row of samples>> *)

mbaff_left_neighbor(m, i, y) ==
  LET pair == i \div 2
      left == pair - 1
      half == i % 2
      whole == y + 16 * half          \* the row within a frame pair
      fine == 2 * y + half            \* the row a field macroblock reaches
  IN IF pair % m.w = 0 THEN <<NoMb, 0>>
     ELSE IF m.field[pair] = m.field[left] THEN <<2 * left + half, y>>
     ELSE IF ~m.field[pair] THEN <<2 * left + (whole % 2), whole \div 2>>
     ELSE <<2 * left + (IF fine < 16 THEN 0 ELSE 1), fine % 16>>

(* Mutant: the pair above is reached through its top macroblock. *)
AboveTakesTop(m, i) ==
  LET above == i \div 2 - m.w
  IN IF i % 2 = 1 THEN <<i - 1, 15>> ELSE IF above < 0 THEN <<NoMb, 0>> ELSE <<2 * above, 15>>

mbaff_above_neighbor(m, i) ==
  LET pair == i \div 2
      above == pair - m.w
  IN IF i % 2 = 1 THEN <<i - 1, 15>>
     ELSE IF above < 0 THEN <<NoMb, 0>>
     ELSE IF m.field[pair] /\ m.field[above] THEN <<2 * above, 15>> ELSE <<2 * above + 1, 15>>

mbaff_scale_mv(m, mv, cur, nbr) ==
  IF m.field[cur] = m.field[nbr] THEN mv
  ELSE IF m.field[nbr] THEN <<mv[1], 2 * mv[2]>> ELSE <<mv[1], Quot(mv[2], 2)>>

(* A cell of another macroblock, at an address, if it is of this slice. *)
Cell(m, l, j, col, row) ==
  [avail |-> TRUE, mv |-> m.cell[l][j][<<col, row>>].mv, ref |-> m.cell[l][j][<<col, row>>].ref]
ScaledCell(m, n, j) == IF m.mbaff THEN [n EXCEPT !.mv = mbaff_scale_mv(m, @, m.i \div 2, j \div 2)] ELSE n
Other(m, l, a, col) ==
  IF a[1] = NoMb THEN Missing
  ELSE IF m.slice[a[1]] # m.id THEN Missing
  ELSE ScaledCell(m, Cell(m, l, a[1], col, a[2] \div 4), a[1])

-----------------------------------------------------------------------------
(* The four neighbours of the partition at column k, row r, n wide *)

LeftAddress(m, i, y) ==
  IF m.mbaff THEN mbaff_left_neighbor(m, i, y)
  ELSE IF i % m.w = 0 THEN <<NoMb, 0>> ELSE <<i - 1, y>>
AboveAddress(m, i) ==
  IF m.mbaff THEN mbaff_above_neighbor(m, i)
  ELSE IF i < m.w THEN <<NoMb, 0>> ELSE <<i - m.w, 15>>

get_mv_neighbor_left_mbaff(m, l, k, r) ==
  IF k > 0 THEN Cell(m, l, m.i, k - 1, r) ELSE Other(m, l, LeftAddress(m, m.i, 4 * r), 3)

get_mv_neighbor_above_mbaff(m, l, k, r) ==
  IF r > 0 THEN Cell(m, l, m.i, k, r - 1) ELSE Other(m, l, AboveAddress(m, m.i), k)

(* To the right of the pair above the macroblock of the same half is taken; *)
(* a bottom macroblock has nothing there.                                  *)
RightOfAbove(m, a) ==
  LET col == (IF m.mbaff THEN m.i \div 2 ELSE m.i) % m.w
  IN IF a[1] = NoMb \/ (m.mbaff /\ m.i % 2 = 1) \/ col + 1 >= m.w THEN <<NoMb, 0>>
     ELSE <<IF m.mbaff THEN 2 * (a[1] \div 2 + 1) + (a[1] % 2) ELSE a[1] + 1, a[2]>>

(* Mutant: a block to the right that is not decoded yet is taken. *)
AboveRightUndecoded(m, l, k, r, n) ==
  IF r > 0
  THEN IF k + n >= 4 THEN Missing ELSE Cell(m, l, m.i, k + n, r - 1)
  ELSE IF k + n < 4 THEN Other(m, l, AboveAddress(m, m.i), k + n)
  ELSE Other(m, l, RightOfAbove(m, AboveAddress(m, m.i)), 0)

(* Inside the macroblock only an 8x8 block of lower number is decoded. *)
get_mv_neighbor_above_right_mbaff(m, l, k, r, n) ==
  LET b8(col, row) == 2 * (row \div 2) + (col \div 2)
  IN IF r > 0
     THEN IF k + n >= 4 \/ b8(k + n, r - 1) > b8(k, r) THEN Missing
          ELSE Cell(m, l, m.i, k + n, r - 1)
     ELSE IF k + n < 4 THEN Other(m, l, AboveAddress(m, m.i), k + n)
     ELSE Other(m, l, RightOfAbove(m, AboveAddress(m, m.i)), 0)

LeftOfAbove(m, a) ==
  IF a[1] = NoMb THEN a
  ELSE IF m.mbaff THEN mbaff_left_neighbor(m, a[1], a[2])
  ELSE IF m.i % m.w = 0 THEN <<NoMb, 0>> ELSE <<a[1] - 1, 15>>

get_mv_neighbor_above_left_mbaff(m, l, k, r) ==
  IF r > 0 /\ k > 0 THEN Cell(m, l, m.i, k - 1, r - 1)
  ELSE Other(m, l, IF r > 0 THEN LeftAddress(m, m.i, 4 * (r - 1))
                   ELSE IF k > 0 THEN AboveAddress(m, m.i)
                   ELSE LeftOfAbove(m, AboveAddress(m, m.i)),
             IF k > 0 THEN k - 1 ELSE 3)

FirstOf(c, d) == IF c.avail THEN c ELSE d
Neighbours(m, l, k, r, n) ==
  [A |-> get_mv_neighbor_left_mbaff(m, l, k, r),
   B |-> get_mv_neighbor_above_mbaff(m, l, k, r),
   C |-> FirstOf(get_mv_neighbor_above_right_mbaff(m, l, k, r, n),
                 get_mv_neighbor_above_left_mbaff(m, l, k, r))]

-----------------------------------------------------------------------------
(* Prediction *)

Middle(a, b, c) == CHOOSE v \in {a, b, c} :
  /\ Cardinality({k \in 1..3 : <<a, b, c>>[k] <= v}) >= 2
  /\ Cardinality({k \in 1..3 : <<a, b, c>>[k] >= v}) >= 2

(* One neighbour with the reference decides; A when it is alone; else the   *)
(* median.  This stretch occurs in three of the functions.                 *)
Vote(by, ref) ==
  LET matching == {side \in {"A", "B", "C"} : by[side].ref = ref}
  IN IF Cardinality(matching) = 1
     THEN by[CHOOSE side \in matching : TRUE].mv
     ELSE IF by.A.avail /\ ~by.B.avail /\ ~by.C.avail THEN by.A.mv
     ELSE [d \in 1..2 |-> Middle(by.A.mv[d], by.B.mv[d], by.C.mv[d])]

predict_mv_sub(m, l, k, r, n, ref) == Vote(Neighbours(m, l, k, r, n), ref)

(* 16x8 and 8x16 first ask the neighbour their half touches. *)
FirstAsked(shape, part) ==
  CASE shape = "16x8" -> {IF part = 0 THEN "B" ELSE "A"}
    [] shape = "8x16" -> {IF part = 0 THEN "A" ELSE "C"}
    [] OTHER -> {}
DirectedVote(by, asked, ref) ==
  LET answers == {side \in asked : by[side].avail /\ by[side].ref = ref}
  IN IF answers # {} THEN by[CHOOSE side \in answers : TRUE].mv ELSE Vote(by, ref)

(* Mutant: the second 8x16 partition looks to its left too. *)
SecondLooksLeft(m, l, shape, part, ref) ==
  DirectedVote(Neighbours(m, l, IF shape = "8x16" THEN 2 * part ELSE 0,
                          IF shape = "16x8" THEN 2 * part ELSE 0,
                          IF shape = "8x16" THEN 2 ELSE 4),
               IF shape = "8x16" THEN {"A"} ELSE FirstAsked(shape, part), ref)

predict_mv(m, l, shape, part, ref) ==
  DirectedVote(Neighbours(m, l, IF shape = "8x16" THEN 2 * part ELSE 0,
                          IF shape = "16x8" THEN 2 * part ELSE 0,
                          IF shape = "8x16" THEN 2 ELSE 4),
               FirstAsked(shape, part), ref)

AtRest(n) == ~n.avail \/ (n.ref = 0 /\ n.mv = Zero)

(* Mutant: an available neighbour at rest is needed on both sides. *)
SkipNeedsBoth(m) ==
  LET SkipVector(by) == IF AtRest(by.A) /\ AtRest(by.B) THEN Zero ELSE Vote(by, 0)
  IN SkipVector(Neighbours(m, 0, 0, 0, 4))

predict_mv_skip(m) ==
  LET SkipVector(by) == IF AtRest(by.A) \/ AtRest(by.B) THEN Zero ELSE Vote(by, 0)
  IN SkipVector(Neighbours(m, 0, 0, 0, 4))

-----------------------------------------------------------------------------
(* Direct modes.  A result is [mv, ref], both indexed by list. *)

(* Mutant: -1 takes part in the minimum. *)
MinimumOfAll(refs) == CHOOSE r \in refs : \A s \in refs : r <= s

(* The least index in use among the neighbours. *)
LeastUsed(refs) ==
  IF refs \subseteq {-1} THEN -1 ELSE CHOOSE r \in refs \ {-1} : \A s \in refs \ {-1} : r <= s

DirectFrom(by, ref) ==
  IF ref[0] < 0 /\ ref[1] < 0
  THEN [mv |-> [l \in 0..1 |-> Zero], ref |-> [l \in 0..1 |-> 0]]
  ELSE [ref |-> ref, mv |-> [l \in 0..1 |-> IF ref[l] < 0 THEN Zero ELSE Vote(by[l], ref[l])]]
DirectOf(by) ==
  DirectFrom(by, [l \in 0..1 |-> LeastUsed({by[l][side].ref : side \in {"A", "B", "C"}})])
derive_spatial_direct_base(m) == DirectOf([l \in 0..1 |-> Neighbours(m, l, 0, 0, 4)])

(* The co-located block asked for: the corner of the 8x8 block, or itself. *)
effective_blk(k, r, infer8x8) ==
  IF infer8x8 THEN <<3 * (k \div 2), 3 * (r \div 2)>> ELSE <<k, r>>

(* col: the co-located picture's cells, or <<>> for an intra picture.       *)
(* Mutant: the list 1 vector is never asked. *)
ColZeroList0(base, col, k, r, infer8x8) ==
  LET c == col[effective_blk(k, r, infer8x8)]
      still(mv) == Absolute(mv[1]) <= 1 /\ Absolute(mv[2]) <= 1
      zero == col # <<>> /\ c.ref[0] = 0 /\ still(c.mv[0])
  IN IF ~zero THEN base
     ELSE [base EXCEPT !.mv = [l \in 0..1 |-> IF base.ref[l] = 0 THEN Zero ELSE @[l]]]

apply_spatial_direct_col_zero(base, col, k, r, infer8x8) ==
  LET c == col[effective_blk(k, r, infer8x8)]
      still(mv) == Absolute(mv[1]) <= 1 /\ Absolute(mv[2]) <= 1
      zero == /\ col # <<>>
              /\ \/ c.ref[0] = 0 /\ still(c.mv[0])
                 \/ c.ref[0] < 0 /\ c.ref[1] = 0 /\ still(c.mv[1])
  IN IF ~zero THEN base
     ELSE [base EXCEPT !.mv = [l \in 0..1 |-> IF base.ref[l] = 0 THEN Zero ELSE @[l]]]

derive_spatial_direct_blk(m, col, k, r, infer8x8) ==
  apply_spatial_direct_col_zero(derive_spatial_direct_base(m), col, k, r, infer8x8)

(* A co-located block without a list 0 vector counts as intra.  poc: the    *)
(* list 0 order counts; poc[1] stands in for a picture no longer listed.    *)
derive_temporal_direct_blk(col, poc, currentPoc, colPoc, k, r, infer8x8) ==
  LET c == col[effective_blk(k, r, infer8x8)]
      found == {j \in DOMAIN poc : poc[j] = c.poc}
      j == IF found = {} THEN 1 ELSE CHOOSE a \in found : \A b \in found : a <= b
      td == Clamp(colPoc - poc[j], -128, 127)
      tb == Clamp(currentPoc - poc[j], -128, 127)
      scale == Clamp((tb * Quot(16384 + Absolute(td) \div 2, td) + 32) \div 64, -1024, 1023)
      S(v) == (scale * v + 128) \div 256
      mv0 == <<S(c.mv[0][1]), S(c.mv[0][2])>>
      mv1 == <<mv0[1] - c.mv[0][1], mv0[2] - c.mv[0][2]>>
  IN IF col = <<>> \/ c.ref[0] < 0
     THEN [mv |-> [l \in 0..1 |-> Zero], ref |-> [l \in 0..1 |-> 0]]
     ELSE [ref |-> [l \in 0..1 |-> IF l = 0 THEN j - 1 ELSE 0],
           mv |-> [l \in 0..1 |-> IF td = 0 THEN IF l = 0 THEN c.mv[0] ELSE Zero
                                  ELSE IF l = 0 THEN mv0 ELSE mv1]]

-----------------------------------------------------------------------------
(* The deblocking filter's comparison of two blocks (deblock.rs).  A block  *)
(* b is [ref, poc, mv], each indexed by list.                              *)

mv_diff_ge4(a, b) == Absolute(a[1] - b[1]) >= 4 \/ Absolute(a[2] - b[2]) >= 4

refs_and_mvs_match(a, la, b, lb) ==
  IF a.ref[la] < 0 /\ b.ref[lb] < 0 THEN TRUE
  ELSE IF a.ref[la] < 0 \/ b.ref[lb] < 0 THEN FALSE
  ELSE a.poc[la] = b.poc[lb] /\ ~mv_diff_ge4(a.mv[la], b.mv[lb])

(* Mutant: list 0 is only compared with list 0. *)
MotionStraightOnly(p, q, lists) ==
  IF lists <= 1 THEN ~refs_and_mvs_match(p, 0, q, 0)
  ELSE ~(refs_and_mvs_match(p, 0, q, 0) /\ refs_and_mvs_match(p, 1, q, 1))

check_mv_diff(p, q, lists) ==
  IF lists <= 1 THEN ~refs_and_mvs_match(p, 0, q, 0)
  ELSE /\ ~(refs_and_mvs_match(p, 0, q, 0) /\ refs_and_mvs_match(p, 1, q, 1))
       /\ ~(refs_and_mvs_match(p, 0, q, 1) /\ refs_and_mvs_match(p, 1, q, 0))
=============================================================================

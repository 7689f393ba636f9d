----------------------------- MODULE MvStandard -----------------------------
(***************************************************************************)
(* Motion vectors as ITU-T H.264 predicts them (8.4.1), by coordinates and *)
(* order of decoding: h holds the macroblocks decoded, each with its       *)
(* partitions in order, [rect, shape, part, ref, mv, direct]; rect is      *)
(* <<column, row, width, height>> in units of four samples.  s carries     *)
(* w, mbaff, fields (all pairs are field pairs) and longTerm.              *)
(***************************************************************************)
EXTENDS Integers, Sequences, FiniteSets

Still == <<0, 0>>
Nowhere == [avail |-> FALSE, mv |-> Still, ref |-> -1]
Size(a) == IF a < 0 THEN -a ELSE a

Place(s, i) ==
  IF ~s.mbaff THEN <<"frame", i % s.w, i \div s.w>>
  ELSE LET col == (i \div 2) % s.w
           row == (i \div 2) \div s.w
       IN IF s.fields THEN <<IF i % 2 = 0 THEN "top" ELSE "bottom", col, row>>
          ELSE <<"frame", col, 2 * row + (i % 2)>>

Covers(rect, x, y) ==
  x \in rect[1]..(rect[1] + rect[3] - 1) /\ y \in rect[2]..(rect[2] + rect[4] - 1)

(* What partition n of macroblock i sees at column x, row y of its own      *)
(* macroblock's grid: only what was decoded before it counts (6.4.11.7).    *)
SeenOf(p, l) ==
  [avail |-> TRUE, ref |-> p.ref[l + 1], mv |-> IF p.ref[l + 1] < 0 THEN Still ELSE p.mv[l + 1]]
SeenIn(mb, same, n, l, x, y) ==
  LET parts == {k \in DOMAIN mb.parts : Covers(mb.parts[k].rect, x, y) /\ (same => k < n)}
  IN IF mb.kind = "Intra" THEN [Nowhere EXCEPT !.avail = TRUE]
     ELSE IF parts = {} THEN Nowhere
     ELSE SeenOf(mb.parts[CHOOSE k \in parts : TRUE], l)
SeenAmong(h, found, i, n, l, x, y) ==
  IF found = {} THEN Nowhere
  ELSE LET j == CHOOSE j \in found : TRUE IN SeenIn(h[j], i = j, n, l, x % 4, y % 4)
There(o, x, y) == <<o[1], o[2] + (x \div 4), o[3] + (y \div 4)>>
Seen(s, h, i, n, l, x, y) ==
  SeenAmong(h, {j \in DOMAIN h : /\ j <= i /\ h[j].slice = h[i].slice
                                 /\ Place(s, j) = There(Place(s, i), x, y)}, i, n, l, x, y)

(* 8.4.1.3.2, for a rectangle. *)
IfAny(c, d) == IF c.avail THEN c ELSE d
Around(s, h, i, n, l, rect) ==
  LET x == rect[1]
      y == rect[2]
  IN [A |-> Seen(s, h, i, n, l, x - 1, y), B |-> Seen(s, h, i, n, l, x, y - 1),
      C |-> IfAny(Seen(s, h, i, n, l, x + rect[3], y - 1), Seen(s, h, i, n, l, x - 1, y - 1))]

Between(a, b, c) == a + b + c - (IF a >= b /\ a >= c THEN a ELSE IF b >= c THEN b ELSE c)
                              - (IF a <= b /\ a <= c THEN a ELSE IF b <= c THEN b ELSE c)

(* 8.4.1.3.1 *)
MedianOf(around, ref) ==
  LET alone == around.A.avail /\ ~around.B.avail /\ ~around.C.avail
      a == around.A
      b == IF alone THEN a ELSE around.B
      c == IF alone THEN a ELSE around.C
      same == {k \in 1..3 : <<a, b, c>>[k].ref = ref}
  IN IF Cardinality(same) = 1 THEN <<a, b, c>>[CHOOSE k \in same : TRUE].mv
     ELSE <<Between(a.mv[1], b.mv[1], c.mv[1]), Between(a.mv[2], b.mv[2], c.mv[2])>>

(* 8.4.1.3 *)
PredictedFrom(around, shape, part, ref) ==
  LET side == CASE shape = "16x8" /\ part = 0 -> around.B
                [] shape = "16x8" /\ part = 1 -> around.A
                [] shape = "8x16" /\ part = 0 -> around.A
                [] shape = "8x16" /\ part = 1 -> around.C
                [] OTHER -> Nowhere
  IN IF side.ref = ref THEN side.mv ELSE MedianOf(around, ref)
Predicted(s, h, i, n, l) ==
  LET p == h[i].parts[n]
  IN PredictedFrom(Around(s, h, i, n, l, p.rect), p.shape, p.part, p.ref[l + 1])

(* 8.4.1.1 *)
SkipFrom(around) ==
  LET rests(n) == ~n.avail \/ (n.ref = 0 /\ n.mv = Still)
  IN IF rests(around.A) \/ rests(around.B) THEN Still ELSE MedianOf(around, 0)
PSkipVector(s, h, i) == SkipFrom(Around(s, h, i, 1, 0, <<0, 0, 4, 4>>))

(* 8.4.1.2.2; col is the co-located picture (<<>>: intra).  colZeroFlag asks *)
(* that it, RefPicList1[0], be a short-term reference (s.longTerm: it is    *)
(* a long-term one).                                                       *)
LeastOf(refs) == IF refs = {} THEN -1 ELSE CHOOSE r \in refs : \A t \in refs : r <= t
Corner(v, infer8x8) == IF infer8x8 THEN IF v < 2 THEN 0 ELSE 3 ELSE v
AtRest(b) ==
  LET lc == IF b.ref[0] >= 0 THEN 0 ELSE 1
  IN b.ref[lc] = 0 /\ \A d \in 1..2 : b.mv[lc][d] \in -1..1
SpatialFrom(around, ref, colZero) ==
  LET none == ref = <<-1, -1>>
  IN [ref |-> IF none THEN <<0, 0>> ELSE ref,
      mv  |-> [k \in 1..2 |->
                IF none \/ ref[k] < 0 \/ (ref[k] = 0 /\ colZero) THEN Still
                ELSE MedianOf(around[k], ref[k])]]
SpatialAround(around, colZero) ==
  SpatialFrom(around, [k \in 1..2 |-> LeastOf({around[k][e].ref : e \in {"A", "B", "C"}} \cap Nat)], colZero)
SpatialDirect(s, h, i, x, y, col, infer8x8) ==
  SpatialAround([k \in 1..2 |-> Around(s, h, i, 1, k - 1, <<0, 0, 4, 4>>)],
                col # <<>> /\ ~s.longTerm /\ AtRest(col[<<Corner(x, infer8x8), Corner(y, infer8x8)>>]))

(* 8.4.1.2.3, without its arithmetic: the two vectors differ by the         *)
(* co-located one, and the first is its share tb / td within a quarter      *)
(* sample.                                                                 *)
TemporalDirect(p, x, y, col, infer8x8, poc, current, colPoc) ==
  LET b == col[<<Corner(x, infer8x8), Corner(y, infer8x8)>>]
      td == colPoc - poc[p.ref[1] + 1]
      tb == current - poc[p.ref[1] + 1]
  IN IF col = <<>> THEN p.ref = <<0, 0>> /\ p.mv = <<Still, Still>>
     ELSE /\ p.ref[2] = 0 /\ poc[p.ref[1] + 1] = b.poc
          /\ \A k \in 1..p.ref[1] : poc[k] # b.poc
          /\ \A d \in 1..2 :
               /\ p.mv[2][d] = p.mv[1][d] - b.mv[0][d]
               /\ Size(p.mv[1][d] * td - b.mv[0][d] * tb) <= Size(td)

(* 8.7.2.1: different pictures, a different number of vectors, or vectors a *)
(* whole sample apart, in whichever order the lists hold them.             *)
MotionDiffers(p, q, pocs) ==
  LET used(b) == {l \in 0..1 : b.ref[l + 1] >= 0}
      pic(b, l) == pocs[l + 1][b.ref[l + 1] + 1]
      near(lp, lq) == /\ pic(p, lp) = pic(q, lq)
                      /\ \A d \in 1..2 : Size(p.mv[lp + 1][d] - q.mv[lq + 1][d]) < 4
      pairings == {f \in [used(p) -> used(q)] : {f[l] : l \in used(p)} = used(q)}
  IN ~(/\ Cardinality(used(p)) = Cardinality(used(q))
       /\ \E f \in pairings : \A l \in used(p) : near(l, f[l]))
=============================================================================

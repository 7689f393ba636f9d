------------------------- MODULE CabacEngineProofs --------------------------
(***************************************************************************)
(* The register of the arithmetic decoder stays in range whatever bins are *)
(* asked for, in any data and for any context variables; and CabacReader   *)
(* implements the arithmetic decoder of clause 9.3: every step of          *)
(* CabacEngine is a step of ArithmeticDecoder.                             *)
(*                                                                         *)
(* The argument: between two bins the register holds, below bit 17, the    *)
(* bits of the two bytes fetched last that have not been used, and behind  *)
(* them the marker (Holds).  A shift takes as many of them into the offset *)
(* as it is wide (BitsTaken), the marker says which bit is the next        *)
(* (MarkerOfHolder), and because of it the offset above bit 17 decides     *)
(* every comparison (OffsetDecides).  The numbers of the two state tables  *)
(* are compared entry by entry.                                            *)
(***************************************************************************)
EXTENDS CabacEngine, SequenceTheorems, TLAPS

-----------------------------------------------------------------------------
(* The marker without its place: some bit below bit 16 is set.             *)

(* A natural number has its lowest one bit below bit 16, or is a multiple  *)
(* of 2^16.                                                                *)
LEMMA MarkedBelow ==
    ASSUME NEW low \in Nat
    PROVE  (\E m \in 0..15 : MarkedAt(low, m)) <=> low % 65536 # 0
<1>1. ASSUME NEW m \in 0..15, MarkedAt(low, m), low % 65536 = 0 PROVE FALSE
  <2>1. \/ m = 0 \/ m = 1 \/ m = 2 \/ m = 3 \/ m = 4 \/ m = 5 \/ m = 6 \/ m = 7
        \/ m = 8 \/ m = 9 \/ m = 10 \/ m = 11 \/ m = 12 \/ m = 13 \/ m = 14 \/ m = 15
    OBVIOUS
  <2> QED BY <1>1, <2>1 DEF MarkedAt, Pow
<1>2. ASSUME low % 65536 # 0, \A m \in 0..15 : ~MarkedAt(low, m) PROVE FALSE
  <2>1. /\ low % 2 = 0
        /\ low % 2 = 0 => low % 4 = 0
        /\ low % 4 = 0 => low % 8 = 0
        /\ low % 8 = 0 => low % 16 = 0
    BY <1>2 DEF MarkedAt, Pow
  <2> QED BY <1>2 DEF MarkedAt, Pow
<1> QED BY <1>1, <1>2

LEMMA ShlValues ==
    ASSUME NEW n \in Int
    PROVE  /\ Shl(n, 0) = n      /\ Shl(n, 1) = 2 * n  /\ Shl(n, 2) = 4 * n
           /\ Shl(n, 3) = 8 * n  /\ Shl(n, 4) = 16 * n /\ Shl(n, 5) = 32 * n
           /\ Shl(n, 6) = 64 * n /\ Shl(n, 7) = 128 * n
BY DEF Shl, Pow

LEMMA ShlCases ==
    ASSUME NEW n \in Nat, NEW k \in 0..7
    PROVE  /\ k = 0 => Shl(n, k) = n
           /\ k = 1 => Shl(n, k) = 2 * n
           /\ k = 2 => Shl(n, k) = 4 * n
           /\ k = 3 => Shl(n, k) = 8 * n
           /\ k = 4 => Shl(n, k) = 16 * n
           /\ k = 5 => Shl(n, k) = 32 * n
           /\ k = 6 => Shl(n, k) = 64 * n
           /\ k = 7 => Shl(n, k) = 128 * n
<1>1. \/ k = 0 \/ k = 1 \/ k = 2 \/ k = 3 \/ k = 4 \/ k = 5 \/ k = 6 \/ k = 7
  OBVIOUS
<1> QED BY <1>1, ShlValues

LEMMA LpsBounds ==
    \A s \in 1..64 :
      /\ LpsRangeTable[1][s] \in 2..240
      /\ LpsRangeTable[2][s] \in 2..240
      /\ LpsRangeTable[3][s] \in 2..240
      /\ LpsRangeTable[4][s] \in 2..240
<1>1. \A s \in 1..64 : LpsRangeTable[1][s] \in 2..240
  BY DEF LpsRangeTable
<1>2. \A s \in 1..64 : LpsRangeTable[2][s] \in 2..240
  BY DEF LpsRangeTable
<1>3. \A s \in 1..64 : LpsRangeTable[3][s] \in 2..240
  BY DEF LpsRangeTable
<1>4. \A s \in 1..64 : LpsRangeTable[4][s] \in 2..240
  BY DEF LpsRangeTable
<1> QED BY <1>1, <1>2, <1>3, <1>4

LEMMA NextStates == \A s \in 1..128 : MlpsLps[s] \in 0..127
BY DEF MlpsLps

LEMMA ByteRange ==
    ASSUME data \in Seq(0..255), NEW k \in Nat
    PROVE  ByteAt(k) \in 0..255
<1>1. CASE k < Len(data)
  <2>1. k + 1 \in 1..Len(data)
    BY <1>1
  <2>2. data[k + 1] \in 0..255
    BY <2>1, ElementOfSeq
  <2> QED BY <2>2, <1>1 DEF ByteAt
<1>2. CASE ~(k < Len(data))
  BY <1>2 DEF ByteAt
<1> QED BY <1>1, <1>2

(* Ahead finds the lowest one bit of what lies above bit 16.               *)
LEMMA AheadFound ==
    ASSUME NEW wide \in Nat, (wide \div 65536) % 128 # 0
    PROVE  /\ Ahead(wide) \in 0..7
           /\ LowestOne(wide \div 65536, Ahead(wide))
<1> DEFINE above == wide \div 65536
<1>1. \E i \in 0..7 : LowestOne(above, i)
  <2>1. above \in Nat
    OBVIOUS
  <2>2. /\ above % 2 # 1 => above % 2 = 0
        /\ above % 2 = 0 => above % 4 \in {0, 2}
        /\ above % 4 = 0 => above % 8 \in {0, 4}
        /\ above % 8 = 0 => above % 16 \in {0, 8}
        /\ above % 16 = 0 => above % 32 \in {0, 16}
        /\ above % 32 = 0 => above % 64 \in {0, 32}
        /\ above % 64 = 0 => above % 128 \in {0, 64}
    <3> HIDE DEF above
    <3> QED BY <2>1
  <2>3. /\ Shl(2, 0) = 2 /\ Shl(1, 0) = 1
        /\ Shl(2, 1) = 4 /\ Shl(1, 1) = 2
        /\ Shl(2, 2) = 8 /\ Shl(1, 2) = 4
        /\ Shl(2, 3) = 16 /\ Shl(1, 3) = 8
        /\ Shl(2, 4) = 32 /\ Shl(1, 4) = 16
        /\ Shl(2, 5) = 64 /\ Shl(1, 5) = 32
        /\ Shl(2, 6) = 128 /\ Shl(1, 6) = 64
    BY DEF Shl, Pow
  <2>4. above % 128 # 0
    OBVIOUS
  <2> HIDE DEF above
  <2> QED BY <2>1, <2>2, <2>3, <2>4 DEF LowestOne
<1> QED BY <1>1 DEF Ahead

LEMMA OddHasNothingAhead ==
    ASSUME NEW above \in Nat, above % 2 = 1, NEW i \in 0..7, LowestOne(above, i)
    PROVE  i = 0
<1>1. /\ i = 1 => above % 4 = 2
      /\ i = 2 => above % 8 = 4
      /\ i = 3 => above % 16 = 8
      /\ i = 4 => above % 32 = 16
      /\ i = 5 => above % 64 = 32
      /\ i = 6 => above % 128 = 64
      /\ i = 7 => above % 256 = 128
  BY DEF LowestOne, Shl, Pow
<1> QED BY <1>1

(* The marker, moved out of bit 15 by k places, lies i < k places beyond   *)
(* bit 16, and so do all multiples of the shifted range: below the next    *)
(* one there is room for two bytes.                                        *)
LEMMA RoomAbove ==
    ASSUME NEW low \in Nat, NEW range \in Nat, low < range * Scale, low % 65536 # 0,
           NEW k \in 0..7, Shl(low, k) % 65536 = 0
    PROVE  LET i == Ahead(Shl(low, k))
           IN  /\ i \in 0..6
               /\ Shl(low, k) >= Shl(65536, i)
               /\ Shl(low, k) + Shl(65536, i) <= Shl(range, k) * Scale
<1> DEFINE wide == Shl(low, k)
           i == Ahead(wide)
<1>k. \/ k = 0 \/ k = 1 \/ k = 2 \/ k = 3 \/ k = 4 \/ k = 5 \/ k = 6 \/ k = 7
  OBVIOUS
<1>s. /\ wide \in Nat
      /\ k = 0 => wide = low
      /\ k = 1 => wide = 2 * low
      /\ k = 2 => wide = 4 * low
      /\ k = 3 => wide = 8 * low
      /\ k = 4 => wide = 16 * low
      /\ k = 5 => wide = 32 * low
      /\ k = 6 => wide = 64 * low
      /\ k = 7 => wide = 128 * low
  BY <1>k, ShlValues
<1>w. wide % 65536 = 0
  OBVIOUS
<1> HIDE DEF wide
<1>a. (wide \div 65536) % 128 # 0
  <2>1. CASE k = 0 BY <1>s, <1>w, <2>1
  <2>2. CASE k = 1 BY <1>s, <1>w, <2>2
  <2>3. CASE k = 2 BY <1>s, <1>w, <2>3
  <2>4. CASE k = 3 BY <1>s, <1>w, <2>4
  <2>5. CASE k = 4 BY <1>s, <1>w, <2>5
  <2>6. CASE k = 5 BY <1>s, <1>w, <2>6
  <2>7. CASE k = 6 BY <1>s, <1>w, <2>7
  <2>8. CASE k = 7 BY <1>s, <1>w, <2>8
  <2> QED BY <1>k, <2>1, <2>2, <2>3, <2>4, <2>5, <2>6, <2>7, <2>8
<1>b. /\ i \in 0..7
      /\ LowestOne(wide \div 65536, i)
  BY <1>s, <1>a, AheadFound
<1> HIDE DEF i
<1>i. \/ i = 0 /\ (wide \div 65536) % 2 = 1
      \/ i = 1 /\ (wide \div 65536) % 4 = 2
      \/ i = 2 /\ (wide \div 65536) % 8 = 4
      \/ i = 3 /\ (wide \div 65536) % 16 = 8
      \/ i = 4 /\ (wide \div 65536) % 32 = 16
      \/ i = 5 /\ (wide \div 65536) % 64 = 32
      \/ i = 6 /\ (wide \div 65536) % 128 = 64
      \/ i = 7 /\ (wide \div 65536) % 256 = 128
  BY <1>b DEF LowestOne, Shl, Pow
<1>r. /\ i = 0 => Shl(65536, i) = 65536
      /\ i = 1 => Shl(65536, i) = 131072
      /\ i = 2 => Shl(65536, i) = 262144
      /\ i = 3 => Shl(65536, i) = 524288
      /\ i = 4 => Shl(65536, i) = 1048576
      /\ i = 5 => Shl(65536, i) = 2097152
      /\ i = 6 => Shl(65536, i) = 4194304
  BY DEF Shl, Pow
<1>g. i \in 0..6
  <2>1. ASSUME (wide \div 65536) % 256 = 128 PROVE FALSE
    <3> DEFINE above == wide \div 65536
    <3>1. above \in Nat /\ above % 128 # 0
      BY <1>a, <1>s
    <3> HIDE DEF above
    <3>2. above % 256 # 128
      BY <3>1
    <3> QED BY <2>1, <3>2 DEF above
  <2> QED BY <1>b, <1>i, <2>1
<1>h. wide >= Shl(65536, i)
  BY <1>i, <1>r, <1>s, <1>g
<1>d. wide % Shl(65536, i) = 0
  <2>1. CASE i = 0 BY <1>i, <1>r, <1>s, <1>w, <2>1
  <2>2. CASE i = 1 BY <1>i, <1>r, <1>s, <1>w, <2>2
  <2>3. CASE i = 2 BY <1>i, <1>r, <1>s, <1>w, <2>3
  <2>4. CASE i = 3 BY <1>i, <1>r, <1>s, <1>w, <2>4
  <2>5. CASE i = 4 BY <1>i, <1>r, <1>s, <1>w, <2>5
  <2>6. CASE i = 5 BY <1>i, <1>r, <1>s, <1>w, <2>6
  <2>7. CASE i = 6 BY <1>i, <1>r, <1>s, <1>w, <2>7
  <2> QED BY <1>g, <2>1, <2>2, <2>3, <2>4, <2>5, <2>6, <2>7
<1>e. i < k
  <2>1. CASE k = 0 BY <1>i, <1>g, <1>s, <1>w, <2>1
  <2>2. CASE k = 1 BY <1>i, <1>g, <1>s, <1>w, <2>2
  <2>3. CASE k = 2 BY <1>i, <1>g, <1>s, <1>w, <2>3
  <2>4. CASE k = 3 BY <1>i, <1>g, <1>s, <1>w, <2>4
  <2>5. CASE k = 4 BY <1>i, <1>g, <1>s, <1>w, <2>5
  <2>6. CASE k = 5 BY <1>i, <1>g, <1>s, <1>w, <2>6
  <2>7. CASE k = 6 BY <1>i, <1>g, <1>s, <1>w, <2>7
  <2>8. CASE k = 7 BY <1>i, <1>g, <1>s, <1>w, <2>8
  <2> QED BY <1>k, <2>1, <2>2, <2>3, <2>4, <2>5, <2>6, <2>7, <2>8
<1> DEFINE top == Shl(range, k) * Scale
<1>t. /\ top \in Nat
      /\ k = 0 => top = 131072 * range
      /\ k = 1 => top = 262144 * range
      /\ k = 2 => top = 524288 * range
      /\ k = 3 => top = 1048576 * range
      /\ k = 4 => top = 2097152 * range
      /\ k = 5 => top = 4194304 * range
      /\ k = 6 => top = 8388608 * range
      /\ k = 7 => top = 16777216 * range
  BY <1>k, ShlValues DEF Scale
<1> HIDE DEF top
<1>u. low < 131072 * range
  BY DEF Scale
<1>f. wide < top
  BY <1>k, <1>s, <1>t, <1>u
<1>j. top % Shl(65536, i) = 0
  <2>1. CASE k = 0 BY <1>t, <1>e, <1>g, <1>r, <2>1
  <2>2. CASE k = 1 BY <1>t, <1>e, <1>g, <1>r, <2>2
  <2>3. CASE k = 2 BY <1>t, <1>e, <1>g, <1>r, <2>3
  <2>4. CASE k = 3 BY <1>t, <1>e, <1>g, <1>r, <2>4
  <2>5. CASE k = 4 BY <1>t, <1>e, <1>g, <1>r, <2>5
  <2>6. CASE k = 5 BY <1>t, <1>e, <1>g, <1>r, <2>6
  <2>7. CASE k = 6 BY <1>t, <1>e, <1>g, <1>r, <2>7
  <2>8. CASE k = 7 BY <1>t, <1>e, <1>g, <1>r, <2>8
  <2> QED BY <1>k, <2>1, <2>2, <2>3, <2>4, <2>5, <2>6, <2>7, <2>8
<1>l. wide + Shl(65536, i) <= top
  <2>1. CASE i = 0 BY <1>d, <1>f, <1>j, <1>r, <1>s, <1>t, <2>1
  <2>2. CASE i = 1 BY <1>d, <1>f, <1>j, <1>r, <1>s, <1>t, <2>2
  <2>3. CASE i = 2 BY <1>d, <1>f, <1>j, <1>r, <1>s, <1>t, <2>3
  <2>4. CASE i = 3 BY <1>d, <1>f, <1>j, <1>r, <1>s, <1>t, <2>4
  <2>5. CASE i = 4 BY <1>d, <1>f, <1>j, <1>r, <1>s, <1>t, <2>5
  <2>6. CASE i = 5 BY <1>d, <1>f, <1>j, <1>r, <1>s, <1>t, <2>6
  <2>7. CASE i = 6 BY <1>d, <1>f, <1>j, <1>r, <1>s, <1>t, <2>7
  <2> QED BY <1>g, <2>1, <2>2, <2>3, <2>4, <2>5, <2>6, <2>7
<1> QED BY <1>g, <1>h, <1>l DEF i, wide, top

\* The offset lies below the range, and what is fetched ahead is marked.
Below(low, range) ==
    /\ low \in Nat
    /\ low < range * Scale
    /\ low % 65536 # 0

\* What is added: two bytes, less the mask that removes the old marker.
TwoBytes(f) ==
    /\ f \in Int
    /\ 0 < f + 65536
    /\ f < 65536
    /\ f % 2 = 1

(* The same for the bytes that are added in place of the marker.           *)
LEMMA TwoBytesFit ==
    ASSUME NEW low, NEW range \in Nat, Below(low, range),
           NEW k \in 0..7, Shl(low, k) % 65536 = 0, NEW f, TwoBytes(f)
    PROVE  Below(Shl(low, k) + Shl(f, Ahead(Shl(low, k))), Shl(range, k))
<1> DEFINE wide == Shl(low, k)
           i == Ahead(wide)
           top == Shl(range, k) * Scale
           add == Shl(f, i)
<1>0. /\ low \in Nat
      /\ low < range * Scale
      /\ low % 65536 # 0
      /\ f \in Int
      /\ 0 < f + 65536
      /\ f < 65536
      /\ f % 2 = 1
  BY DEF Below, TwoBytes
<1>f. f \in Int
  BY <1>0
<1>1. /\ i \in 0..6
      /\ wide >= Shl(65536, i)
      /\ wide + Shl(65536, i) <= top
  BY <1>0, RoomAbove
<1>2. wide \in Nat /\ top \in Nat /\ wide % 65536 = 0
  <2>1. \/ k = 0 \/ k = 1 \/ k = 2 \/ k = 3 \/ k = 4 \/ k = 5 \/ k = 6 \/ k = 7
    OBVIOUS
  <2> QED BY SMTT(30), <2>1, <1>0, ShlValues DEF Scale
<1> HIDE DEF wide, i, top
<1>3. /\ add \in Int
      /\ add % 65536 # 0
      /\ -Shl(65536, i) < add
      /\ add < Shl(65536, i)
  <2>0. \/ i = 0 \/ i = 1 \/ i = 2 \/ i = 3 \/ i = 4 \/ i = 5 \/ i = 6
    BY <1>1
  <2>s. /\ i = 0 => add = f /\ Shl(65536, i) = 65536
        /\ i = 1 => add = 2 * f /\ Shl(65536, i) = 131072
        /\ i = 2 => add = 4 * f /\ Shl(65536, i) = 262144
        /\ i = 3 => add = 8 * f /\ Shl(65536, i) = 524288
        /\ i = 4 => add = 16 * f /\ Shl(65536, i) = 1048576
        /\ i = 5 => add = 32 * f /\ Shl(65536, i) = 2097152
        /\ i = 6 => add = 64 * f /\ Shl(65536, i) = 4194304
    BY ONLY <1>f DEF Shl, Pow
  <2> HIDE DEF add
  <2>1. CASE i = 0 BY <1>0, <2>s, <2>1
  <2>2. CASE i = 1 BY <1>0, <2>s, <2>2
  <2>3. CASE i = 2 BY <1>0, <2>s, <2>3
  <2>4. CASE i = 3 BY <1>0, <2>s, <2>4
  <2>5. CASE i = 4 BY <1>0, <2>s, <2>5
  <2>6. CASE i = 5 BY <1>0, <2>s, <2>6
  <2>7. CASE i = 6 BY <1>0, <2>s, <2>7
  <2> QED BY <2>0, <2>1, <2>2, <2>3, <2>4, <2>5, <2>6, <2>7
<1> HIDE DEF add
<1>4. Shl(65536, i) \in Nat
  BY <1>1 DEF Shl, Pow
<1>5. wide + add \in Nat /\ wide + add < top
  BY <1>1, <1>2, <1>3, <1>4
<1>6. (wide + add) % 65536 # 0
  BY <1>2, <1>3
<1> QED BY <1>5, <1>6 DEF wide, i, top, add, Below

-----------------------------------------------------------------------------
(* What a shift and the refill after it keep.                              *)

InRange(low, range, pos) ==
    /\ Below(low, range)
    /\ pos \in Nat
    /\ pos >= 2

\* A register of range g whose offset suits the range r.
Suits(e, r, g) == InRange(e.low, r, e.pos) /\ e.range = g

LEMMA FetchedOdd ==
    ASSUME data \in Seq(0..255), NEW p \in Nat
    PROVE  TwoBytes(Fetched(p))
<1> DEFINE a == ByteAt(p)
           b == ByteAt(p + 1)
<1>1. Fetched(p) = (a * 512) + (b * 2) - 65535
  BY DEF Fetched, CABAC_MASK
<1>2. a \in 0..255 /\ b \in 0..255
  <2>1. p + 1 \in Nat
    OBVIOUS
  <2> QED BY <2>1, ByteRange
<1> HIDE DEF a, b
<1> QED BY <1>1, <1>2 DEF TwoBytes

(* Shifting, with a refill when the marker has left the lower half.  The    *)
(* range may be left alone, as it is by the bypass bins.                    *)
LEMMA ShiftKeepsRange ==
    ASSUME data \in Seq(0..255),
           NEW l, NEW r \in Nat, NEW p, InRange(l, r, p),
           NEW by \in 0..7, NEW g
    PROVE  Suits(Refill2(Register(Shl(l, by), g, p)), Shl(r, by), g)
<1> DEFINE e == Refill2(Register(Shl(l, by), g, p))
           wide == Shl(l, by)
           top == Shl(r, by)
           two == Fetched(p)
           word == wide + Shl(two, Ahead(wide))
<1>t. /\ l \in Nat
      /\ r \in Nat
      /\ p \in Nat
      /\ p >= 2
      /\ by \in 0..7
  BY DEF InRange, Below
<1>c. Below(l, r)
  BY DEF InRange
<1>u. l < r * Scale
  BY <1>c DEF Below
<1>0. \/ by = 0 \/ by = 1 \/ by = 2 \/ by = 3 \/ by = 4 \/ by = 5 \/ by = 6 \/ by = 7
  OBVIOUS
<1>a. /\ by = 0 => wide = l
      /\ by = 1 => wide = 2 * l
      /\ by = 2 => wide = 4 * l
      /\ by = 3 => wide = 8 * l
      /\ by = 4 => wide = 16 * l
      /\ by = 5 => wide = 32 * l
      /\ by = 6 => wide = 64 * l
      /\ by = 7 => wide = 128 * l
  BY ONLY <1>t, ShlCases
<1>b. /\ by = 0 => top = r
      /\ by = 1 => top = 2 * r
      /\ by = 2 => top = 4 * r
      /\ by = 3 => top = 8 * r
      /\ by = 4 => top = 16 * r
      /\ by = 5 => top = 32 * r
      /\ by = 6 => top = 64 * r
      /\ by = 7 => top = 128 * r
  BY ONLY <1>t, ShlCases
<1>4. TwoBytes(two)
  BY <1>t, FetchedOdd
<1>3. e = IF wide % 65536 = 0 THEN Register(word, g, p + 2) ELSE Register(wide, g, p)
  BY DEF Refill2, Register, CABAC_MASK
<1> HIDE DEF e
<1>5. ASSUME wide % 65536 = 0 PROVE Below(word, top)
  <2> HIDE DEF two
  <2> QED BY ONLY <1>t, <1>c, <1>4, <1>5, TwoBytesFit
<1> HIDE DEF wide, top, two, word
<1>2. /\ wide \in Nat
      /\ wide < top * Scale
  BY <1>0, <1>t, <1>u, <1>a, <1>b DEF Scale
<1>6. CASE wide % 65536 = 0
  <2>1. e = Register(word, g, p + 2)
    BY <1>3, <1>6
  <2>2. e.low = word /\ e.range = g /\ e.pos = p + 2
    BY <2>1 DEF Register
  <2>3. p + 2 \in Nat /\ p + 2 >= 2
    BY <1>t
  <2> QED BY <1>5, <1>6, <2>2, <2>3 DEF InRange, Suits, top, e
<1>7. CASE wide % 65536 # 0
  <2>1. e = Register(wide, g, p)
    BY <1>3, <1>7
  <2>2. e.low = wide /\ e.range = g /\ e.pos = p
    BY <2>1 DEF Register
  <2>3. Below(wide, top)
    BY <1>2, <1>7 DEF Below
  <2> QED BY <1>t, <2>2, <2>3 DEF InRange, Suits, top, e
<1> QED BY <1>6, <1>7

(* After a shift by one at most the marker is bit 16, and refill does what *)
(* refill2 does.                                                           *)
LEMMA RefillIsRefill2 ==
    ASSUME data \in Seq(0..255),
           NEW l \in Nat, l % 65536 # 0, NEW p \in Nat, NEW by \in 0..1, NEW g
    PROVE  Refill(Register(Shl(l, by), g, p)) = Refill2(Register(Shl(l, by), g, p))
<1> DEFINE wide == Shl(l, by)
           two == Fetched(p)
<1>0. l \in Nat /\ by \in 0..7
  OBVIOUS
<1>1. /\ by = 0 => wide = l
      /\ by = 1 => wide = 2 * l
  BY ONLY <1>0, ShlCases
<1>2. two \in Int
  BY FetchedOdd DEF TwoBytes
<1>3. /\ Refill(Register(wide, g, p)) =
            IF wide % 65536 = 0 THEN Register(wide + two, g, p + 2) ELSE Register(wide, g, p)
      /\ Refill2(Register(wide, g, p)) =
            IF wide % 65536 = 0 THEN Register(wide + Shl(two, Ahead(wide)), g, p + 2)
            ELSE Register(wide, g, p)
  BY DEF Refill, Refill2, Register, CABAC_MASK
<1> HIDE DEF wide, two
<1>4. CASE wide % 65536 = 0
  <2>1. by = 1
    BY <1>1, <1>4
  <2>2. wide \in Nat /\ (wide \div 65536) % 2 = 1
    BY <1>1, <1>4, <2>1
  <2>3. (wide \div 65536) % 128 # 0
    BY <2>2
  <2>4. Ahead(wide) \in 0..7 /\ LowestOne(wide \div 65536, Ahead(wide))
    BY <2>2, <2>3, AheadFound
  <2>5. Ahead(wide) = 0
    BY <2>2, <2>4, OddHasNothingAhead
  <2>6. Shl(two, Ahead(wide)) = two
    BY <1>2, <2>5, ShlValues
  <2> QED BY <1>3, <2>6 DEF wide
<1>5. CASE wide % 65536 # 0
  BY <1>3, <1>5 DEF wide
<1> QED BY <1>4, <1>5
-----------------------------------------------------------------------------
(* The parts of a bin.                                                     *)

LEMMA NormShiftFits ==
    ASSUME NEW r \in 2..510
    PROVE  /\ NormShift(r) \in 0..7
           /\ Shl(r, NormShift(r)) \in 256..510
BY DEF NormShift, Shl, Pow

LEMMA LpsRangeFits ==
    ASSUME NEW r \in 256..510, NEW mps \in 0..127
    PROVE  LpsRange(r, mps) \in 2..240
<1> DEFINE q == ((r \div 64) % 4) + 1
           h == (mps \div 2) + 1
<1>1. q \in 1..4
  OBVIOUS
<1>h. h \in 1..64
  OBVIOUS
<1> HIDE DEF q, h
<1>2. /\ LpsRangeTable[1][h] \in 2..240
      /\ LpsRangeTable[2][h] \in 2..240
      /\ LpsRangeTable[3][h] \in 2..240
      /\ LpsRangeTable[4][h] \in 2..240
  BY ONLY <1>h, LpsBounds
<1>3. q = 1 \/ q = 2 \/ q = 3 \/ q = 4
  BY <1>1
<1>4. LpsRangeTable[q][h] \in 2..240
  BY <1>2, <1>3
<1> QED BY <1>4 DEF LpsRange, q, h

LEMMA InitStateFits ==
    ASSUME NEW mn \in Int \X Int, NEW qp \in Int
    PROVE  InitState(mn, qp) \in 0..127
<1> DEFINE slope == mn[1] * ClampQp(qp)
           pre == (2 * ((slope \div 16) + mn[2])) - 127
<1>1. slope \in Int
  <2>1. ClampQp(qp) \in Int
    BY DEF ClampQp
  <2>2. mn[1] \in Int
    OBVIOUS
  <2> HIDE DEF slope
  <2>3. \A a, b \in Int : a * b \in Int
    OBVIOUS
  <2> QED BY <2>1, <2>2, <2>3 DEF slope
<1>2. pre \in Int
  <2> HIDE DEF slope
  <2>1. mn[2] \in Int
    OBVIOUS
  <2> QED BY <1>1, <2>1
<1> HIDE DEF pre
<1>3. Folded(pre) \in Nat
  BY <1>2 DEF Folded
<1>4. Capped(Folded(pre)) \in 0..127
  <2> DEFINE n == Folded(pre)
  <2>1. n \in Nat
    BY <1>3
  <2> HIDE DEF n
  <2>2. Capped(n) \in 0..127
    BY <2>1 DEF Capped
  <2> QED BY <2>2 DEF n
<1> QED BY <1>4 DEF InitState, pre, slope

(* The register at the start of the slice data or behind samples.          *)
LEMMA FreshInRange ==
    ASSUME data \in Seq(0..255), NEW at \in Nat, Conforming(at)
    PROVE  InRange(Fresh(at).low, 510, Fresh(at).pos) /\ Fresh(at).range = 510
<1> DEFINE a == ByteAt(at)
           b == ByteAt(at + 1)
           word == (a * 262144) + (b * 1024) + 512
<1>1. a \in 0..255 /\ b \in 0..255
  <2>1. at + 1 \in Nat
    OBVIOUS
  <2> QED BY <2>1, ByteRange
<1>2. Fresh(at).low = word /\ Fresh(at).range = 510 /\ Fresh(at).pos = at + 2
  BY DEF Fresh, Register
<1>3. word < 510 * Scale
  BY <1>2 DEF Conforming
<1> HIDE DEF a, b
<1>4. word \in Nat /\ word % 65536 # 0
  BY <1>1
<1>5. at + 2 \in Nat /\ at + 2 >= 2
  OBVIOUS
<1> HIDE DEF word
<1>6. Below(word, 510)
  BY <1>3, <1>4 DEF Below
<1> QED BY <1>2, <1>5, <1>6 DEF InRange

-----------------------------------------------------------------------------
(* The inductive invariant.                                                *)

\* The register between two bins.
Settled(e) == InRange(e.low, e.range, e.pos) /\ e.range \in 256..510

IInv ==
    /\ data \in Seq(0..255)
    /\ state \in [Contexts -> 0..127]
    /\ engine = Stopped \/ Settled(engine)

(* However small the range has become, the shift settles the register.     *)
LEMMA RenormalisedSettled ==
    ASSUME data \in Seq(0..255), NEW e, e.range \in 2..510,
           InRange(e.low, e.range, e.pos)
    PROVE  Settled(Renormalised(e))
<1> DEFINE width == e.range
           shift == NormShift(width)
           wider == Shl(width, shift)
<1>1. width \in 2..510
  OBVIOUS
<1> HIDE DEF width
<1>2. width \in Nat
  BY ONLY <1>1
<1>3. shift \in 0..7 /\ wider \in 256..510
  BY ZenonT(30), <1>1, NormShiftFits
<1> HIDE DEF shift
<1>4. Suits(Renormalised(e), wider, wider)
  <2>1. Suits(Refill2(Register(Shl(e.low, shift), wider, e.pos)), wider, wider)
    <3>1. InRange(e.low, width, e.pos)
      BY DEF width
    <3> QED BY <1>2, <1>3, <3>1, ShiftKeepsRange
  <2> QED BY <2>1 DEF Renormalised, Shifted, width, shift
<1> QED BY <1>3, <1>4 DEF Settled, Suits

LEMMA MarkKept ==
    ASSUME NEW a \in Nat, NEW b \in Nat, a % 65536 # 0, b % 65536 = 0, a > b
    PROVE  a - b \in Nat /\ (a - b) % 65536 # 0
OBVIOUS

LEMMA RangeLeft ==
    ASSUME NEW a \in 256..510, NEW b \in 2..240
    PROVE  a - b \in 2..510
OBVIOUS

(* A range in two parts: an offset above the lower part suits the upper    *)
(* part when the lower is taken away, any other the lower; it is equal to  *)
(* neither bound, because of the marker.                                   *)
LEMMA SplitAt ==
    ASSUME NEW l, NEW rest \in Nat, NEW part \in Nat, Below(l, rest + part)
    PROVE  /\ l > rest * Scale => Below(l - (rest * Scale), part)
           /\ ~(l > rest * Scale) => l < rest * Scale /\ Below(l, rest)
<1> DEFINE top == rest * Scale
           gap == l - top
<1>1. l \in Nat /\ l % 65536 # 0
  BY DEF Below
<1>2. top \in Nat /\ top % 65536 = 0
  BY DEF Scale
<1>3. l < top + (part * 131072)
  BY DEF Below, Scale
<1> HIDE DEF top
<1>4. ASSUME l > top PROVE Below(gap, part)
  <2>1. gap \in Nat /\ gap % 65536 # 0
    BY ONLY <1>1, <1>2, <1>4, MarkKept
  <2>2. gap < part * 131072
    BY ONLY <1>1, <1>2, <1>3
  <2> HIDE DEF gap
  <2> QED BY <2>1, <2>2 DEF Below, Scale
<1>5. ASSUME ~(l > top) PROVE l < top
  <2>1. l # top
    BY ONLY <1>1, <1>2
  <2> QED BY ONLY <1>1, <1>2, <1>5, <2>1
<1>6. l < top => Below(l, rest)
  BY <1>1 DEF Below, top
<1> QED BY <1>4, <1>5, <1>6 DEF gap, top

(* Either outcome of a context coded bin leaves the offset below the range *)
(* that goes with it.                                                      *)
LEMMA SplitKeepsRange ==
    ASSUME NEW l, NEW r \in 256..510, NEW p, InRange(l, r, p), NEW lps \in 2..240
    PROVE  /\ l > (r - lps) * Scale => InRange(l - ((r - lps) * Scale), lps, p)
           /\ ~(l > (r - lps) * Scale) => InRange(l, r - lps, p)
<1> DEFINE rest == r - lps
<1>1. rest \in Nat /\ lps \in Nat /\ rest + lps = r
  OBVIOUS
<1> HIDE DEF rest
<1>2. Below(l, rest + lps)
  BY <1>1 DEF InRange
<1>3. /\ l > rest * Scale => Below(l - (rest * Scale), lps)
      /\ ~(l > rest * Scale) => Below(l, rest)
  BY <1>1, <1>2, SplitAt
<1> QED BY <1>3 DEF InRange, rest

LEMMA GetCabacSettled ==
    ASSUME IInv, NEW ctx \in Contexts, GetCabac(ctx)
    PROVE  IInv'
<1> DEFINE st == state[ctx]
           lps == LpsRange(engine.range, st)
           split == Lower(engine, lps)
<1>1. /\ data \in Seq(0..255)
      /\ data' = data
      /\ engine.range \in 256..510
      /\ InRange(engine.low, engine.range, engine.pos)
      /\ state \in [Contexts -> 0..127]
  BY DEF IInv, GetCabac, Settled
<1>s. st \in 0..127
  BY <1>1
<1>a. AfterSplit(split, lps, ctx, st)
  <2> HIDE DEF lps, st
  <2>1. \E k \in {lps} : AfterSplit(Lower(engine, k), k, ctx, st)
    BY DEF GetCabac, lps, st
  <2> QED BY <2>1
<1> HIDE DEF st
<1>2. lps \in 2..240
  BY <1>1, <1>s, LpsRangeFits
<1> HIDE DEF lps
<1>3. /\ split.low = engine.low
      /\ split.range = engine.range - lps
      /\ split.pos = engine.pos
  BY DEF Lower, Register
<1> HIDE DEF split
<1>4. engine.range - lps \in 2..510
  BY ZenonT(30), <1>1, <1>2, RangeLeft
<1>5. CASE IsLps(split)
  <2>1. InRange(Taken(split, lps).low, lps, Taken(split, lps).pos)
    <3>1. Taken(split, lps).low = engine.low - ((engine.range - lps) * Scale)
      BY <1>3 DEF Taken, Register
    <3>2. Taken(split, lps).pos = engine.pos
      BY <1>3 DEF Taken, Register
    <3>3. engine.low > (engine.range - lps) * Scale
      BY <1>3, <1>5 DEF IsLps
    <3> QED BY ZenonT(30), <1>1, <1>2, <3>1, <3>2, <3>3, SplitKeepsRange
  <2>2. Taken(split, lps).range = lps
    BY DEF Taken, Register
  <2>3. Taken(split, lps).range \in 2..510
    BY <1>2, <2>2
  <2>4. Settled(Renormalised(Taken(split, lps)))
    BY <1>1, <2>1, <2>2, <2>3, RenormalisedSettled
  <2>5. st + 1 \in 1..128
    BY <1>s
  <2>6. MlpsLps[st + 1] \in 0..127
    BY <2>5, NextStates
  <2>7. engine' = Renormalised(Taken(split, lps)) /\ state' = [state EXCEPT ![ctx] = MlpsLps[st + 1]]
    BY <1>a, <1>5 DEF AfterSplit
  <2>8. state' \in [Contexts -> 0..127]
    BY <1>1, <2>6, <2>7
  <2> QED BY <1>1, <2>4, <2>7, <2>8 DEF IInv
<1>6. CASE ~IsLps(split)
  <2>1. InRange(split.low, split.range, split.pos)
    <3>1. ~(engine.low > (engine.range - lps) * Scale)
      BY <1>3, <1>6 DEF IsLps
    <3> QED BY ZenonT(30), <1>1, <1>2, <1>3, <3>1, SplitKeepsRange
  <2>2. Settled(Renormalised(split))
    <3>1. split.range \in 2..510
      BY <1>3, <1>4
    <3> QED BY <1>1, <2>1, <3>1, RenormalisedSettled
  <2>3. NextMps(st) \in 0..127
    BY <1>s DEF NextMps
  <2>4. engine' = Renormalised(split) /\ state' = [state EXCEPT ![ctx] = NextMps(st)]
    BY <1>a, <1>6 DEF AfterSplit
  <2>5. state' \in [Contexts -> 0..127]
    BY <1>1, <2>3, <2>4
  <2> QED BY <1>1, <2>2, <2>4, <2>5 DEF IInv
<1> QED BY <1>5, <1>6

LEMMA TwiceWide ==
    ASSUME NEW r \in Nat
    PROVE  Shl(r, 1) = r + r
BY ShlValues

LEMMA BypassSettled ==
    ASSUME IInv, GetCabacBypass
    PROVE  IInv'
<1> DEFINE e == Doubled(engine)
           width == engine.range
<1>1. /\ data \in Seq(0..255)
      /\ data' = data
      /\ state' = state
      /\ state \in [Contexts -> 0..127]
      /\ width \in 256..510
      /\ InRange(engine.low, width, engine.pos)
      /\ AfterBypass(e)
  BY DEF IInv, GetCabacBypass, Settled
<1>2. e = Refill(Register(2 * engine.low, width, engine.pos))
  BY DEF Doubled
<1> HIDE DEF e, width
<1>3. width \in Nat
  BY <1>1
<1>4. engine.low \in Nat /\ engine.low % 65536 # 0 /\ engine.pos \in Nat
  BY <1>1 DEF InRange, Below
<1>5. Suits(e, Shl(width, 1), width)
  <2>1. 2 * engine.low = Shl(engine.low, 1)
    BY <1>4, ShlValues
  <2>2. 1 \in 0..1 /\ 1 \in 0..7
    OBVIOUS
  <2>3. e = Refill2(Register(Shl(engine.low, 1), width, engine.pos))
    BY <1>1, <1>2, <1>4, <2>1, <2>2, RefillIsRefill2
  <2> QED BY <1>1, <1>3, <2>2, <2>3, ShiftKeepsRange
<1>6. /\ Below(e.low, width + width)
      /\ e.pos \in Nat
      /\ e.pos >= 2
      /\ e.range = width
  BY <1>3, <1>5, TwiceWide DEF Suits, InRange
<1>7. /\ e.low > width * Scale => Below(e.low - (width * Scale), width)
      /\ ~(e.low > width * Scale) => e.low < width * Scale /\ Below(e.low, width)
  BY <1>3, <1>6, SplitAt
<1>8. CASE e.low < e.range * Scale
  <2>1. engine' = e
    BY <1>1, <1>8 DEF AfterBypass
  <2>2. Below(e.low, width)
    <3>1. e.low < width * Scale
      BY <1>6, <1>8
    <3>2. e.low \in Nat /\ e.low % 65536 # 0
      BY <1>6 DEF Below
    <3> QED BY <3>1, <3>2 DEF Below
  <2> QED BY <1>1, <1>6, <2>1, <2>2 DEF IInv, Settled, InRange
<1>9. CASE ~(e.low < e.range * Scale)
  <2>1. engine' = Taken(e, e.range)
    BY <1>1, <1>9 DEF AfterBypass
  <2>2. /\ engine'.low = e.low - (width * Scale)
        /\ engine'.range = width
        /\ engine'.pos = e.pos
    BY <1>6, <2>1 DEF Taken, Register
  <2>3. Below(e.low - (width * Scale), width)
    BY <1>6, <1>7, <1>9
  <2> QED BY <1>1, <1>6, <2>2, <2>3 DEF IInv, Settled, InRange
<1> QED BY <1>8, <1>9

(* A slice or the macroblock after samples starts with a fresh register.   *)
LEMMA FreshSettled ==
    ASSUME data \in Seq(0..255), NEW at \in Nat, Conforming(at)
    PROVE  Settled(Fresh(at))
<1>1. 510 \in 256..510
  OBVIOUS
<1> QED BY <1>1, FreshInRange DEF Settled

LEMMA TerminateSettled ==
    ASSUME IInv, GetCabacTerminate
    PROVE  IInv'
<1> DEFINE e == Lower(engine, 2)
           width == engine.range
           rest == width - 2
<1>1. /\ data \in Seq(0..255)
      /\ data' = data
      /\ state' = state
      /\ state \in [Contexts -> 0..127]
      /\ width \in 256..510
      /\ InRange(engine.low, width, engine.pos)
      /\ AfterTerminate(e)
  BY DEF IInv, GetCabacTerminate, Settled
<1>2. /\ e.low = engine.low
      /\ e.range = rest
      /\ e.pos = engine.pos
  BY DEF Lower, Register
<1> HIDE DEF e, width
<1>3. rest \in 254..508 /\ rest \in Nat /\ rest + 2 = width
  BY <1>1
<1> HIDE DEF rest
<1>4. /\ e.low \in Nat
      /\ e.low % 65536 # 0
      /\ e.pos \in Nat
      /\ e.pos >= 2
  BY <1>1, <1>2 DEF InRange, Below
<1>5. CASE e.low < e.range * Scale
  <2> DEFINE by == IF e.range < 256 THEN 1 ELSE 0
             wider == Shl(rest, by)
  <2>1. engine' = Refill(Shifted(e, by))
    BY <1>1, <1>5 DEF AfterTerminate
  <2>2. by \in 0..1 /\ by \in 0..7
    OBVIOUS
  <2>3. wider \in 256..510
    BY SMTT(30), <1>2, <1>3, ShlValues
  <2>4. InRange(e.low, rest, e.pos)
    BY <1>2, <1>4, <1>5 DEF InRange, Below
  <2> HIDE DEF by
  <2>5. engine' = Refill2(Register(Shl(e.low, by), wider, e.pos))
    BY <1>1, <1>2, <1>4, <2>1, <2>2, RefillIsRefill2 DEF Shifted
  <2>6. Suits(engine', wider, wider)
    BY <1>1, <1>3, <2>2, <2>4, <2>5, ShiftKeepsRange
  <2>7. Settled(engine')
    BY <2>3, <2>6 DEF Suits, Settled
  <2> QED BY <1>1, <2>7 DEF IInv, Settled
<1>6. CASE ~(e.low < e.range * Scale)
  <2> DEFINE at == PcmBytePosition(e) + PcmBytes
  <2>1. at \in Nat
    BY <1>4, PcmBytesAssumption DEF PcmBytePosition
  <2>2. engine' = Stopped \/ (Conforming(at) /\ engine' = Fresh(at))
    BY <1>1, <1>6 DEF AfterTerminate, AfterPcm
  <2> HIDE DEF at
  <2>3. engine' = Stopped \/ Settled(engine')
    BY <1>1, <2>1, <2>2, FreshSettled
  <2> QED BY <1>1, <2>3 DEF IInv, Settled
<1> QED BY <1>5, <1>6

LEMMA StartSettled ==
    ASSUME IInv, NEW at \in 0..Len(data), NEW qp \in Qps, StartSlice(at, qp)
    PROVE  IInv'
<1>1. /\ data \in Seq(0..255)
      /\ data' = data
      /\ Conforming(at)
      /\ engine' = Fresh(at)
      /\ state' = [c \in Contexts |-> InitState(InitValues[c], qp)]
  BY DEF IInv, StartSlice
<1>2. at \in Nat
  BY <1>1
<1>3. Settled(engine')
  BY <1>1, <1>2, FreshSettled
<1>4. \A c \in Contexts : InitState(InitValues[c], qp) \in 0..127
  BY InitValuesAssumption, QpsAssumption, InitStateFits
<1>5. state' \in [Contexts -> 0..127]
  BY <1>1, <1>4
<1> QED BY <1>1, <1>3, <1>5 DEF IInv, Settled

-----------------------------------------------------------------------------

LEMMA IInvHolds == Spec => []IInv
<1>1. Init => IInv
  BY DEF Init, IInv
<1>2. IInv /\ [Next]_vars => IInv'
  <2> SUFFICES ASSUME IInv, [Next]_vars PROVE IInv'
    OBVIOUS
  <2>1. ASSUME NEW at \in 0..Len(data), NEW qp \in Qps, StartSlice(at, qp) PROVE IInv'
    BY <2>1, StartSettled
  <2>2. ASSUME NEW ctx \in Contexts, GetCabac(ctx) PROVE IInv'
    BY <2>2, GetCabacSettled
  <2>3. CASE GetCabacBypass
    BY <2>3, BypassSettled
  <2>4. CASE GetCabacTerminate
    BY <2>4, TerminateSettled
  <2>5. CASE UNCHANGED vars
    BY <2>5 DEF vars, IInv, Settled
  <2> QED BY <2>1, <2>2, <2>3, <2>4, <2>5 DEF Next
<1> QED BY <1>1, <1>2, PTL DEF Spec

(* Between two bins the offset lies below the range, the range in its nine *)
(* bits, the context variables in their table, and one bit marks what was  *)
(* fetched ahead: no operation of CabacReader wraps or mistakes a sign,    *)
(* whatever the data, the context variables and the bins asked for.        *)
THEOREM EngineStaysInRange == Spec => []EngineInRange
<1>1. IInv => EngineInRange
  <2> SUFFICES ASSUME IInv, engine # Stopped PROVE EngineInRange
    BY DEF EngineInRange
  <2>1. /\ engine.range \in 256..510
        /\ Below(engine.low, engine.range)
        /\ engine.pos \in Nat
        /\ state \in [Contexts -> 0..127]
    BY DEF IInv, Settled, InRange
  <2>2. engine.low \in Nat /\ engine.low % 65536 # 0
    BY <2>1 DEF Below
  <2>3. \E m \in 0..15 : MarkedAt(engine.low, m)
    BY <2>2, MarkedBelow
  <2>4. engine.low \in 0..(engine.range * Scale) - 1
    <3> DEFINE n == engine.low
               top == engine.range * Scale
    <3>1. n \in Nat /\ top \in Nat /\ n < top
      BY <2>1, <2>2 DEF Below, Scale
    <3> HIDE DEF n, top
    <3>2. n \in 0..top - 1
      BY <3>1
    <3> QED BY <3>2 DEF n, top
  <2> QED BY <2>1, <2>3, <2>4 DEF EngineInRange
<1> QED BY <1>1, IInvHolds, PTL

-----------------------------------------------------------------------------
(* The bits of the abstract decoder.                                       *)

\* f is the function whose value ReadBits(p, n) is at n.
Reads(f, p, n) ==
    f = [k \in 0..n |-> IF k = 0 THEN 0 ELSE (2 * f[k - 1]) + Arithmetic!Bit(p + k - 1)]

\* There is one such function.
OneReading(p, n) ==
    /\ \E f : Reads(f, p, n)
    /\ \A f, g : Reads(f, p, n) /\ Reads(g, p, n) => f = g

(* No bits read: the value 0.                                              *)
LEMMA ReadingStarts ==
    ASSUME NEW p \in Nat
    PROVE  OneReading(p, 0)
<1>1. Reads([k \in 0..0 |-> 0], p, 0)
  BY DEF Reads
<1>2. ASSUME NEW f, NEW g, Reads(f, p, 0), Reads(g, p, 0) PROVE f = g
  <2>1. f = [k \in 0..0 |-> 0] /\ g = [k \in 0..0 |-> 0]
    BY <1>2 DEF Reads
  <2> QED BY <2>1
<1> QED BY <1>1, <1>2 DEF OneReading

(* The values of a reading are read bit by bit (read_bits(n) of 9.3).      *)
LEMMA ReadingShorter ==
    ASSUME NEW p \in Nat, NEW n \in Nat, NEW f, Reads(f, p, n + 1)
    PROVE  /\ Reads([k \in 0..n |-> f[k]], p, n)
           /\ f[n + 1] = (2 * f[n]) + Arithmetic!Bit(p + n)
<1>1. \A k \in 0..n + 1 : f[k] = IF k = 0 THEN 0 ELSE (2 * f[k - 1]) + Arithmetic!Bit(p + k - 1)
  BY DEF Reads
<1>2. f[n + 1] = (2 * f[n]) + Arithmetic!Bit(p + n)
  <2>1. n + 1 \in 0..n + 1 /\ n + 1 # 0 /\ (n + 1) - 1 = n /\ p + (n + 1) - 1 = p + n
    OBVIOUS
  <2> QED BY <1>1, <2>1
<1>3. PICK g : g = [k \in 0..n |-> f[k]]
  OBVIOUS
<1>4. \A k \in 0..n : g[k] = IF k = 0 THEN 0 ELSE (2 * g[k - 1]) + Arithmetic!Bit(p + k - 1)
  <2>1. \A k \in 0..n : k # 0 => k - 1 \in 0..n
    OBVIOUS
  <2>2. \A k \in 0..n : k \in 0..n + 1
    OBVIOUS
  <2> QED BY <1>1, <1>3, <2>1, <2>2
<1>5. g = [k \in 0..n |-> IF k = 0 THEN 0 ELSE (2 * g[k - 1]) + Arithmetic!Bit(p + k - 1)]
  BY <1>3, <1>4
<1> QED BY <1>2, <1>3, <1>5 DEF Reads

(* If n bits can be read in one way, so can n + 1.                         *)
LEMMA ReadingGoesOn ==
    ASSUME NEW p \in Nat, NEW n \in Nat, OneReading(p, n)
    PROVE  OneReading(p, n + 1)
<1>1. PICK f : Reads(f, p, n)
  BY DEF OneReading
<1>2. PICK g : g = [k \in 0..n + 1 |-> IF k = n + 1 THEN (2 * f[n]) + Arithmetic!Bit(p + n)
                                        ELSE f[k]]
  OBVIOUS
<1>3. Reads(g, p, n + 1)
  <2>1. \A k \in 0..n : f[k] = IF k = 0 THEN 0 ELSE (2 * f[k - 1]) + Arithmetic!Bit(p + k - 1)
    BY <1>1 DEF Reads
  <2>2. \A k \in 0..n + 1 : k # n + 1 => k \in 0..n
    OBVIOUS
  <2>3. \A k \in 0..n : k \in 0..n + 1 /\ k # n + 1 /\ (k # 0 => k - 1 \in 0..n)
    OBVIOUS
  <2>4. \A k \in 0..n : g[k] = f[k]
    BY <1>2, <2>3
  <2>5. g[n + 1] = (2 * g[n]) + Arithmetic!Bit(p + n)
    <3>1. n + 1 \in 0..n + 1 /\ n \in 0..n
      OBVIOUS
    <3> QED BY <1>2, <2>4, <3>1
  <2>6. ASSUME NEW k \in 0..n + 1
        PROVE  g[k] = IF k = 0 THEN 0 ELSE (2 * g[k - 1]) + Arithmetic!Bit(p + k - 1)
    <3>1. CASE k = n + 1
      <4>1. k # 0 /\ k - 1 = n /\ p + k - 1 = p + n
        BY <3>1
      <4> QED BY <2>5, <3>1, <4>1
    <3>2. CASE k # n + 1
      <4>1. k \in 0..n
        BY <2>2, <3>2
      <4> QED BY <2>1, <2>3, <2>4, <4>1
    <3> QED BY <3>1, <3>2
  <2> QED BY <1>2, <2>6 DEF Reads
<1>4. ASSUME NEW a, NEW b, Reads(a, p, n + 1), Reads(b, p, n + 1) PROVE a = b
  <2>1. [k \in 0..n |-> a[k]] = [k \in 0..n |-> b[k]]
    <3>1. Reads([k \in 0..n |-> a[k]], p, n) /\ Reads([k \in 0..n |-> b[k]], p, n)
      BY <1>4, ReadingShorter
    <3> QED BY <3>1 DEF OneReading
  <2>2. \A k \in 0..n : a[k] = b[k]
    <3>1. \A k \in 0..n : [j \in 0..n |-> a[j]][k] = [j \in 0..n |-> b[j]][k]
      BY <2>1
    <3> QED BY <3>1
  <2>3. n \in 0..n
    OBVIOUS
  <2>4. a[n + 1] = b[n + 1]
    <3>1. a[n + 1] = (2 * a[n]) + Arithmetic!Bit(p + n)
      BY <1>4, ReadingShorter
    <3>2. b[n + 1] = (2 * b[n]) + Arithmetic!Bit(p + n)
      BY <1>4, ReadingShorter
    <3> QED BY <2>2, <2>3, <3>1, <3>2
  <2>5. \A k \in 0..n + 1 : a[k] = b[k]
    <3>1. \A k \in 0..n + 1 : k \in 0..n \/ k = n + 1
      OBVIOUS
    <3> QED BY <2>2, <2>4, <3>1
  <2>6. a = [k \in 0..n + 1 |-> a[k]] /\ b = [k \in 0..n + 1 |-> b[k]]
    BY <1>4 DEF Reads
  <2> QED BY <2>5, <2>6
<1> QED BY <1>3, <1>4 DEF OneReading

(* Up to nine bits at a time are read, one after the other.                *)
LEMMA BitByBit ==
    ASSUME NEW p \in Nat
    PROVE  /\ Arithmetic!ReadBits(p, 0) = 0
           /\ \A n \in 0..8 :
                Arithmetic!ReadBits(p, n + 1) =
                  (2 * Arithmetic!ReadBits(p, n)) + Arithmetic!Bit(p + n)
<1>1. \A n \in 0..9 : OneReading(p, n)
  <2>0. OneReading(p, 0)
    BY ReadingStarts
  <2> DEFINE One(n) == OneReading(p, n)
  <2>g. \A n \in Nat : One(n) => One(n + 1)
    BY ReadingGoesOn
  <2> HIDE DEF One
  <2>1. One(0)
    BY <2>0 DEF One
  <2>2. One(1) BY <2>g, <2>1
  <2>3. One(2) BY <2>g, <2>2
  <2>4. One(3) BY <2>g, <2>3
  <2>5. One(4) BY <2>g, <2>4
  <2>6. One(5) BY <2>g, <2>5
  <2>7. One(6) BY <2>g, <2>6
  <2>8. One(7) BY <2>g, <2>7
  <2>9. One(8) BY <2>g, <2>8
  <2>10. One(9) BY <2>g, <2>9
  <2>11. \A n \in 0..9 : One(n)
    BY <2>1, <2>2, <2>3, <2>4, <2>5, <2>6, <2>7, <2>8, <2>9, <2>10
  <2> QED BY <2>11 DEF One
<1>2. ASSUME NEW n \in 0..9
      PROVE  \A f : Reads(f, p, n) => Arithmetic!ReadBits(p, n) = f[n]
  <2> DEFINE v == CHOOSE g : Reads(g, p, n)
  <2>1. Arithmetic!ReadBits(p, n) = v[n]
    BY DEF Arithmetic!ReadBits, Reads
  <2>2. Reads(v, p, n)
    BY <1>1 DEF OneReading
  <2> HIDE DEF v
  <2> QED BY <1>1, <2>1, <2>2 DEF OneReading
<1>3. Arithmetic!ReadBits(p, 0) = 0
  <2>1. PICK f : Reads(f, p, 0)
    BY <1>1 DEF OneReading
  <2>2. f[0] = 0
    BY <2>1 DEF Reads
  <2> QED BY <1>2, <2>1, <2>2
<1>4. ASSUME NEW n \in 0..8
      PROVE  Arithmetic!ReadBits(p, n + 1) =
               (2 * Arithmetic!ReadBits(p, n)) + Arithmetic!Bit(p + n)
  <2>0. n \in Nat /\ n \in 0..9 /\ n + 1 \in 0..9 /\ n \in 0..n
    OBVIOUS
  <2>1. PICK f : Reads(f, p, n + 1)
    BY <1>1, <2>0 DEF OneReading
  <2>2. Reads([k \in 0..n |-> f[k]], p, n) /\ f[n + 1] = (2 * f[n]) + Arithmetic!Bit(p + n)
    BY <2>0, <2>1, ReadingShorter
  <2>3. Arithmetic!ReadBits(p, n) = [k \in 0..n |-> f[k]][n]
    BY <1>2, <2>0, <2>2
  <2>4. Arithmetic!ReadBits(p, n + 1) = f[n + 1]
    BY <1>2, <2>0, <2>1
  <2> QED BY <2>0, <2>2, <2>3, <2>4
<1> QED BY <1>3, <1>4

-----------------------------------------------------------------------------
(* What the register has fetched ahead.                                    *)

\* The two bytes fetched last.
Word(p) == (256 * ByteAt(p - 2)) + ByteAt(p - 1)

\* What the register has below bit 17.
Holding(low, ahead, marker) == low % Scale = (ahead % Scale) + marker

\* Below bit 17 are the 16 - m bits of the word that have not been used, and
\* the marker behind them.
Holds(low, p, m) == Holding(low, Word(p) * Shl(2, m), Shl(1, m))

\* The place of the first bit that has not been used.
Unused(p, m) == (8 * p) - (16 - m)

\* What a byte holds, and two of them.
Byte(x) == x \in Nat /\ x < 256
TwoBytesWide(w) == w \in Nat /\ w < 65536

(* The bytes fetched last make a word of 16 bits (cabac.rs:refill); behind *)
(* the data they are zero.                                                 *)
LEMMA WordFits ==
    ASSUME data \in Seq(0..255), NEW p \in Nat, p >= 2
    PROVE  /\ Byte(ByteAt(p - 2)) /\ Byte(ByteAt(p - 1))
           /\ TwoBytesWide(Word(p))
<1>1. p - 2 \in Nat /\ p - 1 \in Nat
  OBVIOUS
<1>2. ByteAt(p - 2) \in 0..255 /\ ByteAt(p - 1) \in 0..255
  BY <1>1, ByteRange
<1> DEFINE a == ByteAt(p - 2)
           b == ByteAt(p - 1)
<1>3. Word(p) = (256 * a) + b
  BY DEF Word
<1>4. a \in 0..255 /\ b \in 0..255
  BY <1>2
<1> HIDE DEF a, b
<1>5. Byte(a) /\ Byte(b)
  BY ONLY <1>4 DEF Byte
<1>6. (256 * a) + b \in Nat /\ (256 * a) + b < 65536
  BY ONLY <1>4
<1> QED BY ONLY <1>3, <1>5, <1>6 DEF a, b, TwoBytesWide

(* The values of the places a marker may have.                             *)
LEMMA Places ==
    ASSUME NEW m \in 0..15
    PROVE 
      \/ m = 0 /\ Shl(1, m) = 1 /\ Shl(2, m) = 2 /\ Shl(1, 15 - m) = 32768
      \/ m = 1 /\ Shl(1, m) = 2 /\ Shl(2, m) = 4 /\ Shl(1, 15 - m) = 16384
      \/ m = 2 /\ Shl(1, m) = 4 /\ Shl(2, m) = 8 /\ Shl(1, 15 - m) = 8192
      \/ m = 3 /\ Shl(1, m) = 8 /\ Shl(2, m) = 16 /\ Shl(1, 15 - m) = 4096
      \/ m = 4 /\ Shl(1, m) = 16 /\ Shl(2, m) = 32 /\ Shl(1, 15 - m) = 2048
      \/ m = 5 /\ Shl(1, m) = 32 /\ Shl(2, m) = 64 /\ Shl(1, 15 - m) = 1024
      \/ m = 6 /\ Shl(1, m) = 64 /\ Shl(2, m) = 128 /\ Shl(1, 15 - m) = 512
      \/ m = 7 /\ Shl(1, m) = 128 /\ Shl(2, m) = 256 /\ Shl(1, 15 - m) = 256
      \/ m = 8 /\ Shl(1, m) = 256 /\ Shl(2, m) = 512 /\ Shl(1, 15 - m) = 128
      \/ m = 9 /\ Shl(1, m) = 512 /\ Shl(2, m) = 1024 /\ Shl(1, 15 - m) = 64
      \/ m = 10 /\ Shl(1, m) = 1024 /\ Shl(2, m) = 2048 /\ Shl(1, 15 - m) = 32
      \/ m = 11 /\ Shl(1, m) = 2048 /\ Shl(2, m) = 4096 /\ Shl(1, 15 - m) = 16
      \/ m = 12 /\ Shl(1, m) = 4096 /\ Shl(2, m) = 8192 /\ Shl(1, 15 - m) = 8
      \/ m = 13 /\ Shl(1, m) = 8192 /\ Shl(2, m) = 16384 /\ Shl(1, 15 - m) = 4
      \/ m = 14 /\ Shl(1, m) = 16384 /\ Shl(2, m) = 32768 /\ Shl(1, 15 - m) = 2
      \/ m = 15 /\ Shl(1, m) = 32768 /\ Shl(2, m) = 65536 /\ Shl(1, 15 - m) = 1
<1>1. \/ m = 0 \/ m = 1 \/ m = 2 \/ m = 3 \/ m = 4 \/ m = 5 \/ m = 6 \/ m = 7
      \/ m = 8 \/ m = 9 \/ m = 10 \/ m = 11 \/ m = 12 \/ m = 13 \/ m = 14 \/ m = 15
  OBVIOUS
<1> QED BY <1>1 DEF Shl, Pow

\* A register with its marker at the place one is marked there alone.
MarksAt(low, w, one, two) ==
    Holding(low, w * two, one) =>
      (low \div one) % 2 = 1 /\ low % one = 0 /\ low % 65536 # 0

(* A register that has a word and a marker is marked where the invariant   *)
(* of the engine says.                                                     *)
LEMMA HoldsIsMarked ==
    ASSUME NEW low \in Nat, NEW w \in Nat, NEW m \in 0..15,
           Holding(low, w * Shl(2, m), Shl(1, m))
    PROVE  MarkedAt(low, m) /\ low % 65536 # 0
<1>0. low \in Nat /\ w \in Nat
  OBVIOUS
<1>c0. MarksAt(low, w, 1, 2) BY ONLY <1>0 DEF MarksAt, Holding, Scale
<1>c1. MarksAt(low, w, 2, 4) BY ONLY <1>0 DEF MarksAt, Holding, Scale
<1>c2. MarksAt(low, w, 4, 8) BY ONLY <1>0 DEF MarksAt, Holding, Scale
<1>c3. MarksAt(low, w, 8, 16) BY ONLY <1>0 DEF MarksAt, Holding, Scale
<1>c4. MarksAt(low, w, 16, 32) BY ONLY <1>0 DEF MarksAt, Holding, Scale
<1>c5. MarksAt(low, w, 32, 64) BY ONLY <1>0 DEF MarksAt, Holding, Scale
<1>c6. MarksAt(low, w, 64, 128) BY ONLY <1>0 DEF MarksAt, Holding, Scale
<1>c7. MarksAt(low, w, 128, 256) BY ONLY <1>0 DEF MarksAt, Holding, Scale
<1>c8. MarksAt(low, w, 256, 512) BY ONLY <1>0 DEF MarksAt, Holding, Scale
<1>c9. MarksAt(low, w, 512, 1024) BY ONLY <1>0 DEF MarksAt, Holding, Scale
<1>c10. MarksAt(low, w, 1024, 2048) BY ONLY <1>0 DEF MarksAt, Holding, Scale
<1>c11. MarksAt(low, w, 2048, 4096) BY ONLY <1>0 DEF MarksAt, Holding, Scale
<1>c12. MarksAt(low, w, 4096, 8192) BY ONLY <1>0 DEF MarksAt, Holding, Scale
<1>c13. MarksAt(low, w, 8192, 16384) BY ONLY <1>0 DEF MarksAt, Holding, Scale
<1>c14. MarksAt(low, w, 16384, 32768) BY ONLY <1>0 DEF MarksAt, Holding, Scale
<1>c15. MarksAt(low, w, 32768, 65536) BY ONLY <1>0 DEF MarksAt, Holding, Scale
<1>1. MarksAt(low, w, Shl(1, m), Shl(2, m))
  BY ONLY Places, m \in 0..15, <1>c0, <1>c1, <1>c2, <1>c3, <1>c4, <1>c5, <1>c6, <1>c7,
     <1>c8, <1>c9, <1>c10, <1>c11, <1>c12, <1>c13, <1>c14, <1>c15
<1>2. Shl(1, m) = Pow[m + 1]
  BY DEF Shl, Pow
<1>3. (low \div Shl(1, m)) % 2 = 1 /\ low % Shl(1, m) = 0 /\ low % 65536 # 0
  BY <1>1 DEF MarksAt
<1> QED BY ONLY <1>2, <1>3 DEF MarkedAt


(* No number is marked in two places.                                      *)
LEMMA OneMarker ==
    ASSUME NEW low \in Nat, NEW m \in 0..15, NEW n \in 0..15, MarkedAt(low, m), MarkedAt(low, n)
    PROVE  m = n
<1>1. ASSUME NEW i \in 0..15, NEW j \in 0..15, i < j, MarkedAt(low, i), MarkedAt(low, j)
      PROVE  FALSE
  <2>1. \/ i = 0 \/ i = 1 \/ i = 2 \/ i = 3 \/ i = 4 \/ i = 5 \/ i = 6 \/ i = 7
        \/ i = 8 \/ i = 9 \/ i = 10 \/ i = 11 \/ i = 12 \/ i = 13 \/ i = 14
    BY <1>1
  <2>2. low % Shl(2, i) = 0
    <3>1. \/ j = 1 \/ j = 2 \/ j = 3 \/ j = 4 \/ j = 5 \/ j = 6 \/ j = 7
          \/ j = 8 \/ j = 9 \/ j = 10 \/ j = 11 \/ j = 12 \/ j = 13 \/ j = 14 \/ j = 15
      BY <1>1
    <3>2. low % Pow[j + 1] = 0
      BY <1>1 DEF MarkedAt
    <3> QED BY ONLY <1>1, <2>1, <3>1, <3>2, low \in Nat DEF Shl, Pow
  <2>3. (low \div Pow[i + 1]) % 2 = 1
    BY <1>1 DEF MarkedAt
  <2> QED BY ONLY <2>1, <2>2, <2>3, low \in Nat DEF Shl, Pow
<1> QED BY <1>1

\* The weights of the bits of a byte, the highest first.
HalfOf(j, half) ==
    \/ j = 0 /\ half = 128
    \/ j = 1 /\ half = 64
    \/ j = 2 /\ half = 32
    \/ j = 3 /\ half = 16
    \/ j = 4 /\ half = 8
    \/ j = 5 /\ half = 4
    \/ j = 6 /\ half = 2
    \/ j = 7 /\ half = 1

(* The weight of bit j of a byte (the highest is read first).              *)
LEMMA Halves ==
    ASSUME NEW j \in 0..7
    PROVE  HalfOf(j, 2 ^ (7 - j))
<1>1. \/ j = 0 \/ j = 1 \/ j = 2 \/ j = 3 \/ j = 4 \/ j = 5 \/ j = 6 \/ j = 7
  OBVIOUS
<1>c0. CASE j = 0 BY ONLY <1>c0 DEF HalfOf
<1>c1. CASE j = 1 BY ONLY <1>c1 DEF HalfOf
<1>c2. CASE j = 2 BY ONLY <1>c2 DEF HalfOf
<1>c3. CASE j = 3 BY ONLY <1>c3 DEF HalfOf
<1>c4. CASE j = 4 BY ONLY <1>c4 DEF HalfOf
<1>c5. CASE j = 5 BY ONLY <1>c5 DEF HalfOf
<1>c6. CASE j = 6 BY ONLY <1>c6 DEF HalfOf
<1>c7. CASE j = 7 BY ONLY <1>c7 DEF HalfOf
<1> QED BY <1>1, <1>c0, <1>c1, <1>c2, <1>c3, <1>c4, <1>c5, <1>c6, <1>c7

(* Bit 15 - m of the word is the first that has not been used.             *)
LEMMA BitOfWord ==
    ASSUME data \in Seq(0..255), NEW p \in Nat, p >= 2, NEW m \in 0..15
    PROVE  Arithmetic!Bit(Unused(p, m)) = (Word(p) \div Shl(1, 15 - m)) % 2
<1>a. PICK a : a = ByteAt(p - 2)
  OBVIOUS
<1>b. PICK b : b = ByteAt(p - 1)
  OBVIOUS
<1>j. PICK j : j = IF m < 8 THEN m ELSE m - 8
  OBVIOUS
<1>k. PICK k : k = IF m < 8 THEN p - 2 ELSE p - 1
  OBVIOUS
<1>h. PICK half : half = 2 ^ (7 - j)
  OBVIOUS
<1>1. a \in Nat /\ a < 256 /\ b \in Nat /\ b < 256 /\ Word(p) = (256 * a) + b
  <2>1. Byte(ByteAt(p - 2)) /\ Byte(ByteAt(p - 1))
    BY WordFits
  <2>2. Word(p) = (256 * a) + b
    BY ONLY <1>a, <1>b DEF Word
  <2> QED BY ONLY <1>a, <1>b, <2>1, <2>2 DEF Byte
<1>2. Unused(p, m) \in Nat /\ Unused(p, m) \div 8 = k /\ Unused(p, m) % 8 = j /\ j \in 0..7
  BY <1>j, <1>k DEF Unused
<1>3.
      /\ (m = 0 => half = 128) /\ (m = 1 => half = 64)
      /\ (m = 2 => half = 32) /\ (m = 3 => half = 16)
      /\ (m = 4 => half = 8) /\ (m = 5 => half = 4)
      /\ (m = 6 => half = 2) /\ (m = 7 => half = 1)
      /\ (m = 8 => half = 128) /\ (m = 9 => half = 64)
      /\ (m = 10 => half = 32) /\ (m = 11 => half = 16)
      /\ (m = 12 => half = 8) /\ (m = 13 => half = 4)
      /\ (m = 14 => half = 2) /\ (m = 15 => half = 1)
  <2>1. HalfOf(j, half)
    <3>1. j \in 0..7
      BY ONLY <1>2
    <3>2. HalfOf(j, 2 ^ (7 - j))
      BY <3>1, Halves
    <3> QED BY ONLY <1>h, <3>2
  <2>2. m < 8 => m = j
    BY ONLY <1>j
  <2>3. ~(m < 8) => m = j + 8
    BY ONLY <1>j, m \in 0..15
  <2> QED BY ONLY <2>1, <2>2, <2>3, m \in 0..15 DEF HalfOf
<1>4. ByteAt(k) = IF m < 8 THEN a ELSE b
  BY ONLY <1>a, <1>b, <1>k
<1>5. half \in Nat /\ half > 0
  BY ONLY <1>3, m \in 0..15
<1>6. Arithmetic!Bit(Unused(p, m)) = (ByteAt(k) \div half) % 2
  <2>1. Arithmetic!Bit(Unused(p, m)) = IF k < Len(data) THEN (data[k + 1] \div half) % 2 ELSE 0
    BY <1>2, <1>h DEF Arithmetic!Bit
  <2>2. (0 \div half) % 2 = 0
    BY ONLY <1>5
  <2> QED BY ONLY <2>1, <2>2 DEF ByteAt
\* The place n of the word is the place h of one of its bytes.
<1> DEFINE InHigh(h, n) == (a \div h) % 2 = (((256 * a) + b) \div n) % 2
           InLow(h) == (b \div h) % 2 = (((256 * a) + b) \div h) % 2
<1>c0. InHigh(128, 32768) BY ONLY <1>1
<1>c1. InHigh(64, 16384) BY ONLY <1>1
<1>c2. InHigh(32, 8192) BY ONLY <1>1
<1>c3. InHigh(16, 4096) BY ONLY <1>1
<1>c4. InHigh(8, 2048) BY ONLY <1>1
<1>c5. InHigh(4, 1024) BY ONLY <1>1
<1>c6. InHigh(2, 512) BY ONLY <1>1
<1>c7. InHigh(1, 256) BY ONLY <1>1
<1>c8. InLow(128) BY ONLY <1>1
<1>c9. InLow(64) BY ONLY <1>1
<1>c10. InLow(32) BY ONLY <1>1
<1>c11. InLow(16) BY ONLY <1>1
<1>c12. InLow(8) BY ONLY <1>1
<1>c13. InLow(4) BY ONLY <1>1
<1>c14. InLow(2) BY ONLY <1>1
<1>c15. InLow(1) BY ONLY <1>1
<1> HIDE DEF InHigh, InLow
<1>7. m < 8 => InHigh(half, Shl(1, 15 - m))
  BY ONLY <1>3, Places, m \in 0..15, <1>c0, <1>c1, <1>c2, <1>c3, <1>c4, <1>c5, <1>c6, <1>c7
<1>8. ~(m < 8) => InLow(half) /\ half = Shl(1, 15 - m)
  BY ONLY <1>3, Places, m \in 0..15, <1>c8, <1>c9, <1>c10, <1>c11, <1>c12, <1>c13, <1>c14, <1>c15
<1>9. (ByteAt(k) \div half) % 2 = (((256 * a) + b) \div Shl(1, 15 - m)) % 2
  BY ONLY <1>4, <1>7, <1>8 DEF InHigh, InLow
<1> QED BY ONLY <1>1, <1>6, <1>9

\* What a shift by one makes of a word and a marker at the place one.
ShiftsWord(low, w, one, two, rest) ==
    Holding(low, w * two, one) =>
      /\ Holding(2 * low, w * (2 * two), 2 * one)
      /\ (2 * low) \div Scale = (2 * (low \div Scale)) + ((w \div rest) % 2)
      /\ (2 * low) % 65536 # 0

\* The word moved up one place, and its bit 15 - m gone into the offset.
GoesOn(low, w, m) ==
    /\ Holding(2 * low, w * Shl(2, m + 1), Shl(1, m + 1))
    /\ (2 * low) \div Scale = (2 * (low \div Scale)) + ((w \div Shl(1, 15 - m)) % 2)
    /\ (2 * low) % 65536 # 0

(* While the marker stays in the lower half, a shift by one moves the next *)
(* bit of the word into the offset, and the marker up by one.              *)
LEMMA NextBitOfWord ==
    ASSUME NEW low \in Nat, NEW w, TwoBytesWide(w), NEW m \in 0..14,
           Holding(low, w * Shl(2, m), Shl(1, m))
    PROVE  GoesOn(low, w, m)
<1>0. low \in Nat /\ w \in Nat /\ w < 65536
  BY DEF TwoBytesWide
<1>c0. ShiftsWord(low, w, 1, 2, 32768) BY ONLY <1>0 DEF ShiftsWord, Holding, Scale
<1>c1. ShiftsWord(low, w, 2, 4, 16384) BY ONLY <1>0 DEF ShiftsWord, Holding, Scale
<1>c2. ShiftsWord(low, w, 4, 8, 8192) BY ONLY <1>0 DEF ShiftsWord, Holding, Scale
<1>c3. ShiftsWord(low, w, 8, 16, 4096) BY ONLY <1>0 DEF ShiftsWord, Holding, Scale
<1>c4. ShiftsWord(low, w, 16, 32, 2048) BY ONLY <1>0 DEF ShiftsWord, Holding, Scale
<1>c5. ShiftsWord(low, w, 32, 64, 1024) BY ONLY <1>0 DEF ShiftsWord, Holding, Scale
<1>c6. ShiftsWord(low, w, 64, 128, 512) BY ONLY <1>0 DEF ShiftsWord, Holding, Scale
<1>c7. ShiftsWord(low, w, 128, 256, 256) BY ONLY <1>0 DEF ShiftsWord, Holding, Scale
<1>c8. ShiftsWord(low, w, 256, 512, 128) BY ONLY <1>0 DEF ShiftsWord, Holding, Scale
<1>c9. ShiftsWord(low, w, 512, 1024, 64) BY ONLY <1>0 DEF ShiftsWord, Holding, Scale
<1>c10. ShiftsWord(low, w, 1024, 2048, 32) BY ONLY <1>0 DEF ShiftsWord, Holding, Scale
<1>c11. ShiftsWord(low, w, 2048, 4096, 16) BY ONLY <1>0 DEF ShiftsWord, Holding, Scale
<1>c12. ShiftsWord(low, w, 4096, 8192, 8) BY ONLY <1>0 DEF ShiftsWord, Holding, Scale
<1>c13. ShiftsWord(low, w, 8192, 16384, 4) BY ONLY <1>0 DEF ShiftsWord, Holding, Scale
<1>c14. ShiftsWord(low, w, 16384, 32768, 2) BY ONLY <1>0 DEF ShiftsWord, Holding, Scale
<1>1. ShiftsWord(low, w, Shl(1, m), Shl(2, m), Shl(1, 15 - m))
  <2>1. m \in 0..15 /\ m # 15
    OBVIOUS
  <2> QED BY ONLY <2>1, Places, <1>c0, <1>c1, <1>c2, <1>c3, <1>c4, <1>c5, <1>c6, <1>c7,
             <1>c8, <1>c9, <1>c10, <1>c11, <1>c12, <1>c13, <1>c14
<1>2. Shl(1, m + 1) = 2 * Shl(1, m) /\ Shl(2, m + 1) = 2 * Shl(2, m)
  <2>1. m \in 0..15 /\ m + 1 \in 0..15
    OBVIOUS
  <2> QED BY <2>1 DEF Shl, Pow
<1> QED BY <1>1, <1>2 DEF ShiftsWord, GoesOn


(* When it leaves the lower half the last bit of the word goes into the    *)
(* offset, and the next word takes the place of the marker.                *)
LEMMA LastBitOfWord ==
    ASSUME NEW low \in Nat, NEW w \in Nat, w < 65536, NEW next \in Nat, next < 65536,
           Holding(low, w * Shl(2, 15), Shl(1, 15))
    PROVE  /\ (2 * low) % 65536 = 0
           /\ (2 * low) + (2 * next) - 65535 \in Nat
           /\ Holding((2 * low) + (2 * next) - 65535, next * Shl(2, 0), Shl(1, 0))
           /\ ((2 * low) + (2 * next) - 65535) \div Scale = (2 * (low \div Scale)) + (w % 2)
<1>1. Shl(2, 15) = 65536 /\ Shl(1, 15) = 32768 /\ Shl(2, 0) = 2 /\ Shl(1, 0) = 1
  BY DEF Shl, Pow
<1>a. w * Shl(2, 15) = w * 65536
  BY ONLY <1>1
<1>2. low % 131072 = ((w * 65536) % 131072) + 32768
  BY <1>1, <1>a DEF Scale, Holding
<1>3. /\ (2 * low) % 65536 = 0
      /\ (2 * low) + (2 * next) - 65535 \in Nat
      /\ ((2 * low) + (2 * next) - 65535) % 131072 = ((next * 2) % 131072) + 1
      /\ ((2 * low) + (2 * next) - 65535) \div 131072 = (2 * (low \div 131072)) + (w % 2)
  BY ONLY <1>2, low \in Nat, w \in Nat, w < 65536, next \in Nat, next < 65536
<1>4. next * Shl(2, 0) = next * 2
  BY ONLY <1>1
<1> QED BY ONLY <1>1, <1>3, <1>4 DEF Scale, Holding

\* r is what the register <<low, p>> with its marker at m becomes when its
\* next k bits are taken into the offset.
Takes(k, low, p, m, r) ==
    /\ r.low \in Nat /\ r.pos \in Nat /\ r.pos >= 2
    /\ r.low \div Scale = Shl(low \div Scale, k) + Arithmetic!ReadBits(Unused(p, m), k)
    /\ \E n \in 0..15 : Holds(r.low, r.pos, n) /\ Unused(r.pos, n) = Unused(p, m) + k

\* A register between two bins, the marker at the place m.
Holder(low, p, m) ==
    /\ low \in Nat /\ p \in Nat /\ p >= 2 /\ m \in 0..15
    /\ Holds(low, p, m)

\* r is that register when its next bit has gone into the offset.
TakesOne(low, p, m, g, r) ==
    /\ r.low \in Nat /\ r.pos \in Nat /\ r.pos >= 2 /\ r.range = g
    /\ r.low \div Scale = (2 * (low \div Scale)) + Arithmetic!Bit(Unused(p, m))
    /\ \E n \in 0..15 : Holds(r.low, r.pos, n) /\ Unused(r.pos, n) = Unused(p, m) + 1

(* A shift by one and its refill take one bit.                             *)
LEMMA OneBitTaken ==
    ASSUME data \in Seq(0..255), NEW low, NEW p, NEW m, Holder(low, p, m), NEW g
    PROVE  TakesOne(low, p, m, g, Refill(Register(2 * low, g, p)))
<1> DEFINE r == Refill(Register(2 * low, g, p))
<1>1. /\ low \in Nat /\ p \in Nat /\ p >= 2 /\ m \in 0..15
      /\ Holding(low, Word(p) * Shl(2, m), Shl(1, m))
  BY DEF Holder, Holds
<1>2. TwoBytesWide(Word(p))
  BY <1>1, WordFits
<1>3. r = IF (2 * low) % 65536 = 0 THEN Register((2 * low) + Fetched(p), g, p + 2)
          ELSE Register(2 * low, g, p)
  BY DEF Refill, Register, CABAC_MASK
<1>b. Arithmetic!Bit(Unused(p, m)) = (Word(p) \div Shl(1, 15 - m)) % 2
  BY <1>1, BitOfWord
<1>4. CASE m \in 0..14
  <2>1. /\ Holding(2 * low, Word(p) * Shl(2, m + 1), Shl(1, m + 1))
        /\ (2 * low) \div Scale = (2 * (low \div Scale)) + ((Word(p) \div Shl(1, 15 - m)) % 2)
        /\ (2 * low) % 65536 # 0
    <3>1. GoesOn(low, Word(p), m)
      BY <1>1, <1>2, <1>4, NextBitOfWord, Zenon
    <3> QED BY ONLY <3>1 DEF GoesOn
  <2>2. r.low = 2 * low /\ r.pos = p /\ r.range = g
    BY <1>3, <2>1 DEF Register
  <2>3. Holds(r.low, r.pos, m + 1)
    BY <2>1, <2>2 DEF Holds
  <2>4. m + 1 \in 0..15 /\ Unused(p, m + 1) = Unused(p, m) + 1
    BY <1>1, <1>4 DEF Unused
  <2>5. r.low \in Nat
    BY <1>1, <2>2
  <2> HIDE DEF r
  <2>6. r.low \div Scale = (2 * (low \div Scale)) + Arithmetic!Bit(Unused(p, m))
    BY ONLY <1>b, <2>1, <2>2
  <2>7. Unused(r.pos, m + 1) = Unused(p, m) + 1
    BY ONLY <2>2, <2>4
  <2>8. TakesOne(low, p, m, g, r)
    BY ONLY <1>1, <2>2, <2>3, <2>4, <2>5, <2>6, <2>7 DEF TakesOne
  <2> QED BY <2>8 DEF r
<1>5. CASE m = 15
  <2> DEFINE next == Word(p + 2)
  <2>1. next \in Nat /\ next < 65536
    <3>1. p + 2 \in Nat /\ p + 2 >= 2
      BY ONLY <1>1
    <3>2. TwoBytesWide(next)
      BY <3>1, WordFits
    <3> QED BY ONLY <3>2 DEF TwoBytesWide
  <2>2. Fetched(p) = (2 * next) - 65535
    <3>1. (p + 2) - 2 = p /\ (p + 2) - 1 = p + 1
      BY <1>1
    <3>2. next = (256 * ByteAt(p)) + ByteAt(p + 1)
      BY <3>1 DEF Word
    <3>3. ByteAt(p) \in 0..255 /\ ByteAt(p + 1) \in 0..255
      <4>1. p + 1 \in Nat
        BY <1>1
      <4> QED BY <1>1, <4>1, ByteRange
    <3>4. Fetched(p) = (ByteAt(p) * 512) + (ByteAt(p + 1) * 2) - 65535
      BY DEF Fetched, CABAC_MASK
    <3>5. PICK x : x = ByteAt(p)
      OBVIOUS
    <3>6. PICK y : y = ByteAt(p + 1)
      OBVIOUS
    <3> HIDE DEF next
    <3>7. x \in Nat /\ y \in Nat
      BY ONLY <3>3, <3>5, <3>6
    <3>8. next = (256 * x) + y /\ Fetched(p) = (x * 512) + (y * 2) - 65535
      BY ONLY <3>2, <3>4, <3>5, <3>6
    <3> QED BY ONLY <3>7, <3>8
  <2> HIDE DEF next
  <2>3. Holding(low, Word(p) * Shl(2, 15), Shl(1, 15))
    BY <1>1, <1>5
  <2> DEFINE new == (2 * low) + (2 * next) - 65535
  <2>4. /\ (2 * low) % 65536 = 0
        /\ new \in Nat
        /\ Holding(new, next * Shl(2, 0), Shl(1, 0))
        /\ new \div Scale = (2 * (low \div Scale)) + (Word(p) % 2)
    <3>1. PICK w : w = Word(p)
      OBVIOUS
    <3>2. /\ low \in Nat /\ w \in Nat /\ w < 65536 /\ next \in Nat /\ next < 65536
          /\ Holding(low, w * Shl(2, 15), Shl(1, 15))
      BY <1>1, <1>2, <2>1, <2>3, <3>1 DEF TwoBytesWide
    <3>3. /\ (2 * low) % 65536 = 0
          /\ (2 * low) + (2 * next) - 65535 \in Nat
          /\ Holding((2 * low) + (2 * next) - 65535, next * Shl(2, 0), Shl(1, 0))
          /\ ((2 * low) + (2 * next) - 65535) \div Scale = (2 * (low \div Scale)) + (w % 2)
      BY ONLY <3>2, LastBitOfWord
    <3> QED BY ONLY <3>1, <3>3
  <2>5. r.low = new /\ r.pos = p + 2 /\ r.range = g
    <3>1. (2 * low) + Fetched(p) = new
      BY <1>1, <2>1, <2>2
    <3> QED BY <1>3, <2>4, <3>1 DEF Register
  <2> HIDE DEF new, r
  <2>6. Holds(r.low, r.pos, 0)
    BY <2>4, <2>5 DEF Holds, next
  <2>7. 0 \in 0..15 /\ Unused(p + 2, 0) = Unused(p, m) + 1 /\ p + 2 \in Nat /\ p + 2 >= 2
    BY <1>1, <1>5 DEF Unused
  <2>8. (Word(p) \div Shl(1, 15 - m)) % 2 = Word(p) % 2
    <3>1. Shl(1, 15 - m) = 1
      BY <1>5 DEF Shl, Pow
    <3> QED BY ONLY <1>2, <3>1 DEF TwoBytesWide
  <2>9. r.low \div Scale = (2 * (low \div Scale)) + Arithmetic!Bit(Unused(p, m))
    BY ONLY <1>b, <2>4, <2>5, <2>8
  <2>10. Unused(r.pos, 0) = Unused(p, m) + 1 /\ r.low \in Nat
    BY ONLY <2>4, <2>5, <2>7
  <2>11. TakesOne(low, p, m, g, r)
    BY ONLY <2>5, <2>6, <2>7, <2>9, <2>10 DEF TakesOne
  <2> QED BY <2>11 DEF r
<1> QED BY <1>1, <1>4, <1>5

(* The bits between the marker and bit 16 have moved above bit 16.         *)
LEMMA MarkerAbove ==
    ASSUME NEW low \in Nat, low % 65536 # 0, NEW k \in 0..7, Shl(low, k) % 65536 = 0
    PROVE  (Shl(low, k) \div 65536) % 128 # 0
<1>1. \/ k = 0 \/ k = 1 \/ k = 2 \/ k = 3 \/ k = 4 \/ k = 5 \/ k = 6 \/ k = 7
  OBVIOUS
<1>2. PICK wide : wide = Shl(low, k)
  OBVIOUS
<1>3. wide % 65536 = 0
  BY <1>2
<1>4. /\ k = 0 => wide = low
      /\ k = 1 => wide = 2 * low
      /\ k = 2 => wide = 4 * low
      /\ k = 3 => wide = 8 * low
      /\ k = 4 => wide = 16 * low
      /\ k = 5 => wide = 32 * low
      /\ k = 6 => wide = 64 * low
      /\ k = 7 => wide = 128 * low
  BY ONLY <1>2, low \in Nat, k \in 0..7, ShlCases
<1>5. low \in Nat /\ low % 65536 # 0
  OBVIOUS
<1>6. (wide \div 65536) % 128 # 0
  <2>1. CASE k = 0 BY ONLY <1>3, <1>4, <1>5, <2>1
  <2>2. CASE k = 1 BY ONLY <1>3, <1>4, <1>5, <2>2
  <2>3. CASE k = 2 BY ONLY <1>3, <1>4, <1>5, <2>3
  <2>4. CASE k = 3 BY ONLY <1>3, <1>4, <1>5, <2>4
  <2>5. CASE k = 4 BY ONLY <1>3, <1>4, <1>5, <2>5
  <2>6. CASE k = 5 BY ONLY <1>3, <1>4, <1>5, <2>6
  <2>7. CASE k = 6 BY ONLY <1>3, <1>4, <1>5, <2>7
  <2>8. CASE k = 7 BY ONLY <1>3, <1>4, <1>5, <2>8
  <2> QED BY <1>1, <2>1, <2>2, <2>3, <2>4, <2>5, <2>6, <2>7, <2>8
<1> QED BY <1>2, <1>6

(* Shifted once more, the lowest one bit lies one place further up.        *)
LEMMA LowestMovesUp ==
    ASSUME NEW above \in Nat, NEW i \in 0..7, LowestOne(above, i),
           NEW j \in 0..7, LowestOne(2 * above, j)
    PROVE  j = i + 1
<1>1. \/ i = 0 /\ above % 2 = 1
      \/ i = 1 /\ above % 4 = 2
      \/ i = 2 /\ above % 8 = 4
      \/ i = 3 /\ above % 16 = 8
      \/ i = 4 /\ above % 32 = 16
      \/ i = 5 /\ above % 64 = 32
      \/ i = 6 /\ above % 128 = 64
      \/ i = 7 /\ above % 256 = 128
  BY DEF LowestOne, Shl, Pow
<1>t. PICK twice : twice = 2 * above
  OBVIOUS
<1>2. \/ j = 0 /\ twice % 2 = 1
      \/ j = 1 /\ twice % 4 = 2
      \/ j = 2 /\ twice % 8 = 4
      \/ j = 3 /\ twice % 16 = 8
      \/ j = 4 /\ twice % 32 = 16
      \/ j = 5 /\ twice % 64 = 32
      \/ j = 6 /\ twice % 128 = 64
      \/ j = 7 /\ twice % 256 = 128
  <2>1. LowestOne(twice, j)
    BY <1>t
  <2>2. twice \in Nat
    BY ONLY <1>t, above \in Nat
  <2> QED BY ONLY <2>1, <2>2, j \in 0..7 DEF LowestOne, Shl, Pow
<1>3. CASE i = 0 /\ above % 2 = 1 BY ONLY <1>t, <1>2, <1>3, above \in Nat
<1>4. CASE i = 1 /\ above % 4 = 2 BY ONLY <1>t, <1>2, <1>4, above \in Nat
<1>5. CASE i = 2 /\ above % 8 = 4 BY ONLY <1>t, <1>2, <1>5, above \in Nat
<1>6. CASE i = 3 /\ above % 16 = 8 BY ONLY <1>t, <1>2, <1>6, above \in Nat
<1>7. CASE i = 4 /\ above % 32 = 16 BY ONLY <1>t, <1>2, <1>7, above \in Nat
<1>8. CASE i = 5 /\ above % 64 = 32 BY ONLY <1>t, <1>2, <1>8, above \in Nat
<1>9. CASE i = 6 /\ above % 128 = 64 BY ONLY <1>t, <1>2, <1>9, above \in Nat
<1>10. CASE i = 7 /\ above % 256 = 128 BY ONLY <1>t, <1>2, <1>10, above \in Nat
<1> QED BY <1>1, <1>3, <1>4, <1>5, <1>6, <1>7, <1>8, <1>9, <1>10

\* f moved up i places, in the lower half.
AddsOdd(f, i) ==
    /\ Shl(f, i) \in Int
    /\ 2 * Shl(f, i) = Shl(f, i + 1)
    /\ (2 * Shl(f, i)) % 65536 # 0

(* The bytes that refill2 adds mark a place in the lower half, and doubled *)
(* they are what it would have added one shift later.                      *)
LEMMA AddedOdd ==
    ASSUME NEW f \in Int, f % 2 = 1, NEW i \in 0..6
    PROVE  AddsOdd(f, i)
<1>1. \/ i = 0 \/ i = 1 \/ i = 2 \/ i = 3 \/ i = 4 \/ i = 5 \/ i = 6
  OBVIOUS
<1>2. /\ Shl(f, 0) = f /\ Shl(f, 1) = 2 * f /\ Shl(f, 2) = 4 * f /\ Shl(f, 3) = 8 * f
      /\ Shl(f, 4) = 16 * f /\ Shl(f, 5) = 32 * f /\ Shl(f, 6) = 64 * f /\ Shl(f, 7) = 128 * f
  BY ShlValues
<1>3. f \in Int /\ f % 2 = 1
  OBVIOUS
<1>c0. CASE i = 0 BY ONLY <1>2, <1>3, <1>c0 DEF AddsOdd
<1>c1. CASE i = 1 BY ONLY <1>2, <1>3, <1>c1 DEF AddsOdd
<1>c2. CASE i = 2 BY ONLY <1>2, <1>3, <1>c2 DEF AddsOdd
<1>c3. CASE i = 3 BY ONLY <1>2, <1>3, <1>c3 DEF AddsOdd
<1>c4. CASE i = 4 BY ONLY <1>2, <1>3, <1>c4 DEF AddsOdd
<1>c5. CASE i = 5 BY ONLY <1>2, <1>3, <1>c5 DEF AddsOdd
<1>c6. CASE i = 6 BY ONLY <1>2, <1>3, <1>c6 DEF AddsOdd
<1> QED BY <1>1, <1>c0, <1>c1, <1>c2, <1>c3, <1>c4, <1>c5, <1>c6

(* Shifts by one add up (the shifts of cabac.rs:refill2).                  *)
LEMMA ShlNext ==
    ASSUME NEW n \in Nat, NEW k \in 0..6
    PROVE  Shl(n, k) \in Nat /\ Shl(n, k + 1) = 2 * Shl(n, k)
<1>1. \/ k = 0 \/ k = 1 \/ k = 2 \/ k = 3 \/ k = 4 \/ k = 5 \/ k = 6
  OBVIOUS
<1> QED BY <1>1, ShlValues

(* The lowest one bit of a register between two bins is its marker, so     *)
(* that refill has nothing to do (cabac.rs:CABAC_MASK).                    *)
LEMMA HolderIsMarked ==
    ASSUME data \in Seq(0..255), NEW low, NEW p, NEW m, Holder(low, p, m)
    PROVE  low \in Nat /\ MarkedAt(low, m) /\ low % 65536 # 0
<1>1. /\ low \in Nat /\ p \in Nat /\ p >= 2 /\ m \in 0..15
      /\ Holding(low, Word(p) * Shl(2, m), Shl(1, m))
  BY DEF Holder, Holds
<1>2. Word(p) \in Nat
  BY <1>1, WordFits DEF TwoBytesWide
<1>3. MarkedAt(low, m) /\ low % 65536 # 0
  <2>1. PICK w : w = Word(p)
    OBVIOUS
  <2> QED BY ONLY <1>1, <1>2, <2>1, HoldsIsMarked
<1> QED BY <1>1, <1>3

\* One more shift of the register f is the register shifted by k + 1.
ShiftsOn(low, p, k, h, f) ==
    Refill(Register(2 * f.low, h, f.pos)) = Refill2(Register(Shl(low, k + 1), h, p))

(* Shifting by k + 1 and refilling once is shifting by k, refilling, and   *)
(* shifting by one more with the simpler refill (cabac.rs:refill2).        *)
LEMMA OneMoreShift ==
    ASSUME data \in Seq(0..255), NEW low, NEW p, NEW m, Holder(low, p, m),
           NEW k \in 0..6, NEW g, NEW h,
           NEW f, f = Refill2(Register(Shl(low, k), g, p))
    PROVE  ShiftsOn(low, p, k, h, f)
<1>0. low \in Nat /\ low % 65536 # 0 /\ p \in Nat
  BY HolderIsMarked DEF Holder
<1>1. PICK wide : wide = Shl(low, k)
  OBVIOUS
<1>2. PICK two : two = Fetched(p)
  OBVIOUS
<1>3. wide \in Nat /\ Shl(low, k + 1) = 2 * wide /\ Shl(wide, 1) = 2 * wide
  <2>1. wide \in Nat /\ Shl(low, k + 1) = 2 * wide
    <3>1. Shl(low, k) \in Nat /\ Shl(low, k + 1) = 2 * Shl(low, k)
      <4>1. low \in Nat
        BY ONLY <1>0
      <4> QED BY ONLY <4>1, k \in 0..6, ShlNext
    <3> QED BY ONLY <1>1, <3>1
  <2> QED BY <2>1, ShlValues
<1>4. two \in Int /\ two % 2 = 1
  BY <1>0, <1>2, FetchedOdd DEF TwoBytes
<1>5. f = IF wide % 65536 = 0 THEN Register(wide + Shl(two, Ahead(wide)), g, p + 2)
          ELSE Register(wide, g, p)
  BY <1>1, <1>2 DEF Refill2, Register, CABAC_MASK
<1>6. CASE wide % 65536 # 0
  <2>1. f.low = wide /\ f.pos = p
    BY <1>5, <1>6 DEF Register
  <2>2. Refill(Register(Shl(wide, 1), h, p)) = Refill2(Register(Shl(wide, 1), h, p))
    <3>1. 1 \in 0..1
      OBVIOUS
    <3> QED BY <1>0, <1>3, <1>6, <3>1, RefillIsRefill2
  <2> QED BY <1>3, <2>1, <2>2 DEF ShiftsOn
<1>7. CASE wide % 65536 = 0
  <2> DEFINE i == Ahead(wide)
             j == Ahead(2 * wide)
             a == wide \div 65536
  <2>1. i \in 0..7 /\ LowestOne(a, i)
    <3>1. k \in 0..7
      OBVIOUS
    <3>2. (wide \div 65536) % 128 # 0
      <4>1. Shl(low, k) % 65536 = 0
        BY ONLY <1>1, <1>7
      <4>2. (Shl(low, k) \div 65536) % 128 # 0
        BY ONLY <1>0, <3>1, <4>1, MarkerAbove
      <4> QED BY ONLY <1>1, <4>2
    <3> QED BY <1>3, <3>2, AheadFound
  <2>2. (2 * wide) % 65536 = 0 /\ (2 * wide) \div 65536 = 2 * a /\ a \in Nat
    BY ONLY <1>3, <1>7
  <2>3. j \in 0..7 /\ LowestOne(2 * a, j)
    <3>1. k + 1 \in 0..7
      OBVIOUS
    <3>2. ((2 * wide) \div 65536) % 128 # 0
      <4>1. Shl(low, k + 1) % 65536 = 0
        BY ONLY <1>3, <2>2
      <4>2. (Shl(low, k + 1) \div 65536) % 128 # 0
        BY ONLY <1>0, <3>1, <4>1, MarkerAbove
      <4> QED BY ONLY <1>3, <4>2
    <3>3. 2 * wide \in Nat
      BY ONLY <1>3
    <3> QED BY <2>2, <3>2, <3>3, AheadFound
  <2> HIDE DEF i, j, a
  <2>4. j = i + 1 /\ i \in 0..6
    <3>1. j = i + 1
      BY ONLY <2>1, <2>2, <2>3, LowestMovesUp
    <3> QED BY ONLY <2>1, <2>3, <3>1
  <2>5. /\ Shl(two, i) \in Int /\ 2 * Shl(two, i) = Shl(two, i + 1)
        /\ (2 * Shl(two, i)) % 65536 # 0
    <3>1. AddsOdd(two, i)
      BY ONLY <1>4, <2>4, AddedOdd, Zenon
    <3> QED BY ONLY <3>1 DEF AddsOdd
  <2>6. f.low = wide + Shl(two, i) /\ f.pos = p + 2
    BY <1>5, <1>7 DEF Register, i
  <2>7. 2 * f.low = (2 * wide) + Shl(two, i + 1) /\ (2 * f.low) % 65536 # 0
    <3>1. PICK x : x = Shl(two, i)
      OBVIOUS
    <3>2. PICK y : y = Shl(two, i + 1)
      OBVIOUS
    <3>3. x \in Int /\ y = 2 * x /\ (2 * x) % 65536 # 0 /\ f.low = wide + x
      BY ONLY <2>5, <2>6, <3>1, <3>2
    <3>4. 2 * (wide + x) = (2 * wide) + y /\ (2 * (wide + x)) % 65536 # 0
      BY ONLY <1>3, <2>2, <3>3
    <3> QED BY ONLY <3>2, <3>3, <3>4
  <2>8. Refill(Register(2 * f.low, h, f.pos)) = Register(2 * f.low, h, f.pos)
    BY <2>7 DEF Refill, Register, CABAC_MASK
  <2>9. Refill2(Register(2 * wide, h, p)) = Register((2 * wide) + Shl(two, j), h, p + 2)
    BY <1>2, <2>2 DEF Refill2, Register, CABAC_MASK, j
  <2> QED BY ONLY <1>3, <2>4, <2>6, <2>7, <2>8, <2>9 DEF ShiftsOn
<1> QED BY <1>6, <1>7

(* A bit of the data, or of the zeros behind it, is a number.              *)
LEMMA BitIsNumber ==
    ASSUME data \in Seq(0..255), NEW at \in Nat
    PROVE  Arithmetic!Bit(at) \in Nat
<1> DEFINE half == 2 ^ (7 - (at % 8))
           k == at \div 8
<1>1. half \in Nat /\ half > 0
  <2>1. PICK j : j = at % 8
    OBVIOUS
  <2>2. j \in 0..7
    BY ONLY <2>1, at \in Nat
  <2>3. HalfOf(j, half)
    <3>1. HalfOf(j, 2 ^ (7 - j))
      BY <2>2, Halves
    <3> QED BY ONLY <2>1, <3>1
  <2> HIDE DEF half
  <2> QED BY ONLY <2>3 DEF HalfOf
<1>2. Arithmetic!Bit(at) = IF k < Len(data) THEN (data[k + 1] \div half) % 2 ELSE 0
  BY DEF Arithmetic!Bit
<1>3. k \in Nat
  OBVIOUS
<1> HIDE DEF half, k
<1>4. ASSUME k < Len(data) PROVE (data[k + 1] \div half) % 2 \in Nat
  <2>1. k + 1 \in 1..Len(data)
    BY <1>3, <1>4
  <2>2. data[k + 1] \in 0..255
    BY <2>1, ElementOfSeq
  <2>3. PICK x : x = data[k + 1]
    OBVIOUS
  <2>4. x \in Nat
    BY ONLY <2>2, <2>3
  <2>5. (x \div half) % 2 \in Nat
    BY ONLY <1>1, <2>4
  <2> QED BY ONLY <2>3, <2>5
<1> QED BY ONLY <1>2, <1>4

(* So is what is read of it.                                               *)
LEMMA BitsAreNumbers ==
    ASSUME data \in Seq(0..255), NEW at \in Nat
    PROVE  \A n \in 0..9 : Arithmetic!ReadBits(at, n) \in Nat
<1> DEFINE Num(n) == Arithmetic!ReadBits(at, n) \in Nat
<1>0. Num(0)
  <2>1. Arithmetic!ReadBits(at, 0) = 0
    BY BitByBit
  <2> QED BY ONLY <2>1
<1>s. ASSUME NEW n \in 0..8, Num(n) PROVE Num(n + 1)
  <2>1. Arithmetic!Bit(at + n) \in Nat
    BY BitIsNumber
  <2>2. Arithmetic!ReadBits(at, n + 1) = (2 * Arithmetic!ReadBits(at, n)) + Arithmetic!Bit(at + n)
    BY BitByBit
  <2> QED BY <1>s, <2>1, <2>2
<1> HIDE DEF Num
<1>1. Num(1) BY <1>0, <1>s
<1>2. Num(2) BY <1>1, <1>s
<1>3. Num(3) BY <1>2, <1>s
<1>4. Num(4) BY <1>3, <1>s
<1>5. Num(5) BY <1>4, <1>s
<1>6. Num(6) BY <1>5, <1>s
<1>7. Num(7) BY <1>6, <1>s
<1>8. Num(8) BY <1>7, <1>s
<1>9. Num(9) BY <1>8, <1>s
<1>10. \A n \in 0..9 : Num(n)
  BY <1>0, <1>1, <1>2, <1>3, <1>4, <1>5, <1>6, <1>7, <1>8, <1>9
<1> QED BY <1>10 DEF Num

(* A shift by one more, and its refill, take one bit more                  *)
(* (cabac.rs:refill2).                                                     *)
LEMMA TakesMore ==
    ASSUME data \in Seq(0..255), NEW low, NEW p, NEW m, Holder(low, p, m),
           NEW k \in 0..6, NEW g, Takes(k, low, p, m, Refill2(Register(Shl(low, k), g, p)))
    PROVE  Takes(k + 1, low, p, m, Refill2(Register(Shl(low, k + 1), g, p)))
<1>1. PICK f : f = Refill2(Register(Shl(low, k), g, p))
  OBVIOUS
<1>2. PICK r : r = Refill(Register(2 * f.low, g, f.pos))
  OBVIOUS
<1>3. r = Refill2(Register(Shl(low, k + 1), g, p))
  <2>1. ShiftsOn(low, p, k, g, f)
    BY <1>1, OneMoreShift, Zenon
  <2> QED BY ONLY <1>2, <2>1 DEF ShiftsOn
<1>4. /\ f.low \in Nat /\ f.pos \in Nat /\ f.pos >= 2
      /\ f.low \div Scale = Shl(low \div Scale, k) + Arithmetic!ReadBits(Unused(p, m), k)
      /\ \E n \in 0..15 : Holds(f.low, f.pos, n) /\ Unused(f.pos, n) = Unused(p, m) + k
  BY <1>1 DEF Takes
<1>5. PICK n \in 0..15 : Holds(f.low, f.pos, n) /\ Unused(f.pos, n) = Unused(p, m) + k
  BY <1>4
<1>6. TakesOne(f.low, f.pos, n, g, r)
  <2>1. Holder(f.low, f.pos, n)
    BY <1>4, <1>5 DEF Holder
  <2> QED BY <1>2, <2>1, OneBitTaken
<1>7. /\ r.low \in Nat /\ r.pos \in Nat /\ r.pos >= 2
      /\ r.low \div Scale = (2 * (f.low \div Scale)) + Arithmetic!Bit(Unused(f.pos, n))
  BY <1>6 DEF TakesOne
<1>8. PICK o \in 0..15 : Holds(r.low, r.pos, o) /\ Unused(r.pos, o) = Unused(f.pos, n) + 1
  BY <1>6 DEF TakesOne
<1>9. Unused(p, m) \in Nat /\ low \div Scale \in Nat
  BY DEF Holder, Unused, Scale
<1>10. Unused(r.pos, o) = Unused(p, m) + (k + 1)
  BY ONLY <1>5, <1>8, <1>9, k \in 0..6
<1>11. r.low \div Scale = Shl(low \div Scale, k + 1) + Arithmetic!ReadBits(Unused(p, m), k + 1)
  <2>1. Shl(low \div Scale, k) \in Nat /\ Shl(low \div Scale, k + 1) = 2 * Shl(low \div Scale, k)
    BY ONLY <1>9, k \in 0..6, ShlNext
  <2>2. Arithmetic!ReadBits(Unused(p, m), k + 1) =
          (2 * Arithmetic!ReadBits(Unused(p, m), k)) + Arithmetic!Bit(Unused(p, m) + k)
    <3>1. k \in 0..8
      OBVIOUS
    <3> QED BY <1>9, <3>1, BitByBit
  <2>3. PICK q : q = Shl(low \div Scale, k)
    OBVIOUS
  <2>4. PICK bits : bits = Arithmetic!ReadBits(Unused(p, m), k)
    OBVIOUS
  <2>5. PICK bit : bit = Arithmetic!Bit(Unused(p, m) + k)
    OBVIOUS
  <2>6. f.low \div Scale = q + bits /\ r.low \div Scale = (2 * (q + bits)) + bit
    BY ONLY <1>4, <1>5, <1>7, <2>3, <2>4, <2>5
  <2>7. q \in Nat /\ bits \in Int /\ bit \in Int
    <3>1. k \in 0..9 /\ Unused(p, m) + k \in Nat
      BY ONLY <1>9, k \in 0..6
    <3>2. Arithmetic!ReadBits(Unused(p, m), k) \in Nat
      BY <1>9, <3>1, BitsAreNumbers
    <3>3. Arithmetic!Bit(Unused(p, m) + k) \in Nat
      BY <3>1, BitIsNumber
    <3> QED BY ONLY <2>1, <2>3, <2>4, <2>5, <3>2, <3>3
  <2>8. r.low \div Scale = (2 * q) + ((2 * bits) + bit)
    BY ONLY <2>6, <2>7
  <2> QED BY ONLY <2>1, <2>2, <2>3, <2>4, <2>5, <2>8
<1> QED BY ONLY <1>3, <1>7, <1>8, <1>10, <1>11 DEF Takes

(* A shift by k and its refill take k bits, one after the other.           *)
LEMMA BitsTaken ==
    ASSUME data \in Seq(0..255), NEW low, NEW p, NEW m, Holder(low, p, m), NEW g
    PROVE  \A k \in 0..7 : Takes(k, low, p, m, Refill2(Register(Shl(low, k), g, p)))
<1> DEFINE T(k) == Takes(k, low, p, m, Refill2(Register(Shl(low, k), g, p)))
<1>0. T(0)
  <2>1. low \in Nat /\ p \in Nat /\ p >= 2 /\ m \in 0..15 /\ Holds(low, p, m)
    BY DEF Holder
  <2>2. low % 65536 # 0
    BY HolderIsMarked
  <2>3. Shl(low, 0) = low /\ Shl(low \div Scale, 0) = low \div Scale
    <3>1. low \div Scale \in Nat
      BY <2>1 DEF Scale
    <3> QED BY <2>1, <3>1, ShlValues
  <2>4. PICK r : r = Refill2(Register(Shl(low, 0), g, p))
    OBVIOUS
  <2>5. r.low = low /\ r.pos = p
    BY <2>2, <2>3, <2>4 DEF Refill2, Register, CABAC_MASK
  <2>6. Unused(p, m) \in Nat
    BY <2>1 DEF Unused
  <2>7. Arithmetic!ReadBits(Unused(p, m), 0) = 0
    BY <2>6, BitByBit
  <2>8. r.low \div Scale = Shl(low \div Scale, 0) + Arithmetic!ReadBits(Unused(p, m), 0)
    <3>1. low \div Scale \in Nat
      BY <2>1 DEF Scale
    <3> QED BY ONLY <2>3, <2>5, <2>7, <3>1
  <2>9. Unused(r.pos, m) = Unused(p, m) + 0
    BY ONLY <2>5, <2>6
  <2>10. Takes(0, low, p, m, r)
    BY ONLY <2>1, <2>5, <2>8, <2>9 DEF Takes
  <2> QED BY ONLY <2>4, <2>10
<1>s. ASSUME NEW k \in 0..6, T(k) PROVE T(k + 1)
  BY <1>s, TakesMore, Zenon
<1> HIDE DEF T
<1>1. T(1) BY <1>0, <1>s
<1>2. T(2) BY <1>1, <1>s
<1>3. T(3) BY <1>2, <1>s
<1>4. T(4) BY <1>3, <1>s
<1>5. T(5) BY <1>4, <1>s
<1>6. T(6) BY <1>5, <1>s
<1>7. T(7) BY <1>6, <1>s
<1>8. \A k \in 0..7 : T(k)
  BY <1>0, <1>1, <1>2, <1>3, <1>4, <1>5, <1>6, <1>7
<1> QED BY <1>8 DEF T

-----------------------------------------------------------------------------
(* What the register stands for.                                           *)

\* The register e stands for the range r and the offset o, and the next bit
\* to be read is the one at the place a.
Stands(e, r, o, a) ==
    /\ e.range = r
    /\ e.low \div Scale = o
    /\ \E m \in 0..15 : Holder(e.low, e.pos, m) /\ Unused(e.pos, m) = a

(* The marker says how many bits have been read (cabac.rs:pcm_byte_position *)
(* and the shift in refill2 rely on it).                                    *)
LEMMA MarkerOfHolder ==
    ASSUME data \in Seq(0..255), NEW low, NEW p, NEW m, Holder(low, p, m)
    PROVE  Marker(low) = m
<1>1. low \in Nat /\ MarkedAt(low, m) /\ m \in 0..15
  BY HolderIsMarked DEF Holder
<1>2. \A n \in 0..15 : MarkedAt(low, n) => n = m
  BY <1>1, OneMarker
<1> QED BY ONLY <1>1, <1>2 DEF Marker

(* What pcm_byte_position goes by, the marker, counts the bits read.       *)
LEMMA StandsRead ==
    ASSUME data \in Seq(0..255), NEW r, NEW o, NEW a,
           engine # Stopped, Stands(engine, r, o, a)
    PROVE  BitsRead = a
<1>1. PICK m \in 0..15 : Holder(engine.low, engine.pos, m) /\ Unused(engine.pos, m) = a
  BY DEF Stands
<1>2. Marker(engine.low) = m
  BY <1>1, MarkerOfHolder
<1> QED BY <1>1, <1>2 DEF BitsRead, Unused

(* The same of the next state.                                             *)
LEMMA NextStandsRead ==
    ASSUME data \in Seq(0..255), NEW r, NEW o, NEW a,
           engine' # Stopped, Stands(engine', r, o, a)
    PROVE  BitsRead' = a
<1>1. PICK m \in 0..15 : Holder((engine').low, (engine').pos, m) /\ Unused((engine').pos, m) = a
  BY DEF Stands
<1>2. Marker((engine').low) = m
  BY <1>1, MarkerOfHolder
<1>3. BitsRead' = (8 * (engine').pos) - (16 - Marker((engine').low))
  BY DEF BitsRead, Stopped, Register
<1> QED BY <1>1, <1>2, <1>3 DEF Unused

(* A word taken apart bit by bit.                                           *)
LEMMA FirstBits ==
    ASSUME data \in Seq(0..255), NEW at \in Nat
    PROVE  Arithmetic!ReadBits(8 * at, 9) = Word(at + 2) \div 128
<1>1. PICK w : w = Word(at + 2)
  OBVIOUS
<1>2. w \in Nat /\ w < 65536
  <2>1. at + 2 \in Nat /\ at + 2 >= 2
    OBVIOUS
  <2> QED BY <1>1, <2>1, WordFits DEF TwoBytesWide
<1>3. ASSUME NEW n \in 0..8
      PROVE  Arithmetic!Bit((8 * at) + n) = (w \div Shl(1, 15 - n)) % 2
  <2>1. at + 2 \in Nat /\ at + 2 >= 2 /\ n \in 0..15
    OBVIOUS
  <2>2. Unused(at + 2, n) = (8 * at) + n
    BY DEF Unused
  <2> QED BY <1>1, <2>1, <2>2, BitOfWord
<1>4. /\ Shl(1, 15) = 32768 /\ Shl(1, 14) = 16384 /\ Shl(1, 13) = 8192 /\ Shl(1, 12) = 4096
      /\ Shl(1, 11) = 2048 /\ Shl(1, 10) = 1024 /\ Shl(1, 9) = 512 /\ Shl(1, 8) = 256
      /\ Shl(1, 7) = 128
  BY DEF Shl, Pow
<1> DEFINE R(n) == Arithmetic!ReadBits(8 * at, n)
           B(n) == Arithmetic!Bit((8 * at) + n)
<1>5. 8 * at \in Nat
  OBVIOUS
<1>6. R(0) = 0 /\ \A n \in 0..8 : R(n + 1) = (2 * R(n)) + B(n)
  BY <1>5, BitByBit
<1>7. \A n \in 0..8 : B(n) = (w \div Shl(1, 15 - n)) % 2
  BY <1>3
<1> HIDE DEF R, B
<1>8. /\ R(1) = (2 * R(0)) + B(0) /\ R(2) = (2 * R(1)) + B(1) /\ R(3) = (2 * R(2)) + B(2)
      /\ R(4) = (2 * R(3)) + B(3) /\ R(5) = (2 * R(4)) + B(4) /\ R(6) = (2 * R(5)) + B(5)
      /\ R(7) = (2 * R(6)) + B(6) /\ R(8) = (2 * R(7)) + B(7) /\ R(9) = (2 * R(8)) + B(8)
  <2>1. \A n \in 0..8 : R(n + 1) = (2 * R(n)) + B(n)
    BY ONLY <1>6
  <2> QED BY ONLY <2>1
<1>9. /\ B(0) = (w \div 32768) % 2 /\ B(1) = (w \div 16384) % 2 /\ B(2) = (w \div 8192) % 2
      /\ B(3) = (w \div 4096) % 2 /\ B(4) = (w \div 2048) % 2 /\ B(5) = (w \div 1024) % 2
      /\ B(6) = (w \div 512) % 2 /\ B(7) = (w \div 256) % 2 /\ B(8) = (w \div 128) % 2
  <2>1. /\ B(0) = (w \div Shl(1, 15)) % 2 /\ B(1) = (w \div Shl(1, 14)) % 2
        /\ B(2) = (w \div Shl(1, 13)) % 2 /\ B(3) = (w \div Shl(1, 12)) % 2
        /\ B(4) = (w \div Shl(1, 11)) % 2 /\ B(5) = (w \div Shl(1, 10)) % 2
        /\ B(6) = (w \div Shl(1, 9)) % 2 /\ B(7) = (w \div Shl(1, 8)) % 2
        /\ B(8) = (w \div Shl(1, 7)) % 2
    <3>1. 15 - 0 = 15 /\ 15 - 1 = 14 /\ 15 - 2 = 13 /\ 15 - 3 = 12 /\ 15 - 4 = 11
          /\ 15 - 5 = 10 /\ 15 - 6 = 9 /\ 15 - 7 = 8 /\ 15 - 8 = 7
      OBVIOUS
    <3> QED BY ONLY <1>7, <3>1
  <2> QED BY ONLY <1>4, <2>1
<1>10. R(1) = w \div 32768
  <2>1. (w \div 32768) % 2 = w \div 32768
    BY ONLY <1>2
  <2>2. R(1) = (2 * 0) + (w \div 32768)
    BY ONLY <1>6, <1>8, <1>9, <2>1
  <2> QED BY ONLY <1>2, <2>2
<1>11. R(2) = w \div 16384
  <2>1. (2 * (w \div 32768)) + ((w \div 16384) % 2) = w \div 16384
    BY ONLY <1>2
  <2> QED BY ONLY <1>8, <1>9, <1>10, <2>1
<1>12. R(3) = w \div 8192
  <2>1. (2 * (w \div 16384)) + ((w \div 8192) % 2) = w \div 8192
    BY ONLY <1>2
  <2> QED BY ONLY <1>8, <1>9, <1>11, <2>1
<1>13. R(4) = w \div 4096
  <2>1. (2 * (w \div 8192)) + ((w \div 4096) % 2) = w \div 4096
    BY ONLY <1>2
  <2> QED BY ONLY <1>8, <1>9, <1>12, <2>1
<1>14. R(5) = w \div 2048
  <2>1. (2 * (w \div 4096)) + ((w \div 2048) % 2) = w \div 2048
    BY ONLY <1>2
  <2> QED BY ONLY <1>8, <1>9, <1>13, <2>1
<1>15. R(6) = w \div 1024
  <2>1. (2 * (w \div 2048)) + ((w \div 1024) % 2) = w \div 1024
    BY ONLY <1>2
  <2> QED BY ONLY <1>8, <1>9, <1>14, <2>1
<1>16. R(7) = w \div 512
  <2>1. (2 * (w \div 1024)) + ((w \div 512) % 2) = w \div 512
    BY ONLY <1>2
  <2> QED BY ONLY <1>8, <1>9, <1>15, <2>1
<1>17. R(8) = w \div 256
  <2>1. (2 * (w \div 512)) + ((w \div 256) % 2) = w \div 256
    BY ONLY <1>2
  <2> QED BY ONLY <1>8, <1>9, <1>16, <2>1
<1>18. R(9) = w \div 128
  <2>1. (2 * (w \div 256)) + ((w \div 128) % 2) = w \div 128
    BY ONLY <1>2
  <2> QED BY ONLY <1>8, <1>9, <1>17, <2>1
<1> QED BY <1>1, <1>18 DEF R

(* The fresh register has read nine bits (cabac.rs:CabacReader::new).       *)
LEMMA FreshStands ==
    ASSUME data \in Seq(0..255), NEW at \in Nat
    PROVE  Stands(Fresh(at), 510, Arithmetic!ReadBits(8 * at, 9), (8 * at) + 9)
<1>1. PICK w : w = Word(at + 2)
  OBVIOUS
<1>2. w \in Nat /\ w < 65536
  <2>1. at + 2 \in Nat /\ at + 2 >= 2
    OBVIOUS
  <2> QED BY <1>1, <2>1, WordFits DEF TwoBytesWide
<1>3. /\ Fresh(at).range = 510 /\ Fresh(at).pos = at + 2
      /\ Fresh(at).low = (w * 1024) + 512
  <2>1. (at + 2) - 2 = at /\ (at + 2) - 1 = at + 1
    OBVIOUS
  <2>2. w = (256 * ByteAt(at)) + ByteAt(at + 1)
    BY <1>1, <2>1 DEF Word
  <2>3. ByteAt(at) \in 0..255 /\ ByteAt(at + 1) \in 0..255
    BY ByteRange
  <2>4. PICK x : x = ByteAt(at)
    OBVIOUS
  <2>5. PICK y : y = ByteAt(at + 1)
    OBVIOUS
  <2>6. x \in Nat /\ y \in Nat /\ w = (256 * x) + y
    BY ONLY <2>2, <2>3, <2>4, <2>5
  <2>7. (x * 262144) + (y * 1024) + 512 = (w * 1024) + 512
    BY ONLY <2>6
  <2> QED BY ONLY <2>4, <2>5, <2>7 DEF Fresh, Register
<1>4. PICK low : low = (w * 1024) + 512
  OBVIOUS
<1>5. /\ low \in Nat
      /\ low % 131072 = ((w * 1024) % 131072) + 512
      /\ low \div 131072 = w \div 128
  BY ONLY <1>2, <1>4
<1>6. Holds(low, at + 2, 9)
  <2>1. Shl(2, 9) = 1024 /\ Shl(1, 9) = 512
    BY DEF Shl, Pow
  <2>2. Holding(low, w * 1024, 512)
    BY ONLY <1>5 DEF Holding, Scale
  <2> QED BY ONLY <1>1, <2>1, <2>2 DEF Holds
<1>7. Holder(low, at + 2, 9) /\ Unused(at + 2, 9) = (8 * at) + 9 /\ 9 \in 0..15
  BY <1>5, <1>6 DEF Holder, Unused
<1>8. low \div Scale = Arithmetic!ReadBits(8 * at, 9)
  BY <1>1, <1>5, FirstBits DEF Scale
<1> QED BY ONLY <1>3, <1>4, <1>7, <1>8 DEF Stands

\* The range of a settled register, and what a decision may leave of it.
Width(r) == r \in 256..510
Part(r) == r \in 2..510

(* The shift after a decision takes as many bits as it makes room for       *)
(* (cabac.rs:refill2 after get_cabac).                                      *)
LEMMA RenormalisedStands ==
    ASSUME data \in Seq(0..255), NEW e, NEW r, Part(r), NEW o, NEW a, Stands(e, r, o, a)
    PROVE  Stands(Renormalised(e), Shl(r, NormShift(r)),
                  Shl(o, NormShift(r)) + Arithmetic!ReadBits(a, NormShift(r)), a + NormShift(r))
<1>1. PICK m \in 0..15 : Holder(e.low, e.pos, m) /\ Unused(e.pos, m) = a
  BY DEF Stands
<1>2. e.range = r /\ e.low \div Scale = o
  BY DEF Stands
<1>3. PICK k : k = NormShift(r)
  OBVIOUS
<1>4. k \in 0..7
  BY <1>3, NormShiftFits DEF Part
<1>5. PICK f : f = Refill2(Register(Shl(e.low, k), Shl(r, k), e.pos))
  OBVIOUS
<1>6. f = Renormalised(e)
  BY <1>2, <1>3, <1>5 DEF Renormalised, Shifted
<1>7. Takes(k, e.low, e.pos, m, f)
  BY <1>1, <1>4, <1>5, BitsTaken
<1>8. f.range = Shl(r, k)
  BY <1>5 DEF Refill2, Register
<1>9. /\ f.low \in Nat /\ f.pos \in Nat /\ f.pos >= 2
      /\ f.low \div Scale = Shl(o, k) + Arithmetic!ReadBits(a, k)
  BY <1>1, <1>2, <1>7 DEF Takes
<1>10. PICK n \in 0..15 : Holds(f.low, f.pos, n) /\ Unused(f.pos, n) = a + k
  BY <1>1, <1>7 DEF Takes
<1>11. Holder(f.low, f.pos, n)
  BY <1>9, <1>10 DEF Holder
<1>12. Stands(f, Shl(r, k), Shl(o, k) + Arithmetic!ReadBits(a, k), a + k)
  BY ONLY <1>8, <1>9, <1>10, <1>11 DEF Stands
<1> QED BY ONLY <1>3, <1>6, <1>12

(* Subtracting the lower part of the range leaves the bits below bit 17.    *)
LEMMA TakenStands ==
    ASSUME NEW e, NEW r, NEW o, NEW a, Stands(e, r, o, a), NEW rest \in Nat, o >= rest, NEW g
    PROVE  Stands(Register(e.low - (rest * Scale), g, e.pos), g, o - rest, a)
<1>1. PICK m \in 0..15 : Holder(e.low, e.pos, m) /\ Unused(e.pos, m) = a
  BY DEF Stands
<1>2. PICK low : low = e.low
  OBVIOUS
<1>3. low \in Nat /\ low \div 131072 = o
  BY <1>1, <1>2 DEF Holder, Stands, Scale
<1>4. PICK new : new = low - (rest * 131072)
  OBVIOUS
<1>5. new \in Nat /\ new % 131072 = low % 131072 /\ new \div 131072 = o - rest
  BY ONLY <1>3, <1>4, rest \in Nat, o >= rest
<1>6. Holder(new, e.pos, m)
  <2>1. new % Scale = low % Scale
    BY ONLY <1>5 DEF Scale
  <2> QED BY <1>1, <1>2, <1>5, <2>1 DEF Holder, Holds, Holding
<1>7. Register(e.low - (rest * Scale), g, e.pos) = Register(new, g, e.pos)
  BY <1>2, <1>4 DEF Scale
<1>8. Stands(Register(new, g, e.pos), g, o - rest, a)
  BY <1>1, <1>5, <1>6 DEF Stands, Register, Scale
<1> QED BY ONLY <1>7, <1>8

-----------------------------------------------------------------------------
(* The abstract decoder's operations.                                      *)

(* As many shifts as bring the range to 256 or more.                       *)
LEMMA LeastShift ==
    ASSUME NEW r \in 2..510
    PROVE  Arithmetic!Min({k \in 0..8 : r * (2 ^ k) >= 256}) = NormShift(r)
<1> DEFINE S == {k \in 0..8 : r * (2 ^ k) >= 256}
<1>1. PICK n : n = NormShift(r)
  OBVIOUS
<1>2. n \in 0..7
  BY <1>1, NormShiftFits
<1>3. \A k \in 0..8 : r * (2 ^ k) >= 256 <=> k >= n
  <2>1. /\ 2 ^ 0 = 1 /\ 2 ^ 1 = 2 /\ 2 ^ 2 = 4 /\ 2 ^ 3 = 8 /\ 2 ^ 4 = 16 /\ 2 ^ 5 = 32
        /\ 2 ^ 6 = 64 /\ 2 ^ 7 = 128 /\ 2 ^ 8 = 256
    OBVIOUS
  <2>2. n = IF r >= 256 THEN 0 ELSE IF r >= 128 THEN 1 ELSE IF r >= 64 THEN 2
            ELSE IF r >= 32 THEN 3 ELSE IF r >= 16 THEN 4 ELSE IF r >= 8 THEN 5
            ELSE IF r >= 4 THEN 6 ELSE 7
    BY <1>1 DEF NormShift
  <2> DEFINE Enough(k) == r * (2 ^ k) >= 256 <=> k >= n
  <2>3. Enough(0) BY <2>1, <2>2
  <2>4. Enough(1) BY <2>1, <2>2
  <2>5. Enough(2) BY <2>1, <2>2
  <2>6. Enough(3) BY <2>1, <2>2
  <2>7. Enough(4) BY <2>1, <2>2
  <2>8. Enough(5) BY <2>1, <2>2
  <2>9. Enough(6) BY <2>1, <2>2
  <2>10. Enough(7) BY <2>1, <2>2
  <2>11. Enough(8) BY <2>1, <2>2
  <2> HIDE DEF Enough
  <2>12. \A k \in 0..8 : Enough(k)
    BY <2>3, <2>4, <2>5, <2>6, <2>7, <2>8, <2>9, <2>10, <2>11
  <2> QED BY <2>12 DEF Enough
<1>4. n \in S /\ \A y \in S : n <= y
  <2>1. n \in 0..8 /\ n >= n
    BY <1>2
  <2>2. n \in S
    BY <1>3, <2>1
  <2>3. \A y \in S : y \in 0..8 /\ y >= n
    BY <1>3
  <2>4. \A y \in S : n <= y
    BY <1>2, <2>3
  <2> QED BY <2>2, <2>4
<1>5. \A x \in S : (\A y \in S : x <= y) => x = n
  <2>1. \A x \in S : x \in 0..8
    OBVIOUS
  <2> HIDE DEF S
  <2> QED BY <1>2, <1>4, <2>1
<1>6. Arithmetic!Min(S) = CHOOSE x \in S : \A y \in S : x <= y
  BY DEF Arithmetic!Min
<1> HIDE DEF S
<1>7. Arithmetic!Min(S) = n
  BY <1>4, <1>5, <1>6
<1> QED BY <1>1, <1>7 DEF S

(* The code's shifts are multiplications by powers of two.                 *)
LEMMA ShlIsPower ==
    ASSUME NEW n \in Nat, NEW k \in 0..7
    PROVE  n * (2 ^ k) = Shl(n, k)
<1>1. \/ k = 0 \/ k = 1 \/ k = 2 \/ k = 3 \/ k = 4 \/ k = 5 \/ k = 6 \/ k = 7
  OBVIOUS
<1>2. /\ 2 ^ 0 = 1 /\ 2 ^ 1 = 2 /\ 2 ^ 2 = 4 /\ 2 ^ 3 = 8 /\ 2 ^ 4 = 16 /\ 2 ^ 5 = 32
      /\ 2 ^ 6 = 64 /\ 2 ^ 7 = 128
  OBVIOUS
<1>3. CASE k = 0 BY <1>2, <1>3, ShlCases
<1>4. CASE k = 1 BY <1>2, <1>4, ShlCases
<1>5. CASE k = 2 BY <1>2, <1>5, ShlCases
<1>6. CASE k = 3 BY <1>2, <1>6, ShlCases
<1>7. CASE k = 4 BY <1>2, <1>7, ShlCases
<1>8. CASE k = 5 BY <1>2, <1>8, ShlCases
<1>9. CASE k = 6 BY <1>2, <1>9, ShlCases
<1>10. CASE k = 7 BY <1>2, <1>10, ShlCases
<1> QED BY <1>1, <1>3, <1>4, <1>5, <1>6, <1>7, <1>8, <1>9, <1>10

(* A register that has taken the bits a shift makes room for is what       *)
(* RenormD leaves.                                                         *)
LEMMA StandsForRenormD ==
    ASSUME data \in Seq(0..255), NEW r, Part(r), NEW o \in Nat, engine' # Stopped,
           NEW a, a = BitsRead,
           Stands(engine', Shl(r, NormShift(r)),
                  Shl(o, NormShift(r)) + Arithmetic!ReadBits(a, NormShift(r)), a + NormShift(r))
    PROVE  Arithmetic!RenormD(r, o)
<1>1. PICK k : k = NormShift(r)
  OBVIOUS
<1>2. k \in 0..7
  BY <1>1, NormShiftFits DEF Part
<1>3. Arithmetic!Min({i \in 0..8 : r * (2 ^ i) >= 256}) = k
  BY <1>1, LeastShift DEF Part
<1>4. r * (2 ^ k) = Shl(r, k) /\ o * (2 ^ k) = Shl(o, k)
  <2>1. r \in Nat
    BY DEF Part
  <2> QED BY <1>2, <2>1, ShlIsPower
<1>5. /\ (engine').range = Shl(r, k)
      /\ (engine').low \div Scale = Shl(o, k) + Arithmetic!ReadBits(a, k)
  BY <1>1 DEF Stands
<1>6. BitsRead' = a + k
  BY <1>1, NextStandsRead
<1>7. /\ (engine').range = r * (2 ^ k)
      /\ (engine').low \div Scale = (o * (2 ^ k)) + Arithmetic!ReadBits(BitsRead, k)
      /\ BitsRead' = BitsRead + k
  BY ONLY <1>4, <1>5, <1>6, a = BitsRead
<1>8. (engine.range)' = (engine').range /\ (engine.low \div Scale)' = (engine').low \div Scale
  BY DEF Scale
<1> QED BY <1>3, <1>7, <1>8 DEF Arithmetic!RenormD

-----------------------------------------------------------------------------
(* The probability states.                                                 *)

(* cabac.rs:MLPS_STATE against Table 9-45.                                 *)
LEMMA LpsTransition ==
    \A s \in 0..125 :
      /\ MlpsLps[s + 1] \in 0..125
      /\ MlpsLps[s + 1] \div 2 = transIdxLPS[(s \div 2) + 1]
      /\ MlpsLps[s + 1] % 2 = IF s \div 2 = 0 THEN 1 - (s % 2) ELSE s % 2
<1>1. \A s \in 0..125 : MlpsLps[s + 1] \in 0..125
  BY DEF MlpsLps
<1>2. \A s \in 0..125 : MlpsLps[s + 1] \div 2 = transIdxLPS[(s \div 2) + 1]
  BY DEF MlpsLps, transIdxLPS
<1>3. \A s \in 0..125 : MlpsLps[s + 1] % 2 = IF s \div 2 = 0 THEN 1 - (s % 2) ELSE s % 2
  BY DEF MlpsLps
<1> QED BY <1>1, <1>2, <1>3

(* state += 2 below 124 is the transition after a most probable symbol.    *)
LEMMA MpsTransition ==
    ASSUME NEW s \in 0..125
    PROVE  /\ NextMps(s) \in 0..125
           /\ NextMps(s) \div 2 = Arithmetic!Min({(s \div 2) + 1, 62})
           /\ NextMps(s) % 2 = s % 2
<1>1. PICK h : h = (s \div 2) + 1
  OBVIOUS
<1>2. h \in Nat
  BY <1>1
<1>3. Arithmetic!Min({h, 62}) = IF h < 62 THEN h ELSE 62
  <2>1. Arithmetic!Min({h, 62}) = CHOOSE x \in {h, 62} : \A y \in {h, 62} : x <= y
    BY DEF Arithmetic!Min
  <2> QED BY <1>2, <2>1
<1>4. NextMps(s) \div 2 = IF h < 62 THEN h ELSE 62
  BY <1>1 DEF NextMps
<1> QED BY <1>1, <1>3, <1>4 DEF NextMps

(* init_cabac_states against 9.3.1.1.                                      *)
LEMMA InitTransition ==
    ASSUME NEW c \in Contexts, NEW qp \in Qps
    PROVE  LET s == InitState(InitValues[c], qp)
               pre == Arithmetic!preCtxState(c, qp)
           IN  /\ s \in 0..125
               /\ s % 2 = IF pre <= 63 THEN 0 ELSE 1
               /\ s \div 2 = IF pre <= 63 THEN 63 - pre ELSE pre - 64
<1> DEFINE mn == InitValues[c]
<1>1. mn \in Int \X Int /\ qp \in Int
  BY InitValuesAssumption, QpsAssumption
<1>2. mn[1] \in Int /\ mn[2] \in Int
  BY <1>1
<1>3. PICK clip : clip = ClampQp(qp)
  OBVIOUS
<1>4. clip \in Int /\ clip = Arithmetic!Clip3(0, 51, qp)
  BY <1>1, <1>3 DEF ClampQp, Arithmetic!Clip3
<1>5. PICK slope : slope = mn[1] * clip
  OBVIOUS
<1>6. slope \in Int
  BY <1>2, <1>4, <1>5
<1>7. PICK t : t = (slope \div 16) + mn[2]
  OBVIOUS
<1>8. t \in Int
  BY <1>2, <1>6, <1>7
<1>9. Arithmetic!preCtxState(c, qp) = Arithmetic!Clip3(1, 126, t)
  BY <1>4, <1>5, <1>7 DEF Arithmetic!preCtxState
<1>10. InitState(mn, qp) = Capped(Folded((2 * t) - 127))
  BY <1>3, <1>5, <1>7 DEF InitState
<1>11. PICK s : s = Capped(Folded((2 * t) - 127))
  OBVIOUS
<1>12. PICK pre : pre = Arithmetic!Clip3(1, 126, t)
  OBVIOUS
<1>13. pre = IF t < 1 THEN 1 ELSE IF t > 126 THEN 126 ELSE t
  BY ONLY <1>12 DEF Arithmetic!Clip3
<1>14. s = IF t <= 63 THEN IF t < 1 THEN 124 ELSE 126 - (2 * t)
           ELSE IF t > 125 THEN 125 ELSE (2 * t) - 127
  <2>1. CASE t <= 63
    BY ONLY <1>8, <1>11, <2>1 DEF Capped, Folded
  <2>2. CASE ~(t <= 63)
    BY ONLY <1>8, <1>11, <2>2 DEF Capped, Folded
  <2> QED BY <2>1, <2>2
<1>15. /\ s \in 0..125
       /\ s % 2 = IF pre <= 63 THEN 0 ELSE 1
       /\ s \div 2 = IF pre <= 63 THEN 63 - pre ELSE pre - 64
  BY ONLY <1>8, <1>13, <1>14
<1> QED BY <1>9, <1>10, <1>11, <1>12, <1>15

-----------------------------------------------------------------------------
(* The comparisons.                                                        *)

\* The register e serves the invariant: in range, and marked.
Marked(e) == \E m \in 0..15 : Holder(e.low, e.pos, m)

(* Because of the marker the offset above bit 17 alone decides.            *)
LEMMA OffsetDecides ==
    ASSUME NEW l \in Nat, l % 65536 # 0, NEW rest \in Nat
    PROVE  /\ l > rest * Scale <=> l \div Scale >= rest
           /\ l < rest * Scale <=> l \div Scale < rest
<1>1. PICK top : top = rest * 131072
  OBVIOUS
<1>2. top \in Nat /\ top % 65536 = 0 /\ top \div 131072 = rest
  BY ONLY <1>1, rest \in Nat
<1>3. l # top
  BY <1>2
<1>4. /\ l > top <=> l \div 131072 >= rest
      /\ l < top <=> l \div 131072 < rest
  BY ONLY <1>1, <1>3, l \in Nat, rest \in Nat
<1> QED BY <1>1, <1>4 DEF Scale

(* pcm_byte_position gives back the bytes no bit of which has been read.   *)
LEMMA PcmPosition ==
    ASSUME data \in Seq(0..255), NEW e, NEW r, NEW o, NEW a, Stands(e, r, o, a)
    PROVE  PcmBytePosition(e) = (a + 7) \div 8
<1>1. PICK m \in 0..15 : Holder(e.low, e.pos, m) /\ Unused(e.pos, m) = a
  BY DEF Stands
<1>2. PICK l : l = e.low
  OBVIOUS
<1>3. PICK p : p = e.pos
  OBVIOUS
<1>4. l \in Nat /\ MarkedAt(l, m) /\ p \in Nat /\ p >= 2
  <2>1. Holder(l, p, m)
    BY ONLY <1>1, <1>2, <1>3
  <2>2. l \in Nat /\ MarkedAt(l, m)
    BY <2>1, HolderIsMarked
  <2>3. p \in Nat /\ p >= 2
    BY ONLY <2>1 DEF Holder
  <2> QED BY <2>2, <2>3
<1>5. a = (8 * p) - (16 - m)
  BY <1>1, <1>3 DEF Unused
<1>6. /\ m = 0 => l % 2 # 0
      /\ m # 0 => l % 2 = 0
      /\ m <= 8 => l % 512 # 0
      /\ m > 8 => l % 512 = 0
  <2>1. \/ m = 0 \/ m = 1 \/ m = 2 \/ m = 3 \/ m = 4 \/ m = 5 \/ m = 6 \/ m = 7
        \/ m = 8 \/ m = 9 \/ m = 10 \/ m = 11 \/ m = 12 \/ m = 13 \/ m = 14 \/ m = 15
    OBVIOUS
  <2>2. (l \div Pow[m + 1]) % 2 = 1 /\ l % Pow[m + 1] = 0
    BY <1>4 DEF MarkedAt
  <2>3. CASE m = 0 BY ONLY <1>4, <2>2, <2>3 DEF Pow
  <2>4. CASE m = 1 BY ONLY <1>4, <2>2, <2>4 DEF Pow
  <2>5. CASE m = 2 BY ONLY <1>4, <2>2, <2>5 DEF Pow
  <2>6. CASE m = 3 BY ONLY <1>4, <2>2, <2>6 DEF Pow
  <2>7. CASE m = 4 BY ONLY <1>4, <2>2, <2>7 DEF Pow
  <2>8. CASE m = 5 BY ONLY <1>4, <2>2, <2>8 DEF Pow
  <2>9. CASE m = 6 BY ONLY <1>4, <2>2, <2>9 DEF Pow
  <2>10. CASE m = 7 BY ONLY <1>4, <2>2, <2>10 DEF Pow
  <2>11. CASE m = 8 BY ONLY <1>4, <2>2, <2>11 DEF Pow
  <2>12. CASE m = 9 BY ONLY <1>4, <2>2, <2>12 DEF Pow
  <2>13. CASE m = 10 BY ONLY <1>4, <2>2, <2>13 DEF Pow
  <2>14. CASE m = 11 BY ONLY <1>4, <2>2, <2>14 DEF Pow
  <2>15. CASE m = 12 BY ONLY <1>4, <2>2, <2>15 DEF Pow
  <2>16. CASE m = 13 BY ONLY <1>4, <2>2, <2>16 DEF Pow
  <2>17. CASE m = 14 BY ONLY <1>4, <2>2, <2>17 DEF Pow
  <2>18. CASE m = 15 BY ONLY <1>4, <2>2, <2>18 DEF Pow
  <2> QED BY <2>1, <2>3, <2>4, <2>5, <2>6, <2>7, <2>8, <2>9, <2>10, <2>11, <2>12, <2>13, <2>14,
             <2>15, <2>16, <2>17, <2>18
<1>7. PcmBytePosition(e) = p - (IF l % 2 # 0 THEN 1 ELSE 0) - (IF l % 512 # 0 THEN 1 ELSE 0)
  BY <1>2, <1>3 DEF PcmBytePosition
<1>8. PcmBytePosition(e) = IF m = 0 THEN p - 2 ELSE IF m <= 8 THEN p - 1 ELSE p
  BY ONLY <1>4, <1>6, <1>7, m \in 0..15
<1> QED BY ONLY <1>4, <1>5, <1>8, m \in 0..15

-----------------------------------------------------------------------------
(* Every step is a step of the abstract decoder.                           *)

\* The invariant the refinement needs.
RInv ==
    /\ IInv
    /\ state \in [Contexts -> 0..125]
    /\ engine # Stopped => Marked(engine)

(* Under the invariant the register stands for its range, the bits above   *)
(* bit 17 as the offset, and the number of bits read.                      *)
LEMMA RInvStands ==
    ASSUME RInv, engine # Stopped
    PROVE  /\ data \in Seq(0..255)
           /\ Width(engine.range)
           /\ engine.low \in Nat /\ engine.low % 65536 # 0
           /\ BitsRead \in Nat
           /\ Stands(engine, engine.range, engine.low \div Scale, BitsRead)
<1>1. data \in Seq(0..255) /\ Settled(engine)
  BY DEF RInv, IInv
<1>2. PICK m \in 0..15 : Holder(engine.low, engine.pos, m)
  BY DEF RInv, Marked
<1>3. engine.low \in Nat /\ engine.low % 65536 # 0
  BY <1>1, <1>2, HolderIsMarked
<1>4. Stands(engine, engine.range, engine.low \div Scale, Unused(engine.pos, m))
  BY <1>2 DEF Stands
<1>5. BitsRead = Unused(engine.pos, m)
  BY <1>1, <1>4, StandsRead
<1>6. Unused(engine.pos, m) \in Nat
  BY <1>2 DEF Holder, Unused
<1> QED BY <1>1, <1>3, <1>4, <1>5, <1>6 DEF Settled, Width

(* A register that stands for something has its marker.                    *)
LEMMA StandsMarked ==
    ASSUME data' = data, NEW r, NEW o, NEW a, Stands(engine', r, o, a)
    PROVE  Marked(engine)'
<1>1. PICK m \in 0..15 : Holder((engine').low, (engine').pos, m)
  BY DEF Stands
<1>2. Holder(engine.low, engine.pos, m)'
  BY <1>1 DEF Holder, Holds, Holding, Word, ByteAt, Scale, Shl, Pow
<1> QED BY <1>2 DEF Marked

(* No slice is decoded: the range is 0.                                    *)
LEMMA StoppedIsNone == Stopped.range = 0 /\ Stopped.low = 0
BY DEF Stopped, Register

(* The two halves of a state, when one state is replaced.                  *)
LEMMA StateHalves ==
    ASSUME state \in [Contexts -> 0..125], NEW ctx \in Contexts, NEW v,
           state' = [state EXCEPT ![ctx] = v]
    PROVE  /\ [c \in Contexts |-> state'[c] \div 2] =
                [[c \in Contexts |-> state[c] \div 2] EXCEPT ![ctx] = v \div 2]
           /\ [c \in Contexts |-> state'[c] % 2] =
                [[c \in Contexts |-> state[c] % 2] EXCEPT ![ctx] = v % 2]
OBVIOUS

(* A range that has been brought to 256 or more is not that of no slice.   *)
LEMMA WideRuns ==
    ASSUME NEW e, NEW r, Part(r), NEW o, NEW a, Stands(e, Shl(r, NormShift(r)), o, a)
    PROVE  e # Stopped
<1>1. e.range = Shl(r, NormShift(r))
  BY DEF Stands
<1>2. Shl(r, NormShift(r)) \in 256..510
  <2>1. r \in 2..510
    BY DEF Part
  <2> QED BY ONLY <2>1, NormShiftFits
<1>3. e.range # 0
  BY ONLY <1>1, <1>2
<1> QED BY ONLY <1>3, StoppedIsNone

\* The parts a range is divided in.
RangeParts(r, lps) == r \in Nat /\ lps \in Nat /\ Part(lps) /\ Part(r - lps)

(* LPS_RANGE divides every range in two parts, neither of them empty.      *)
LEMMA PartsOfRange ==
    ASSUME NEW r, Width(r), NEW s \in 0..125
    PROVE  RangeParts(r, LpsRange(r, s))
<1>1. r \in 256..510 /\ s \in 0..127
  BY DEF Width
<1>2. PICK lps : lps = LpsRange(r, s)
  OBVIOUS
<1>3. lps \in 2..240
  <2>1. LpsRange(r, s) \in 2..240
    BY <1>1, LpsRangeFits, Zenon
  <2> QED BY ONLY <1>2, <2>1
<1>4. lps \in 2..510 /\ r - lps \in 2..510 /\ r \in Nat /\ lps \in Nat
  BY ONLY <1>1, <1>3
<1> QED BY ONLY <1>2, <1>4 DEF RangeParts, Part

(* The two modules read the same tables (rangeTabLPS and transIdxLPS).     *)
LEMMA SameTable ==
    Arithmetic!LpsRangeTable = LpsRangeTable /\ Arithmetic!transIdxLPS = transIdxLPS
BY DEF Arithmetic!LpsRangeTable, LpsRangeTable, Arithmetic!transIdxLPS, transIdxLPS

(* get_cabac when the offset is below the upper part of the range.         *)
LEMMA MostProbableMapped ==
    ASSUME RInv, engine # Stopped, NEW ctx \in Contexts,
           NEW lps, lps = LpsRange(engine.range, state[ctx]),
           ~IsLps(Lower(engine, lps)),
           AfterSplit(Lower(engine, lps), lps, ctx, state[ctx])
    PROVE  /\ Arithmetic!MostProbable(ctx)
           /\ state' \in [Contexts -> 0..125]
           /\ \E r, o, a : Stands(engine', r, o, a)
<1>s. PICK s : s = state[ctx]
  OBVIOUS
<1>g. PICK g : g = engine.range
  OBVIOUS
<1>1. PICK o : o = engine.low \div Scale
  OBVIOUS
<1>2. PICK a : a = BitsRead
  OBVIOUS
<1>3. data \in Seq(0..255) /\ Width(g) /\ a \in Nat /\ Stands(engine, g, o, a)
  BY <1>g, <1>1, <1>2, RInvStands
<1>l. engine.low \in Nat /\ engine.low % 65536 # 0
  BY RInvStands
<1>4. s \in 0..125
  BY <1>s DEF RInv
<1>5. g \in Nat /\ lps \in Nat /\ Part(lps) /\ Part(g - lps)
  <2>1. RangeParts(g, LpsRange(g, s))
    BY <1>3, <1>4, PartsOfRange, Zenon
  <2> QED BY <1>s, <1>g, <2>1 DEF RangeParts
<1>6. PICK rest : rest = g - lps
  OBVIOUS
<1>7. rest \in Nat /\ Part(rest)
  BY ONLY <1>5, <1>6 DEF Part
<1>8. o \in Nat /\ o < rest
  <2>1. ~(engine.low > rest * Scale)
    BY <1>g, <1>6 DEF IsLps, Lower, Register
  <2>2. rest \in Nat
    BY <1>7
  <2>3. ~(o >= rest)
    BY <1>1, <1>l, <2>1, <2>2, OffsetDecides
  <2>4. o \in Nat
    BY <1>1, <1>l DEF Scale
  <2> QED BY <2>2, <2>3, <2>4
<1>9. /\ engine' = Renormalised(Lower(engine, lps))
      /\ state' = [state EXCEPT ![ctx] = NextMps(s)]
      /\ bin' = s % 2
  BY <1>s DEF AfterSplit
<1>10. PICK e : e = Lower(engine, lps)
  OBVIOUS
<1>e. Stands(e, rest, o, a)
  <2>1. e.low = engine.low /\ e.pos = engine.pos /\ e.range = rest
    BY ONLY <1>g, <1>6, <1>10 DEF Lower, Register
  <2>2. /\ engine.low \div Scale = o
        /\ \E m \in 0..15 : Holder(engine.low, engine.pos, m) /\ Unused(engine.pos, m) = a
    BY <1>3, Zenon DEF Stands
  <2> QED BY ONLY <2>1, <2>2 DEF Stands
<1>11. Stands(engine', Shl(rest, NormShift(rest)),
              Shl(o, NormShift(rest)) + Arithmetic!ReadBits(a, NormShift(rest)),
              a + NormShift(rest))
  <2>1. data \in Seq(0..255) /\ Part(rest) /\ Stands(e, rest, o, a)
    BY ONLY <1>3, <1>7, <1>e
  <2>2. Stands(Renormalised(e), Shl(rest, NormShift(rest)),
               Shl(o, NormShift(rest)) + Arithmetic!ReadBits(a, NormShift(rest)),
               a + NormShift(rest))
    BY ONLY <2>1, RenormalisedStands
  <2> QED BY ONLY <1>9, <1>10, <2>2
<1>r. engine' # Stopped
  BY <1>7, <1>11, WideRuns
<1>12. Arithmetic!RenormD(rest, o)
  <2>1. data \in Seq(0..255)
    BY ONLY <1>3
  <2> QED BY ONLY <1>2, <1>7, <1>8, <1>11, <1>r, <2>1, StandsForRenormD
<1>13. Arithmetic!rangeLPS(ctx) = lps
  <2>1. [c \in Contexts |-> state[c] \div 2][ctx] = s \div 2
    BY <1>s
  <2>2. Arithmetic!rangeLPS(ctx) =
          LpsRangeTable[((g \div 64) % 4) + 1][[c \in Contexts |-> state[c] \div 2][ctx] + 1]
    BY <1>g, SameTable DEF Arithmetic!rangeLPS
  <2>3. lps = LpsRangeTable[((g \div 64) % 4) + 1][(s \div 2) + 1]
    BY <1>s, <1>g DEF LpsRange
  <2> QED BY ONLY <2>1, <2>2, <2>3
<1>14. /\ [c \in Contexts |-> state'[c] \div 2] =
            [[c \in Contexts |-> state[c] \div 2] EXCEPT
               ![ctx] = Arithmetic!Min({(s \div 2) + 1, 62})]
       /\ [c \in Contexts |-> state'[c] % 2] = [c \in Contexts |-> state[c] % 2]
       /\ state' \in [Contexts -> 0..125]
  <2>1. /\ NextMps(s) \in 0..125
        /\ NextMps(s) \div 2 = Arithmetic!Min({(s \div 2) + 1, 62})
        /\ NextMps(s) % 2 = s % 2
    BY ONLY <1>4, MpsTransition
  <2>2. state \in [Contexts -> 0..125]
    BY DEF RInv
  <2>3. /\ [c \in Contexts |-> state'[c] \div 2] =
             [[c \in Contexts |-> state[c] \div 2] EXCEPT ![ctx] = NextMps(s) \div 2]
        /\ [c \in Contexts |-> state'[c] % 2] =
             [[c \in Contexts |-> state[c] % 2] EXCEPT ![ctx] = NextMps(s) % 2]
    BY <1>9, <2>2, StateHalves
  <2>4. [[c \in Contexts |-> state[c] % 2] EXCEPT ![ctx] = s % 2] =
          [c \in Contexts |-> state[c] % 2]
    BY <1>s
  <2>5. state' \in [Contexts -> 0..125]
    BY ONLY <1>9, <2>1, <2>2
  <2> QED BY ONLY <2>1, <2>3, <2>4, <2>5
<1>15. Arithmetic!MostProbable(ctx)
  <2>1. [c \in Contexts |-> state[c] \div 2][ctx] = s \div 2
    BY <1>s
  <2>2. [c \in Contexts |-> state[c] % 2][ctx] = s % 2
    BY <1>s
  <2>3. engine.low \div Scale < engine.range - Arithmetic!rangeLPS(ctx)
    BY ONLY <1>g, <1>1, <1>6, <1>8, <1>13
  <2>4. Arithmetic!RenormD(engine.range - Arithmetic!rangeLPS(ctx), engine.low \div Scale)
    BY ONLY <1>g, <1>1, <1>6, <1>12, <1>13
  <2>5. bin' = [c \in Contexts |-> state[c] % 2][ctx]
    BY ONLY <1>9, <2>2
  <2>6. [c \in Contexts |-> state[c] \div 2]' =
          [[c \in Contexts |-> state[c] \div 2] EXCEPT ![ctx] = Arithmetic!Min({@ + 1, 62})]
    BY ONLY <1>14, <2>1
  <2>7. UNCHANGED [c \in Contexts |-> state[c] % 2]
    BY ONLY <1>14
  <2> QED BY ONLY <2>3, <2>4, <2>5, <2>6, <2>7 DEF Arithmetic!MostProbable
<1> QED BY <1>11, <1>14, <1>15

(* get_cabac when it is not: the register gives up the upper part.         *)
LEMMA LeastProbableMapped ==
    ASSUME RInv, engine # Stopped, NEW ctx \in Contexts,
           NEW lps, lps = LpsRange(engine.range, state[ctx]),
           IsLps(Lower(engine, lps)),
           AfterSplit(Lower(engine, lps), lps, ctx, state[ctx])
    PROVE  /\ Arithmetic!LeastProbable(ctx)
           /\ state' \in [Contexts -> 0..125]
           /\ \E r, o, a : Stands(engine', r, o, a)
<1>s. PICK s : s = state[ctx]
  OBVIOUS
<1>g. PICK g : g = engine.range
  OBVIOUS
<1>1. PICK o : o = engine.low \div Scale
  OBVIOUS
<1>2. PICK a : a = BitsRead
  OBVIOUS
<1>3. data \in Seq(0..255) /\ Width(g) /\ a \in Nat /\ Stands(engine, g, o, a)
  BY <1>g, <1>1, <1>2, RInvStands
<1>l. engine.low \in Nat /\ engine.low % 65536 # 0
  BY RInvStands
<1>4. s \in 0..125
  BY <1>s DEF RInv
<1>5. g \in Nat /\ lps \in Nat /\ Part(lps) /\ Part(g - lps)
  <2>1. RangeParts(g, LpsRange(g, s))
    BY <1>3, <1>4, PartsOfRange, Zenon
  <2> QED BY <1>s, <1>g, <2>1 DEF RangeParts
<1>6. PICK rest : rest = g - lps
  OBVIOUS
<1>7. rest \in Nat
  BY ONLY <1>5, <1>6 DEF Part
<1>8. o \in Nat /\ o >= rest
  <2>1. engine.low > rest * Scale
    BY <1>g, <1>6 DEF IsLps, Lower, Register
  <2>2. o >= rest
    BY <1>1, <1>l, <1>7, <2>1, OffsetDecides
  <2>3. o \in Nat
    BY <1>1, <1>l DEF Scale
  <2> QED BY <2>2, <2>3
<1>9. /\ engine' = Renormalised(Taken(Lower(engine, lps), lps))
      /\ state' = [state EXCEPT ![ctx] = MlpsLps[s + 1]]
      /\ bin' = 1 - (s % 2)
  BY <1>s DEF AfterSplit
<1>10. PICK e : e = Taken(Lower(engine, lps), lps)
  OBVIOUS
<1>e. Stands(e, lps, o - rest, a)
  <2>1. e = Register(engine.low - (rest * Scale), lps, engine.pos)
    BY ONLY <1>g, <1>6, <1>10 DEF Taken, Lower, Register
  <2>2. Stands(Register(engine.low - (rest * Scale), lps, engine.pos), lps, o - rest, a)
    BY <1>3, <1>7, <1>8, TakenStands, Zenon
  <2> QED BY ONLY <2>1, <2>2
<1>11. Stands(engine', Shl(lps, NormShift(lps)),
              Shl(o - rest, NormShift(lps)) + Arithmetic!ReadBits(a, NormShift(lps)),
              a + NormShift(lps))
  <2>1. data \in Seq(0..255) /\ Part(lps) /\ Stands(e, lps, o - rest, a)
    BY ONLY <1>3, <1>5, <1>e
  <2>2. Stands(Renormalised(e), Shl(lps, NormShift(lps)),
               Shl(o - rest, NormShift(lps)) + Arithmetic!ReadBits(a, NormShift(lps)),
               a + NormShift(lps))
    BY ONLY <2>1, RenormalisedStands
  <2> QED BY ONLY <1>9, <1>10, <2>2
<1>r. engine' # Stopped
  BY <1>5, <1>11, WideRuns
<1>12. Arithmetic!RenormD(lps, o - rest)
  <2>1. o - rest \in Nat /\ data \in Seq(0..255)
    BY ONLY <1>3, <1>7, <1>8
  <2> QED BY ONLY <1>2, <1>5, <1>11, <1>r, <2>1, StandsForRenormD
<1>13. Arithmetic!rangeLPS(ctx) = lps
  <2>1. [c \in Contexts |-> state[c] \div 2][ctx] = s \div 2
    BY <1>s
  <2>2. Arithmetic!rangeLPS(ctx) =
          LpsRangeTable[((g \div 64) % 4) + 1][[c \in Contexts |-> state[c] \div 2][ctx] + 1]
    BY <1>g, SameTable DEF Arithmetic!rangeLPS
  <2>3. lps = LpsRangeTable[((g \div 64) % 4) + 1][(s \div 2) + 1]
    BY <1>s, <1>g DEF LpsRange
  <2> QED BY ONLY <2>1, <2>2, <2>3
<1>14. /\ [c \in Contexts |-> state'[c] \div 2] =
            [[c \in Contexts |-> state[c] \div 2] EXCEPT ![ctx] = transIdxLPS[(s \div 2) + 1]]
       /\ [c \in Contexts |-> state'[c] % 2] =
            [[c \in Contexts |-> state[c] % 2] EXCEPT
               ![ctx] = IF s \div 2 = 0 THEN 1 - (s % 2) ELSE s % 2]
       /\ state' \in [Contexts -> 0..125]
  <2>1. /\ MlpsLps[s + 1] \in 0..125
        /\ MlpsLps[s + 1] \div 2 = transIdxLPS[(s \div 2) + 1]
        /\ MlpsLps[s + 1] % 2 = IF s \div 2 = 0 THEN 1 - (s % 2) ELSE s % 2
    BY <1>4, LpsTransition, Zenon
  <2>2. state \in [Contexts -> 0..125]
    BY DEF RInv
  <2>3. PICK v : v = MlpsLps[s + 1]
    OBVIOUS
  <2>4. PICK t : t = transIdxLPS[(s \div 2) + 1]
    OBVIOUS
  <2>5. PICK h : h = IF s \div 2 = 0 THEN 1 - (s % 2) ELSE s % 2
    OBVIOUS
  <2>6. v \in 0..125 /\ v \div 2 = t /\ v % 2 = h
    BY ONLY <2>1, <2>3, <2>4, <2>5
  <2>7. state' = [state EXCEPT ![ctx] = v]
    BY ONLY <1>9, <2>3
  <2>8. /\ [c \in Contexts |-> state'[c] \div 2] =
             [[c \in Contexts |-> state[c] \div 2] EXCEPT ![ctx] = v \div 2]
        /\ [c \in Contexts |-> state'[c] % 2] =
             [[c \in Contexts |-> state[c] % 2] EXCEPT ![ctx] = v % 2]
    BY <2>2, <2>7, StateHalves
  <2>9. state' \in [Contexts -> 0..125]
    BY ONLY <2>2, <2>6, <2>7
  <2> QED BY ONLY <2>4, <2>5, <2>6, <2>8, <2>9
<1>15. Arithmetic!LeastProbable(ctx)
  <2>1. [c \in Contexts |-> state[c] \div 2][ctx] = s \div 2
    BY <1>s
  <2>2. [c \in Contexts |-> state[c] % 2][ctx] = s % 2
    BY <1>s
  <2>3. engine.low \div Scale >= engine.range - Arithmetic!rangeLPS(ctx)
    BY ONLY <1>g, <1>1, <1>6, <1>8, <1>13
  <2>4. Arithmetic!RenormD(Arithmetic!rangeLPS(ctx),
          (engine.low \div Scale) - (engine.range - Arithmetic!rangeLPS(ctx)))
    BY ONLY <1>g, <1>1, <1>6, <1>12, <1>13
  <2>5. bin' = 1 - [c \in Contexts |-> state[c] % 2][ctx]
    BY ONLY <1>9, <2>2
  <2>6. [c \in Contexts |-> state[c] \div 2]' =
          [[c \in Contexts |-> state[c] \div 2] EXCEPT ![ctx] = transIdxLPS[@ + 1]]
    BY ONLY <1>14, <2>1
  <2>7. [c \in Contexts |-> state[c] % 2]' =
          IF [c \in Contexts |-> state[c] \div 2][ctx] = 0
          THEN [[c \in Contexts |-> state[c] % 2] EXCEPT ![ctx] = 1 - @]
          ELSE [c \in Contexts |-> state[c] % 2]
    <3>1. CASE s \div 2 = 0
      BY ONLY <1>14, <2>1, <2>2, <3>1
    <3>2. CASE s \div 2 # 0
      <4>1. [[c \in Contexts |-> state[c] % 2] EXCEPT ![ctx] = s % 2] =
              [c \in Contexts |-> state[c] % 2]
        BY <1>s
      <4> QED BY ONLY <1>14, <2>1, <3>2, <4>1
    <3> QED BY <3>1, <3>2
  <2> QED BY ONLY <2>3, <2>4, <2>5, <2>6, <2>7, SameTable DEF Arithmetic!LeastProbable
<1> QED BY <1>11, <1>14, <1>15

(* The standard's variables in the next state.                             *)
LEMMA NextMapped ==
    ASSUME data \in Seq(0..255), NEW r, NEW o, NEW a,
           engine' # Stopped, Stands(engine', r, o, a)
    PROVE  (engine.range)' = r /\ (engine.low \div Scale)' = o /\ BitsRead' = a
<1>1. BitsRead' = a
  BY NextStandsRead
<1>2. (engine').range = r /\ (engine').low \div Scale = o
  BY DEF Stands
<1> QED BY <1>1, <1>2 DEF Scale

(* What a register that stands for something is.                           *)
LEMMA MarkStands ==
    ASSUME data \in Seq(0..255), NEW e, NEW r, NEW o, NEW a, Stands(e, r, o, a)
    PROVE  e.low \in Nat /\ e.low % 65536 # 0 /\ e.range = r /\ e.low \div Scale = o /\ o \in Nat
<1>1. PICK m \in 0..15 : Holder(e.low, e.pos, m)
  BY DEF Stands
<1>2. e.low \in Nat /\ e.low % 65536 # 0
  BY <1>1, HolderIsMarked
<1>3. e.range = r /\ e.low \div Scale = o
  BY DEF Stands
<1>4. o \in Nat
  BY <1>2, <1>3 DEF Scale
<1> QED BY <1>2, <1>3, <1>4

(* A doubled register has taken one bit.                                   *)
LEMMA DoubledStands ==
    ASSUME data \in Seq(0..255), NEW e, NEW r, NEW o, NEW a, Stands(e, r, o, a)
    PROVE  Stands(Doubled(e), r, (2 * o) + Arithmetic!Bit(a), a + 1)
<1>1. PICK m \in 0..15 : Holder(e.low, e.pos, m) /\ Unused(e.pos, m) = a
  BY DEF Stands
<1>2. e.range = r /\ e.low \div Scale = o
  BY DEF Stands
<1>3. PICK d : d = Refill(Register(2 * e.low, e.range, e.pos))
  OBVIOUS
<1>4. TakesOne(e.low, e.pos, m, e.range, d)
  BY <1>1, <1>3, OneBitTaken
<1>5. /\ d.low \in Nat /\ d.pos \in Nat /\ d.pos >= 2 /\ d.range = r
      /\ d.low \div Scale = (2 * o) + Arithmetic!Bit(a)
  BY <1>1, <1>2, <1>4 DEF TakesOne
<1>6. PICK n \in 0..15 : Holds(d.low, d.pos, n) /\ Unused(d.pos, n) = a + 1
  BY <1>1, <1>4 DEF TakesOne
<1>7. Holder(d.low, d.pos, n)
  BY <1>5, <1>6 DEF Holder
<1>8. Stands(d, r, (2 * o) + Arithmetic!Bit(a), a + 1)
  BY ONLY <1>5, <1>6, <1>7 DEF Stands
<1> QED BY ONLY <1>3, <1>8 DEF Doubled

(* get_cabac_bypass decodes what DecodeBypass decodes.                     *)
LEMMA BypassMapped ==
    ASSUME RInv, GetCabacBypass
    PROVE  Arithmetic!DecodeBypass /\ \E r, o, a : Stands(engine', r, o, a)
<1>g. PICK g : g = engine.range
  OBVIOUS
<1>1. PICK o : o = engine.low \div Scale
  OBVIOUS
<1>2. PICK a : a = BitsRead
  OBVIOUS
<1>0. /\ engine # Stopped /\ AfterBypass(Doubled(engine))
      /\ data' = data /\ state' = state
  BY DEF GetCabacBypass
<1>3. data \in Seq(0..255) /\ Width(g) /\ a \in Nat /\ Stands(engine, g, o, a)
  BY <1>0, <1>g, <1>1, <1>2, RInvStands
<1>4. PICK d : d = Doubled(engine)
  OBVIOUS
<1>5. PICK off : off = (2 * o) + Arithmetic!Bit(a)
  OBVIOUS
<1>6. Stands(d, g, off, a + 1)
  BY <1>3, <1>4, <1>5, DoubledStands
<1>7. d.low \in Nat /\ d.low % 65536 # 0 /\ d.range = g /\ d.low \div Scale = off /\ off \in Nat
  BY <1>3, <1>6, MarkStands
<1>8. g \in Nat /\ g # 0
  BY <1>3 DEF Width
<1>9. d.low < d.range * Scale <=> off < g
  BY <1>7, <1>8, OffsetDecides
<1>10. \E bit \in {0, 1} : /\ bin' = bit
                           /\ bit = IF off >= g THEN 1 ELSE 0
                           /\ Stands(engine', g, off - (g * bit), a + 1)
  <2>1. CASE off < g
    <3>1. engine' = d /\ bin' = 0
      BY <1>0, <1>4, <1>9, <2>1 DEF AfterBypass
    <3>2. off - (g * 0) = off /\ ~(off >= g)
      BY <1>7, <1>8, <2>1
    <3> QED BY <1>6, <3>1, <3>2
  <2>2. CASE ~(off < g)
    <3>1. engine' = Register(d.low - (g * Scale), g, d.pos) /\ bin' = 1
      BY <1>0, <1>4, <1>7, <1>9, <2>2 DEF AfterBypass, Taken
    <3>2. off - (g * 1) = off - g /\ off >= g
      BY <1>7, <1>8, <2>2
    <3>3. Stands(engine', g, off - g, a + 1)
      BY <1>6, <1>8, <3>1, <3>2, TakenStands
    <3> QED BY <3>1, <3>2, <3>3
  <2> QED BY <2>1, <2>2
<1>11. /\ bin' = IF off >= g THEN 1 ELSE 0
       /\ Stands(engine', g, off - (g * bin'), a + 1)
  BY <1>10
<1>r. engine' # Stopped
  BY <1>8, <1>11, StoppedIsNone DEF Stands
<1>12. /\ (engine.range)' = engine.range
       /\ (engine.low \div Scale)' = off - (engine.range * bin')
       /\ BitsRead' = BitsRead + 1
  BY <1>g, <1>2, <1>3, <1>11, <1>r, NextMapped
<1>13. Arithmetic!DecodeBypass
  <2>1. engine.range # 0
    BY <1>g, <1>8
  <2>2. off = (2 * (engine.low \div Scale)) + Arithmetic!Bit(BitsRead)
    BY <1>1, <1>2, <1>5
  <2>3. bin' = IF off >= engine.range THEN 1 ELSE 0
    BY <1>g, <1>11
  <2>4. UNCHANGED <<data, [c \in Contexts |-> state[c] \div 2], [c \in Contexts |-> state[c] % 2]>>
    BY <1>0
  <2> QED BY ONLY <1>12, <2>1, <2>2, <2>3, <2>4 DEF Arithmetic!DecodeBypass
<1> QED BY <1>11, <1>13

(* CabacReader::new and reinit read what 9.3.1.2 reads.                    *)
LEMMA FreshMapped ==
    ASSUME data \in Seq(0..255), NEW at \in Nat, Conforming(at), engine' = Fresh(at)
    PROVE  /\ Arithmetic!InitDecoder(8 * at)
           /\ engine' # Stopped
           /\ \E r, o, a : Stands(engine', r, o, a)
<1>1. PICK o : o = Arithmetic!ReadBits(8 * at, 9)
  OBVIOUS
<1>2. Stands(engine', 510, o, (8 * at) + 9)
  BY <1>1, FreshStands
<1>3. engine' # Stopped
  <2>1. Fresh(at).range = 510
    BY DEF Fresh, Register
  <2> QED BY <2>1, StoppedIsNone
<1>4. (engine.range)' = 510 /\ (engine.low \div Scale)' = o /\ BitsRead' = (8 * at) + 9
  BY <1>2, <1>3, NextMapped
<1>5. o < 510
  <2>1. (engine').low \in Nat /\ (engine').low % 65536 # 0 /\ (engine').low \div Scale = o
    BY <1>2, MarkStands
  <2>2. (engine').low < 510 * Scale
    BY DEF Conforming
  <2>3. PICK l : l = (engine').low
    OBVIOUS
  <2>4. l \in Nat /\ l \div Scale = o /\ l < 510 * Scale
    BY ONLY <2>1, <2>2, <2>3
  <2> QED BY ONLY <2>4 DEF Scale
<1>6. Arithmetic!InitDecoder(8 * at)
  BY ONLY <1>1, <1>4, <1>5 DEF Arithmetic!InitDecoder
<1> QED BY <1>2, <1>3, <1>6

(* The slice ends, or the data end within I_PCM samples.                   *)
LEMMA StopMapped ==
    ASSUME engine' = Stopped
    PROVE  Arithmetic!Stop
<1>1. (engine.range)' = 0 /\ (engine.low \div Scale)' = 0
  BY StoppedIsNone DEF Scale
<1>2. BitsRead' = 0
  BY DEF BitsRead, Stopped, Register
<1> QED BY ONLY <1>1, <1>2 DEF Arithmetic!Stop

(* A range two smaller is shifted by one at the most, where refill does    *)
(* what refill2 does.                                                      *)
LEMMA TerminateShift ==
    ASSUME data \in Seq(0..255), NEW e, NEW rest, rest \in 254..508, NEW o, NEW a,
           Stands(e, rest, o, a)
    PROVE  Refill(Shifted(e, IF e.range < 256 THEN 1 ELSE 0)) = Renormalised(e)
<1>1. e.low \in Nat /\ e.low % 65536 # 0 /\ e.range = rest
  BY MarkStands
<1>2. e.pos \in Nat
  BY DEF Stands, Holder
<1>3. PICK k : k = IF rest < 256 THEN 1 ELSE 0
  OBVIOUS
<1>4. k \in 0..1 /\ k = NormShift(rest)
  BY ONLY <1>3, rest \in 254..508 DEF NormShift
<1>5. Refill(Register(Shl(e.low, k), Shl(rest, k), e.pos)) =
        Refill2(Register(Shl(e.low, k), Shl(rest, k), e.pos))
  BY <1>1, <1>2, <1>4, RefillIsRefill2
<1> QED BY ONLY <1>1, <1>3, <1>4, <1>5 DEF Shifted, Renormalised

(* get_cabac_terminate, and the samples behind an I_PCM macroblock.        *)
LEMMA TerminateMapped ==
    ASSUME RInv, GetCabacTerminate
    PROVE  /\ Arithmetic!DecodeTerminate
           /\ engine' # Stopped => \E r, o, a : Stands(engine', r, o, a)
<1>g. PICK g : g = engine.range
  OBVIOUS
<1>1. PICK o : o = engine.low \div Scale
  OBVIOUS
<1>2. PICK a : a = BitsRead
  OBVIOUS
<1>e. PICK e : e = Lower(engine, 2)
  OBVIOUS
<1>0. /\ engine # Stopped /\ AfterTerminate(e)
      /\ data' = data /\ state' = state
  BY <1>e DEF GetCabacTerminate
<1>3. data \in Seq(0..255) /\ Width(g) /\ a \in Nat /\ Stands(engine, g, o, a)
  BY <1>0, <1>g, <1>1, <1>2, RInvStands
<1>4. PICK rest : rest = g - 2
  OBVIOUS
<1>5. rest \in 254..508 /\ rest \in Nat /\ g \in Nat /\ g # 0
  BY ONLY <1>3, <1>4 DEF Width
<1>6. Part(rest)
  BY ONLY <1>5 DEF Part
<1>7. Stands(e, rest, o, a)
  <2>1. e.low = engine.low /\ e.pos = engine.pos /\ e.range = rest
    BY ONLY <1>g, <1>e, <1>4 DEF Lower, Register
  <2>2. /\ engine.low \div Scale = o
        /\ \E m \in 0..15 : Holder(engine.low, engine.pos, m) /\ Unused(engine.pos, m) = a
    BY <1>3, Zenon DEF Stands
  <2> QED BY ONLY <2>1, <2>2 DEF Stands
<1>8. e.low \in Nat /\ e.low % 65536 # 0 /\ e.range = rest /\ e.low \div Scale = o /\ o \in Nat
  BY <1>3, <1>7, MarkStands
<1>9. e.low < e.range * Scale <=> o < rest
  BY <1>5, <1>8, OffsetDecides
<1>10. UNCHANGED <<data, [c \in Contexts |-> state[c] \div 2], [c \in Contexts |-> state[c] % 2]>>
  BY <1>0
<1>11. engine.range # 0 /\ rest = engine.range - 2 /\ o = engine.low \div Scale
  BY <1>g, <1>1, <1>4, <1>5
<1>12. CASE o < rest
  <2>1. engine' = Renormalised(e) /\ bin' = 0
    <3>1. engine' = Refill(Shifted(e, IF e.range < 256 THEN 1 ELSE 0)) /\ bin' = 0
      BY <1>0, <1>9, <1>12 DEF AfterTerminate
    <3> QED BY <1>3, <1>5, <1>7, <3>1, TerminateShift
  <2>2. Stands(engine', Shl(rest, NormShift(rest)),
               Shl(o, NormShift(rest)) + Arithmetic!ReadBits(a, NormShift(rest)),
               a + NormShift(rest))
    BY <1>3, <1>6, <1>7, <2>1, RenormalisedStands
  <2>3. engine' # Stopped
    BY <1>6, <2>2, WideRuns
  <2>4. Arithmetic!RenormD(rest, o)
    BY <1>2, <1>3, <1>6, <1>8, <2>2, <2>3, StandsForRenormD
  <2>5. Arithmetic!DecodeTerminate
    BY ONLY <1>10, <1>11, <1>12, <2>1, <2>4 DEF Arithmetic!DecodeTerminate
  <2> QED BY <2>2, <2>5
<1>13. CASE ~(o < rest)
  <2> DEFINE at == PcmBytePosition(e) + PcmBytes
  <2>1. bin' = 1 /\ (engine' = Stopped \/ (Conforming(at) /\ AfterPcm(at)))
    BY <1>0, <1>9, <1>13 DEF AfterTerminate
  <2>2. PcmBytePosition(e) = (a + 7) \div 8
    BY <1>3, <1>7, PcmPosition
  <2>3. at \in Nat /\ 8 * at = (8 * ((a + 7) \div 8)) + (8 * PcmBytes)
    BY <1>3, <2>2, PcmBytesAssumption
  <2>4. CASE engine' = Stopped
    <3>1. Arithmetic!Stop
      BY <2>4, StopMapped
    <3>2. Arithmetic!DecodeTerminate
      BY ONLY <1>10, <1>11, <1>13, <2>1, <3>1 DEF Arithmetic!DecodeTerminate
    <3> QED BY <2>4, <3>2
  <2>5. CASE engine' # Stopped
    <3>1. Conforming(at) /\ engine' = Fresh(at)
      BY <2>1, <2>5 DEF AfterPcm
    <3> HIDE DEF at
    <3>2. Arithmetic!InitDecoder(8 * at) /\ \E r, p, q : Stands(engine', r, p, q)
      BY <1>3, <2>3, <3>1, FreshMapped
    <3>3. Arithmetic!InitDecoder((8 * ((BitsRead + 7) \div 8)) + (8 * PcmBytes))
      BY ONLY <1>2, <2>3, <3>2
    <3>4. Arithmetic!DecodeTerminate
      BY ONLY <1>10, <1>11, <1>13, <2>1, <3>3 DEF Arithmetic!DecodeTerminate
    <3> QED BY <3>2, <3>4
  <2> QED BY <2>4, <2>5
<1> QED BY <1>12, <1>13

(* init_cabac_states and CabacReader::new at the start of the slice data.  *)
LEMMA StartMapped ==
    ASSUME RInv, NEW at \in 0..Len(data), NEW qp \in Qps, StartSlice(at, qp)
    PROVE  /\ Arithmetic!StartSlice(at, qp)
           /\ state' \in [Contexts -> 0..125]
           /\ \E r, o, a : Stands(engine', r, o, a)
<1>1. data \in Seq(0..255)
  BY DEF RInv, IInv
<1>2. /\ Conforming(at) /\ engine' = Fresh(at) /\ bin' = -1 /\ data' = data
      /\ state' = [c \in Contexts |-> InitState(InitValues[c], qp)]
  BY DEF StartSlice
<1>3. at \in Nat
  BY <1>1
<1>4. Arithmetic!InitDecoder(8 * at) /\ \E r, o, a : Stands(engine', r, o, a)
  BY <1>1, <1>2, <1>3, FreshMapped
<1> DEFINE pre(c) == Arithmetic!preCtxState(c, qp)
<1>5. \A c \in Contexts :
        /\ state'[c] \in 0..125
        /\ state'[c] % 2 = IF pre(c) <= 63 THEN 0 ELSE 1
        /\ state'[c] \div 2 = IF pre(c) <= 63 THEN 63 - pre(c) ELSE pre(c) - 64
  <2>1. ASSUME NEW c \in Contexts
        PROVE  /\ state'[c] \in 0..125
               /\ state'[c] % 2 = IF pre(c) <= 63 THEN 0 ELSE 1
               /\ state'[c] \div 2 = IF pre(c) <= 63 THEN 63 - pre(c) ELSE pre(c) - 64
    BY <1>2, InitTransition
  <2> QED BY <2>1
<1> HIDE DEF pre
<1>6. state' \in [Contexts -> 0..125]
  BY ONLY <1>2, <1>5
<1>7. /\ [c \in Contexts |-> state'[c] % 2] = [c \in Contexts |-> IF pre(c) <= 63 THEN 0 ELSE 1]
      /\ [c \in Contexts |-> state'[c] \div 2] =
           [c \in Contexts |-> IF pre(c) <= 63 THEN 63 - pre(c) ELSE pre(c) - 64]
  BY ONLY <1>5
<1>8. Arithmetic!StartSlice(at, qp)
  BY ONLY <1>2, <1>4, <1>7 DEF Arithmetic!StartSlice, pre
<1> QED BY <1>4, <1>6, <1>8

(* What the invariant needs after a step.                                  *)
LEMMA StillMarked ==
    ASSUME data' = data, IInv', state' \in [Contexts -> 0..125],
           engine' # Stopped => \E r, o, a : Stands(engine', r, o, a)
    PROVE  RInv'
<1>1. ASSUME engine' # Stopped PROVE Marked(engine)'
  <2>1. PICK r, o, a : Stands(engine', r, o, a)
    BY <1>1
  <2> QED BY <2>1, StandsMarked
<1>2. (engine # Stopped => Marked(engine))'
  BY <1>1 DEF Stopped, Register
<1> QED BY <1>2 DEF RInv

(* The ranges of the register are kept (module CabacEngineProofs).         *)
LEMMA IInvNext ==
    ASSUME IInv, Next
    PROVE  IInv' /\ data' = data
<1>1. ASSUME NEW at \in 0..Len(data), NEW qp \in Qps, StartSlice(at, qp) PROVE IInv' /\ data' = data
  BY <1>1, StartSettled DEF StartSlice
<1>2. ASSUME NEW ctx \in Contexts, GetCabac(ctx) PROVE IInv' /\ data' = data
  BY <1>2, GetCabacSettled DEF GetCabac
<1>3. CASE GetCabacBypass
  BY <1>3, BypassSettled DEF GetCabacBypass
<1>4. CASE GetCabacTerminate
  BY <1>4, TerminateSettled DEF GetCabacTerminate
<1> QED BY <1>1, <1>2, <1>3, <1>4 DEF Next

(* get_cabac decodes what DecodeDecision decodes.                          *)
LEMMA DecisionMapped ==
    ASSUME RInv, NEW ctx \in Contexts, GetCabac(ctx)
    PROVE  /\ Arithmetic!DecodeDecision(ctx)
           /\ state' \in [Contexts -> 0..125]
           /\ \E r, o, a : Stands(engine', r, o, a)
<1>1. PICK lps : /\ lps = LpsRange(engine.range, state[ctx])
                 /\ AfterSplit(Lower(engine, lps), lps, ctx, state[ctx])
  BY DEF GetCabac
<1>2. engine # Stopped /\ data' = data
  BY DEF GetCabac
<1>3. engine.range # 0
  <2>1. Width(engine.range)
    BY <1>2, RInvStands
  <2>2. PICK g : g = engine.range
    OBVIOUS
  <2>3. g # 0
    BY ONLY <2>1, <2>2 DEF Width
  <2> QED BY ONLY <2>2, <2>3
<1>4. CASE IsLps(Lower(engine, lps))
  <2>1. /\ Arithmetic!LeastProbable(ctx)
        /\ state' \in [Contexts -> 0..125]
        /\ \E r, o, a : Stands(engine', r, o, a)
    BY <1>1, <1>2, <1>4, LeastProbableMapped
  <2> QED BY <1>2, <1>3, <2>1 DEF Arithmetic!DecodeDecision
<1>5. CASE ~IsLps(Lower(engine, lps))
  <2>1. /\ Arithmetic!MostProbable(ctx)
        /\ state' \in [Contexts -> 0..125]
        /\ \E r, o, a : Stands(engine', r, o, a)
    BY <1>1, <1>2, <1>5, MostProbableMapped
  <2> QED BY <1>2, <1>3, <2>1 DEF Arithmetic!DecodeDecision
<1> QED BY <1>4, <1>5

(* One step of the code is one step of the standard.                       *)
LEMMA StepMapped ==
    ASSUME RInv, Next
    PROVE  Arithmetic!Next /\ RInv'
<1>1. IInv' /\ data' = data
  BY IInvNext DEF RInv
<1>s. state \in [Contexts -> 0..125]
  BY DEF RInv
<1>2. ASSUME NEW at \in 0..Len(data), NEW qp \in Qps, StartSlice(at, qp)
      PROVE  Arithmetic!Next /\ RInv'
  <2>1. /\ Arithmetic!StartSlice(at, qp)
        /\ state' \in [Contexts -> 0..125]
        /\ \E r, o, a : Stands(engine', r, o, a)
    BY <1>2, StartMapped
  <2> QED BY <1>1, <2>1, StillMarked DEF Arithmetic!Next
<1>3. ASSUME NEW ctx \in Contexts, GetCabac(ctx) PROVE Arithmetic!Next /\ RInv'
  <2>1. /\ Arithmetic!DecodeDecision(ctx)
        /\ state' \in [Contexts -> 0..125]
        /\ \E r, o, a : Stands(engine', r, o, a)
    BY <1>3, DecisionMapped
  <2> QED BY <1>1, <2>1, StillMarked DEF Arithmetic!Next
<1>4. CASE GetCabacBypass
  <2>1. state' = state
    BY <1>4 DEF GetCabacBypass
  <2>2. Arithmetic!DecodeBypass /\ \E r, o, a : Stands(engine', r, o, a)
    BY <1>4, BypassMapped
  <2> QED BY <1>1, <1>s, <2>1, <2>2, StillMarked DEF Arithmetic!Next
<1>5. CASE GetCabacTerminate
  <2>1. state' = state
    BY <1>5 DEF GetCabacTerminate
  <2>2. /\ Arithmetic!DecodeTerminate
        /\ engine' # Stopped => \E r, o, a : Stands(engine', r, o, a)
    BY <1>5, TerminateMapped
  <2> QED BY <1>1, <1>s, <2>1, <2>2, StillMarked DEF Arithmetic!Next
<1> QED BY <1>2, <1>3, <1>4, <1>5 DEF Next

(* A step that changes nothing changes nothing of the standard's state.    *)
LEMMA Stuttered ==
    ASSUME UNCHANGED vars
    PROVE  UNCHANGED Arithmetic!vars /\ (RInv => RInv')
<1>1. data' = data /\ engine' = engine /\ state' = state /\ bin' = bin
  BY DEF vars
<1>2. UNCHANGED Arithmetic!vars
  BY <1>1 DEF Arithmetic!vars, BitsRead, Stopped, Register, Scale
<1>3. RInv => RInv'
  <2>1. IInv => IInv'
    BY <1>1 DEF IInv, Settled
  <2>2. ASSUME Marked(engine) PROVE Marked(engine)'
    <3>1. PICK m \in 0..15 : Holder(engine.low, engine.pos, m)
      BY <2>2 DEF Marked
    <3>2. Stands(engine, engine.range, engine.low \div Scale, Unused(engine.pos, m))
      BY <3>1 DEF Stands
    <3>3. Stands(engine', engine.range, engine.low \div Scale, Unused(engine.pos, m))
      BY <1>1, <3>2
    <3> QED BY <1>1, <3>3, StandsMarked
  <2> QED BY <1>1, <2>1, <2>2 DEF RInv, Stopped, Register
<1> QED BY <1>2, <1>3

(* Before the first slice.                                                 *)
LEMMA MappedInit ==
    ASSUME Init
    PROVE  RInv /\ Arithmetic!Init
<1>1. data \in Seq(0..255) /\ engine = Stopped /\ state = [c \in Contexts |-> 0]
  BY DEF Init
<1>2. IInv
  BY <1>1 DEF IInv
<1>3. RInv
  BY <1>1, <1>2 DEF RInv
<1>4. engine.range = 0 /\ engine.low \div Scale = 0 /\ BitsRead = 0
  BY <1>1, StoppedIsNone DEF BitsRead, Scale
<1> QED BY <1>3, <1>4 DEF Arithmetic!Init

(* CabacReader decodes the bins of clause 9.3.3.2, in whatever data,       *)
(* whichever bins are asked for, and finds the samples of an I_PCM         *)
(* macroblock: fetching ahead, the scaled offset, the marker and the merged *)
(* state table cannot be told from the standard's bit by bit.              *)
THEOREM EngineImplementsArithmetic == Spec => ImplementsArithmetic
<1>1. Init => RInv /\ Arithmetic!Init
  BY MappedInit
<1>2. RInv /\ [Next]_vars => RInv' /\ [Arithmetic!Next]_(Arithmetic!vars)
  BY StepMapped, Stuttered
<1> QED BY <1>1, <1>2, PTL DEF Spec, ImplementsArithmetic, Arithmetic!Spec
=============================================================================

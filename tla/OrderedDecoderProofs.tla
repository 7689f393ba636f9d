------------------------ MODULE OrderedDecoderProofs -------------------------
(***************************************************************************)
(* Theorems about module OrderedDecoder for every depth of the reorder     *)
(* buffer and every stream, damaged ones included.                         *)
(* Behind them, those about clean streams: order, completeness, latency.   *)
(***************************************************************************)
EXTENDS OrderedDecoder, FiniteSetTheorems, TLAPS

EntrySet == [gop : Nat, frame : Frames, meta : Metas]

-----------------------------------------------------------------------------
(* Counting.                                                               *)

(* In a finite, totally ordered set, where P[x] are the elements before x,  *)
(* their numbers r[x] count the elements from 0, without gaps.             *)
LEMMA Counting ==
    ASSUME NEW S, IsFiniteSet(S), NEW P, NEW r,
           \A x \in S : P[x] \subseteq S /\ x \notin P[x] /\ r[x] = Cardinality(P[x]),
           \A x, y \in S : x \in P[y] => P[x] \subseteq P[y],
           \A x, y \in S : x = y \/ x \in P[y] \/ y \in P[x]
    PROVE  /\ \A x \in S : r[x] \in 0..Cardinality(S) - 1
           /\ \A x, y \in S : x \in P[y] => r[x] < r[y]
           /\ \A x, y \in S : r[x] = r[y] => x = y
           /\ \A k \in 0..Cardinality(S) - 1 : \E x \in S : r[x] = k
<1>1. Cardinality(S) \in Nat
  BY FS_CardinalityType
<1>2. ASSUME NEW x \in S
      PROVE  /\ IsFiniteSet(P[x]) /\ Cardinality(P[x]) \in Nat
             /\ IsFiniteSet(P[x] \cup {x})
             /\ Cardinality(P[x] \cup {x}) = Cardinality(P[x]) + 1
  <2>1. IsFiniteSet(P[x]) /\ x \notin P[x]
    BY FS_Subset
  <2> QED BY <2>1, FS_CardinalityType, FS_AddElement
<1>3. ASSUME NEW x \in S PROVE r[x] \in 0..Cardinality(S) - 1
  <2>1. Cardinality(P[x] \cup {x}) <= Cardinality(S)
    BY <1>2, FS_Subset
  <2>2. r[x] = Cardinality(P[x])
    OBVIOUS
  <2>3. Cardinality(P[x]) \in Nat /\ Cardinality(P[x]) + 1 <= Cardinality(S)
    BY <1>2, <2>1
  <2>4. Cardinality(P[x]) \in 0..Cardinality(S) - 1
    BY ONLY <1>1, <2>3
  <2> QED BY ONLY <2>2, <2>4
<1>4. ASSUME NEW x \in S, NEW y \in S, x \in P[y] PROVE r[x] < r[y]
  <2>1. P[x] \cup {x} \subseteq P[y]
    BY <1>4
  <2>2. Cardinality(P[x] \cup {x}) <= Cardinality(P[y])
    BY <1>2, <2>1, FS_Subset
  <2>3. Cardinality(P[x]) \in Nat /\ Cardinality(P[x]) + 1 <= Cardinality(P[y])
    BY <1>2, <2>2
  <2>4. Cardinality(P[y]) \in Nat /\ r[x] = Cardinality(P[x]) /\ r[y] = Cardinality(P[y])
    BY <1>2
  <2> QED BY ONLY <2>3, <2>4
<1>5. ASSUME NEW x \in S, NEW y \in S, r[x] = r[y] PROVE x = y
  <2>1. r[x] \in Int /\ r[y] \in Int
    BY <1>3
  <2>2. ~ (r[x] < r[y]) /\ ~ (r[y] < r[x])
    BY <1>5, <2>1
  <2> QED BY <1>4, <2>2
<1>6. ASSUME NEW k \in 0..Cardinality(S) - 1 PROVE \E x \in S : r[x] = k
  <2> DEFINE T == 0..Cardinality(S) - 1
             f == [x \in S |-> r[x]]
  <2>1. IsFiniteSet(T) /\ Cardinality(T) = Cardinality(S)
    BY <1>1, FS_Interval
  <2>2. f \in Injection(S, T)
    BY <1>3, <1>5 DEF Injection, IsInjective
  <2>3. \A x \in S : f[x] = r[x]
    OBVIOUS
  <2> HIDE DEF T, f
  <2>4. f \in Surjection(S, T)
    BY <2>1, <2>2, FS_Injection
  <2>5. k \in T
    BY DEF T
  <2> QED BY <2>3, <2>4, <2>5 DEF Surjection
<1> QED BY <1>3, <1>4, <1>5, <1>6

-----------------------------------------------------------------------------
(* The reorder buffer.                                                     *)

(* The key (gop_id, POC), with the vector order for ties, is a total order *)
(* of the entries, as the sort and min_by_key need it (decoder.rs:1378-    *)
(* 1406).                                                                  *)
LEMMA KeyOrders ==
    ASSUME NEW s \in Seq(EntrySet), NEW i \in DOMAIN s, NEW j \in DOMAIN s
    PROVE  /\ ~Before(s, i, i)
           /\ i = j \/ Before(s, i, j) \/ Before(s, j, i)
           /\ \A k \in DOMAIN s : Before(s, i, j) /\ Before(s, j, k) => Before(s, i, k)
<1>1. \A k \in DOMAIN s : s[k].gop \in Int /\ s[k].frame.poc \in Int /\ k \in Int
  <2>1. \A e \in EntrySet : e.gop \in Int /\ e.frame.poc \in Int
    BY DEF EntrySet, Frames
  <2>2. \A k \in DOMAIN s : s[k] \in EntrySet /\ k \in Int
    OBVIOUS
  <2> QED BY <2>1, <2>2
<1> QED BY ONLY <1>1, i \in DOMAIN s, j \in DOMAIN s DEF Before

(* The ranks of the entries are 0, 1, 2 and so on, in the order of keys.   *)
LEMMA RankNumbers ==
    ASSUME NEW s \in Seq(EntrySet)
    PROVE  /\ \A i \in DOMAIN s : Rank(s, i) \in 0..Len(s) - 1
           /\ \A i, j \in DOMAIN s : Before(s, i, j) => Rank(s, i) < Rank(s, j)
           /\ \A i, j \in DOMAIN s : Rank(s, i) = Rank(s, j) => i = j
           /\ \A k \in 0..Len(s) - 1 : \E i \in DOMAIN s : Rank(s, i) = k
<1> DEFINE P == [x \in DOMAIN s |-> {y \in DOMAIN s : Before(s, y, x)}]
           r == [x \in DOMAIN s |-> Rank(s, x)]
<1>1. IsFiniteSet(DOMAIN s) /\ Cardinality(DOMAIN s) = Len(s) /\ Len(s) \in Nat
  <2>1. DOMAIN s = 1..Len(s) /\ Len(s) \in Nat
    OBVIOUS
  <2> DEFINE n == Len(s)
  <2> HIDE DEF n
  <2>2. IsFiniteSet(1..n) /\ Cardinality(1..n) = n
    BY <2>1, FS_Interval DEF n
  <2> QED BY <2>1, <2>2 DEF n
<1>2. \A x, y \in DOMAIN s : x \in P[y] <=> Before(s, x, y)
  OBVIOUS
<1>3. \A x \in DOMAIN s : P[x] \subseteq DOMAIN s /\ r[x] = Cardinality(P[x]) /\ r[x] = Rank(s, x)
  BY DEF Rank
<1> HIDE DEF P, r
<1>4. \A x \in DOMAIN s : x \notin P[x]
  BY <1>2, KeyOrders
<1>5. \A x, y \in DOMAIN s : x \in P[y] => P[x] \subseteq P[y]
  BY <1>2, <1>3, KeyOrders
<1>6. \A x, y \in DOMAIN s : x = y \/ x \in P[y] \/ y \in P[x]
  BY <1>2, KeyOrders
<1> DEFINE S == DOMAIN s
<1> HIDE DEF S
<1>7. /\ \A x \in S : r[x] \in 0..Cardinality(S) - 1
      /\ \A x, y \in S : x \in P[y] => r[x] < r[y]
      /\ \A x, y \in S : r[x] = r[y] => x = y
      /\ \A k \in 0..Cardinality(S) - 1 : \E x \in S : r[x] = k
  <2>1. IsFiniteSet(S) /\ \A x \in S : P[x] \subseteq S /\ x \notin P[x] /\ r[x] = Cardinality(P[x])
    BY <1>1, <1>3, <1>4 DEF S
  <2>2. /\ \A x, y \in S : x \in P[y] => P[x] \subseteq P[y]
        /\ \A x, y \in S : x = y \/ x \in P[y] \/ y \in P[x]
    BY <1>5, <1>6 DEF S
  <2> QED BY ONLY <2>1, <2>2, Counting
<1>8. Cardinality(S) = Len(s) /\ \A x \in S : r[x] = Rank(s, x)
  BY <1>1, <1>3 DEF S
<1>9. /\ \A i \in S : Rank(s, i) \in 0..Len(s) - 1
      /\ \A k \in 0..Len(s) - 1 : \E i \in S : Rank(s, i) = k
  BY ONLY <1>7, <1>8
<1>10. /\ \A i, j \in S : Rank(s, i) = Rank(s, j) => i = j
       /\ \A i, j \in S : i \in P[j] => Rank(s, i) < Rank(s, j)
  BY ONLY <1>7, <1>8
<1>11. \A i, j \in S : Before(s, i, j) => Rank(s, i) < Rank(s, j)
  BY <1>2, <1>10 DEF S
<1> QED BY <1>9, <1>10, <1>11 DEF S

\* The entries that are left when the n lowest are released, and the k-th
\* of them in vector order, as in Without.
Left(s, n) == {i \in DOMAIN s : Rank(s, i) >= n}
Nth(s, n, k) ==
    CHOOSE i \in Left(s, n) : Cardinality({j \in Left(s, n) : j < i}) = k - 1

(* What is left is all but n entries.                                      *)
LEMMA LeftCounts ==
    ASSUME NEW s \in Seq(EntrySet), NEW n \in 0..Len(s)
    PROVE  /\ IsFiniteSet(Left(s, n)) /\ Left(s, n) \subseteq DOMAIN s
           /\ Cardinality(Left(s, n)) = Len(s) - n
<1> DEFINE L == Left(s, n)
           f == [i \in L |-> Rank(s, i)]
           T == n..Len(s) - 1
<1>1. L \subseteq DOMAIN s /\ Len(s) \in Nat /\ n \in Nat
  BY DEF Left
<1>2. f \in [L -> T]
  BY RankNumbers DEF Left
<1>3. \A x, y \in L : f[x] = f[y] => x = y
  BY <1>1, RankNumbers
<1>4. \A k \in T : \E x \in L : f[x] = k
  <2> SUFFICES ASSUME NEW k \in T PROVE \E x \in L : f[x] = k
    OBVIOUS
  <2>1. k \in 0..Len(s) - 1
    BY <1>1
  <2>2. PICK x \in DOMAIN s : Rank(s, x) = k
    BY <2>1, RankNumbers
  <2>3. x \in L
    BY <2>2 DEF Left
  <2> QED BY <2>2, <2>3
<1>5. IsFiniteSet(T) /\ Cardinality(T) = Len(s) - n
  <2> DEFINE m == Len(s)
  <2>1. m \in Nat /\ n \in Nat /\ n <= m
    BY <1>1
  <2> HIDE DEF m
  <2>2. IsFiniteSet(n..m - 1) /\ Cardinality(n..m - 1) = IF n > m - 1 THEN 0 ELSE m - 1 - n + 1
    BY <2>1, FS_Interval
  <2> QED BY <2>1, <2>2 DEF m
<1> HIDE DEF L, f, T
<1>6. f \in Injection(L, T) /\ f \in Surjection(L, T)
  BY <1>2, <1>3, <1>4 DEF Injection, Surjection, IsInjective
<1>7. IsFiniteSet(L) /\ Cardinality(L) = Cardinality(T)
  BY <1>5, <1>6, FS_Injection
<1> QED BY <1>1, <1>5, <1>7 DEF L

(* The vector of the k-th entry left, and the entry of rank k - 1.         *)
LEMMA Places ==
    ASSUME NEW s \in Seq(EntrySet), NEW n \in 0..Len(s)
    PROVE  /\ \A k \in 1..Len(s) : ByKey(s)[k] \in DOMAIN s /\ Rank(s, ByKey(s)[k]) = k - 1
           /\ \A k \in 1..Len(s) - n : Nth(s, n, k) \in Left(s, n)
           /\ \A k, l \in 1..Len(s) - n : Nth(s, n, k) = Nth(s, n, l) => k = l
<1> DEFINE L == Left(s, n)
           P == [x \in L |-> {y \in L : y < x}]
           r == [x \in L |-> Cardinality({y \in L : y < x})]
<1>1. IsFiniteSet(L) /\ L \subseteq 1..Len(s) /\ Cardinality(L) = Len(s) - n
  BY LeftCounts
<1>2. \A x \in L : P[x] \subseteq L /\ x \notin P[x] /\ r[x] = Cardinality(P[x])
  BY <1>1
<1>3. /\ \A x, y \in L : x \in P[y] => P[x] \subseteq P[y]
      /\ \A x, y \in L : x = y \/ x \in P[y] \/ y \in P[x]
  BY <1>1
<1>4. \A x \in L : r[x] = Cardinality({y \in L : y < x})
  OBVIOUS
<1> HIDE DEF L, P, r
<1>5. /\ \A x \in L : r[x] \in 0..Cardinality(L) - 1
      /\ \A x, y \in L : x \in P[y] => r[x] < r[y]
      /\ \A x, y \in L : r[x] = r[y] => x = y
      /\ \A k \in 0..Cardinality(L) - 1 : \E x \in L : r[x] = k
  <2>1. IsFiniteSet(L) /\ \A x \in L : P[x] \subseteq L /\ x \notin P[x] /\ r[x] = Cardinality(P[x])
    BY <1>1, <1>2
  <2> QED BY ONLY <2>1, <1>3, Counting
<1>6. ASSUME NEW k \in 1..Len(s) - n
      PROVE  Nth(s, n, k) \in L /\ r[Nth(s, n, k)] = k - 1
  <2>1. k - 1 \in 0..Cardinality(L) - 1
    BY <1>1
  <2>2. \E x \in L : Cardinality({y \in L : y < x}) = k - 1
    <3>1. PICK x \in L : r[x] = k - 1
      BY <1>5, <2>1
    <3> QED BY <1>4, <3>1
  <2>3. /\ Nth(s, n, k) \in L
        /\ Cardinality({y \in L : y < Nth(s, n, k)}) = k - 1
    BY <2>2, Zenon DEF Nth, L
  <2> QED BY <2>3, <1>4
<1>7. ASSUME NEW k \in 1..Len(s)
      PROVE  ByKey(s)[k] \in DOMAIN s /\ Rank(s, ByKey(s)[k]) = k - 1
  <2>1. k - 1 \in 0..Len(s) - 1 /\ k \in DOMAIN s
    OBVIOUS
  <2>2. \E i \in DOMAIN s : Rank(s, i) = k - 1
    BY <2>1, RankNumbers
  <2>3. ByKey(s)[k] = CHOOSE i \in DOMAIN s : Rank(s, i) = k - 1
    BY <2>1 DEF ByKey
  <2> QED BY <2>2, <2>3, Zenon
<1>8. ASSUME NEW k \in 1..Len(s) - n, NEW l \in 1..Len(s) - n, Nth(s, n, k) = Nth(s, n, l)
      PROVE  k = l
  <2>1. k - 1 = l - 1
    BY <1>6, <1>8
  <2> QED BY <2>1
<1> QED BY <1>6, <1>7, <1>8 DEF L

(* Releasing the n lowest entries splits the buffer: what is handed out    *)
(* and what stays are its entries, each in one of the two, once, and those *)
(* handed out come in the order of their keys, before all that stay.       *)
LEMMA Split ==
    ASSUME NEW s \in Seq(EntrySet), NEW n \in 0..Len(s)
    PROVE  /\ Lowest(s, n) \in Seq(EntrySet) /\ Len(Lowest(s, n)) = n
           /\ Without(s, n) \in Seq(EntrySet) /\ Len(Without(s, n)) = Len(s) - n
           /\ \E p \in [1..Len(s) -> 1..Len(s)] :
                /\ \A k, l \in 1..Len(s) : p[k] = p[l] => k = l
                /\ \A k \in 1..n : Lowest(s, n)[k] = s[p[k]] /\ Rank(s, p[k]) = k - 1
                /\ \A k \in 1..Len(s) - n : /\ Without(s, n)[k] = s[p[n + k]]
                                            /\ Rank(s, p[n + k]) >= n
<1> DEFINE p == [k \in 1..Len(s) |-> IF k <= n THEN ByKey(s)[k] ELSE Nth(s, n, k - n)]
<1>1. Len(s) \in Nat /\ DOMAIN s = 1..Len(s) /\ n \in Nat /\ n <= Len(s)
  OBVIOUS
<1>2. \A k \in 1..n : p[k] = ByKey(s)[k] /\ k \in 1..Len(s)
  BY <1>1
<1>3. \A k \in 1..Len(s) - n : p[n + k] = Nth(s, n, k) /\ n + k \in 1..Len(s)
  <2> SUFFICES ASSUME NEW k \in 1..Len(s) - n
               PROVE  p[n + k] = Nth(s, n, k) /\ n + k \in 1..Len(s)
    OBVIOUS
  <2>1. n + k \in 1..Len(s) /\ ~(n + k <= n) /\ n + k - n = k
    BY ONLY <1>1, k \in 1..Len(s) - n
  <2> QED BY <2>1
<1> HIDE DEF p
<1>4. Lowest(s, n) = [k \in 1..n |-> s[ByKey(s)[k]]]
  BY DEF Lowest
<1>5. Without(s, n) = [k \in 1..Len(s) - n |-> s[Nth(s, n, k)]]
  <2>1. Without(s, n) = [k \in 1..Cardinality(Left(s, n)) |-> s[Nth(s, n, k)]]
    BY DEF Without, Left, Nth
  <2> QED BY <2>1, LeftCounts
<1>6. \A k \in 1..n : p[k] \in 1..Len(s) /\ Rank(s, p[k]) = k - 1
  BY <1>1, <1>2, Places
<1>7. \A k \in 1..Len(s) - n : p[n + k] \in 1..Len(s) /\ Rank(s, p[n + k]) >= n
  <2>1. \A i \in Left(s, n) : i \in 1..Len(s) /\ Rank(s, i) >= n
    BY <1>1 DEF Left
  <2> QED BY <1>3, <2>1, Places
<1>8. \A k \in 1..Len(s) : k \in 1..n \/ \E l \in 1..Len(s) - n : k = n + l
  <2> SUFFICES ASSUME NEW k \in 1..Len(s), k \notin 1..n
               PROVE  \E l \in 1..Len(s) - n : k = n + l
    OBVIOUS
  <2>1. k - n \in 1..Len(s) - n /\ k = n + (k - n)
    BY <1>1
  <2> QED BY <2>1
<1>9. p \in [1..Len(s) -> 1..Len(s)]
  <2>1. \A k \in 1..Len(s) : p[k] \in 1..Len(s)
    BY <1>6, <1>7, <1>8
  <2> QED BY <2>1 DEF p
<1>10. ASSUME NEW k \in 1..Len(s), NEW l \in 1..Len(s), p[k] = p[l] PROVE k = l
  <2>1. CASE k \in 1..n /\ l \in 1..n
    <3>1. k - 1 = l - 1
      BY <1>6, <1>10, <2>1
    <3> QED BY <3>1
  <2>2. CASE k \in 1..n /\ l \notin 1..n
    <3>1. Rank(s, p[k]) = k - 1 /\ Rank(s, p[l]) >= n
      BY <1>6, <1>7, <1>8, <2>2
    <3> QED BY <1>1, <1>10, <2>2, <3>1
  <2>3. CASE k \notin 1..n /\ l \in 1..n
    <3>1. Rank(s, p[l]) = l - 1 /\ Rank(s, p[k]) >= n
      BY <1>6, <1>7, <1>8, <2>3
    <3> QED BY <1>1, <1>10, <2>3, <3>1
  <2>4. CASE k \notin 1..n /\ l \notin 1..n
    <3>1. PICK i \in 1..Len(s) - n : k = n + i
      BY <1>8, <2>4
    <3>2. PICK j \in 1..Len(s) - n : l = n + j
      BY <1>8, <2>4
    <3>3. Nth(s, n, i) = Nth(s, n, j)
      BY <1>3, <1>10, <3>1, <3>2
    <3>4. i = j
      BY <3>3, Places
    <3> QED BY <3>1, <3>2, <3>4
  <2> QED BY <2>1, <2>2, <2>3, <2>4
<1>11. /\ \A k \in 1..n : Lowest(s, n)[k] = s[p[k]]
       /\ \A k \in 1..Len(s) - n : Without(s, n)[k] = s[p[n + k]]
  BY <1>2, <1>3, <1>4, <1>5
<1>12. Lowest(s, n) \in Seq(EntrySet) /\ Len(Lowest(s, n)) = n
  <2>1. \A k \in 1..n : s[ByKey(s)[k]] \in EntrySet
    BY <1>1, <1>2, <1>6
  <2> QED BY <1>1, <1>4, <2>1
<1>13. Without(s, n) \in Seq(EntrySet) /\ Len(Without(s, n)) = Len(s) - n
  <2>1. \A k \in 1..Len(s) - n : s[Nth(s, n, k)] \in EntrySet
    BY <1>1, <1>3, <1>7
  <2>2. Len(s) - n \in Nat
    BY <1>1
  <2> QED BY <1>5, <2>1, <2>2
<1> QED BY <1>6, <1>7, <1>9, <1>10, <1>11, <1>12, <1>13

-----------------------------------------------------------------------------
(* The inductive invariant.                                                *)

SpsTables == UNION {[ids -> Sizes] : ids \in SUBSET {0}}
PpsTables == UNION {[ids -> {0}] : ids \in SUBSET {0}}

DecoderSet == [sps_table : SpsTables, pps_table : PpsTables,
               pending : PendingSet \cup {None}, pending_field : Frames \cup {None},
               panicked : BOOLEAN]

ShownSet == [frame : Frames, meta : Metas]

CurSet == [part : 0..3, n : 0..MaxSlices - 1, idr : BOOLEAN, resized : BOOLEAN,
           pps : BOOLEAN, done : BOOLEAN]

DecoderTypes ==
    /\ d \in DecoderSet
    /\ buffer \in Seq(EntrySet) /\ shown \in Seq(ShownSet)
    /\ \A i \in DOMAIN buffer : buffer[i].gop <= gop_id
    /\ building_meta \in Metas /\ gop_id \in Nat

StreamTypes ==
    /\ sent \in Seq([gop : Nat, poc : Nat]) /\ slices \in Seq(SUBSET SliceSet)
    /\ Len(slices) = Len(sent) /\ Len(sent) <= MaxFrames
    /\ cur \in CurSet

\* The stream is where the cursor says: no slice sent lies beyond it.
UpToCursor ==
    \A f \in DOMAIN slices : \A s \in slices[f] :
        /\ s.frame = f
        /\ f = Len(sent) => s.part < cur.part \/ (s.part = cur.part /\ s.n <= cur.n)

\* The decoder makes no slices up: all it has were sent.
Sent == UNION {slices[f] : f \in DOMAIN slices}

HeldIn(S) ==
    /\ \A i \in DOMAIN Pieces(shown, buffer) : Pieces(shown, buffer)[i] \subseteq S
    /\ SlicesIn(d.pending) \cup SlicesIn(d.pending_field) \subseteq S

\* While the stream lasts, the metadata of what the decoder holds is there.
MetaKept == d.pending # None \/ d.pending_field # None => building_meta # None

IInv ==
    /\ DecoderTypes /\ StreamTypes
    /\ UpToCursor /\ HeldIn(Sent)
    /\ ~cur.done => MetaKept
    /\ MetaPresent /\ NoSliceTwice

-----------------------------------------------------------------------------
(* The decoder.                                                            *)

SliceNals == [type : SliceTypes, first_mb : Nat, field_pic_flag : BOOLEAN, poc : Nat,
              slice : SliceSet, outcome : Outcomes]

(* finalize_pending (decoder.rs:283-499): a picture under construction     *)
(* leaves as a frame, or waits as a field, or completes the one that waits,*)
(* or both fields are lost in a panic; slices change place and no slice is *)
(* in two places.                                                          *)
LEMMA Finalized ==
    ASSUME NEW x \in DecoderSet, NEW f, f = FinalizePending(x)
    PROVE  /\ f.d \in DecoderSet /\ f.frame \in Frames \cup {None}
           /\ f.d.pending = None
           /\ SlicesIn(f.frame) \cup SlicesIn(f.d.pending_field)
                \subseteq SlicesIn(x.pending) \cup SlicesIn(x.pending_field)
           /\ SlicesIn(x.pending) \cap SlicesIn(x.pending_field) = {}
                => SlicesIn(f.frame) \cap SlicesIn(f.d.pending_field) = {}
           /\ x.pending = None => f.d = x /\ f.frame = None
<1> USE DEF SlicesIn
<1>1. CASE x.pending = None
  <2>1. f.d = x /\ f.frame = None
    BY <1>1 DEF FinalizePending
  <2> QED BY <1>1, <2>1 DEF DecoderSet
<1>2. CASE x.pending # None
  <2> DEFINE taken == [x EXCEPT !.pending = None]
             frame == FrameOf(x.pending)
  <2>1. x.pending \in PendingSet /\ x.pending_field \in Frames \cup {None}
    BY <1>2 DEF DecoderSet
  <2>2. frame \in Frames /\ frame.slices = x.pending.slices /\ frame # None
    BY <2>1, NoneAssumption DEF PendingSet, Frames, FrameOf
  <2>3. taken \in DecoderSet /\ taken.pending = None /\ taken.pending_field = x.pending_field
    BY DEF DecoderSet
  <2>4. CASE ~x.pending.field_pic_flag
    <3>1. f = [d |-> taken, frame |-> frame]
      BY <1>2, <2>4 DEF FinalizePending
    <3>2. f.d = taken /\ f.frame = frame
      BY <3>1
    <3> QED BY <1>2, <2>2, <2>3, <3>2
  <2>5. CASE x.pending.field_pic_flag /\ x.pending_field = None
    <3>1. f = [d |-> [taken EXCEPT !.pending_field = frame], frame |-> None]
      BY <1>2, <2>5 DEF FinalizePending
    <3>2. /\ f.d = [taken EXCEPT !.pending_field = frame] /\ f.frame = None
      BY <3>1
    <3>3. [taken EXCEPT !.pending_field = frame] \in DecoderSet
      BY <2>2, <2>3 DEF DecoderSet
    <3>4. /\ [taken EXCEPT !.pending_field = frame].pending = None
          /\ [taken EXCEPT !.pending_field = frame].pending_field = frame
      BY <2>3 DEF DecoderSet
    <3> QED BY <1>2, <2>2, <3>2, <3>3, <3>4
  <2>6. CASE x.pending.field_pic_flag /\ x.pending_field # None
    <3> DEFINE both == Combine(x.pending_field, frame, x.pending.frame_height)
               combined == [taken EXCEPT !.pending_field = None]
               fits == \A field \in {x.pending_field, frame} :
                         Covers(field, x.pending.width, x.pending.frame_height)
    <3>1. f = IF fits THEN [d |-> combined, frame |-> both]
              ELSE [d |-> [combined EXCEPT !.panicked = TRUE], frame |-> None]
      BY <1>2, <2>6 DEF FinalizePending
    <3>2. combined \in DecoderSet /\ combined.pending = None /\ combined.pending_field = None
      BY <2>3 DEF DecoderSet
    <3>3. /\ both \in Frames
          /\ both.slices = x.pending_field.slices \cup x.pending.slices
      BY <2>1, <2>2, <2>6 DEF Combine, Frames, PendingSet
    <3>4. both # None
      BY <3>3, NoneAssumption
    <3> HIDE DEF both, combined, fits
    <3>5. CASE fits
      <4>1. f.d = combined /\ f.frame = both
        BY <3>1, <3>5
      <4> QED BY <1>2, <2>6, <3>2, <3>3, <3>4, <4>1
    <3>6. CASE ~fits
      <4>1. f.d = [combined EXCEPT !.panicked = TRUE] /\ f.frame = None
        BY <3>1, <3>6
      <4>2. f.d \in DecoderSet /\ f.d.pending = None /\ f.d.pending_field = None
        BY <3>2, <4>1 DEF DecoderSet
      <4> QED BY <1>2, <2>6, <4>1, <4>2
    <3> QED BY <3>5, <3>6
  <2> QED BY <2>4, <2>5, <2>6
<1> QED BY <1>1, <1>2

(* A table holds values of its type only (HashMap::insert and get).        *)
LEMMA TableValue ==
    ASSUME NEW V, NEW t \in UNION {[ids -> V] : ids \in SUBSET {0}}
    PROVE  /\ \A i \in DOMAIN t : t[i] \in V
           /\ \A v \in V : Put(t, 0, v) \in UNION {[ids -> V] : ids \in SUBSET {0}}
<1>1. PICK ids \in SUBSET {0} : t \in [ids -> V]
  OBVIOUS
<1>2. ASSUME NEW v \in V PROVE Put(t, 0, v) \in UNION {[i -> V] : i \in SUBSET {0}}
  <2>1. DOMAIN t \cup {0} = {0}
    BY <1>1
  <2>2. Put(t, 0, v) \in [{0} -> V]
    BY <1>1, <2>1 DEF Put
  <2> QED BY <2>2
<1> QED BY <1>1, <1>2

(* The number of macroblocks of a picture is a number.                     *)
LEMMA MbsNumber ==
    ASSUME NEW sps \in Sizes, NEW flag
    PROVE  /\ sps.width \in Nat /\ sps.height \in Nat /\ PictureHeight(sps, flag) \in Nat
           /\ TotalMbs(sps, flag) \in Nat
<1>1. PICK w, h : w = sps.width /\ h = sps.height
  OBVIOUS
<1>2. w \in Nat /\ h \in Nat /\ h \div 2 \in Nat
  <2>1. w \in Nat /\ h \in Nat
    BY <1>1, OrderedDecoderAssumption DEF Sizes
  <2> QED BY <2>1
<1>3. PictureHeight(sps, flag) \in Nat
  BY <1>1, <1>2 DEF PictureHeight
<1>4. \A a, b \in Nat : Macroblocks(a, b) \in Nat
  <2> SUFFICES ASSUME NEW a \in Nat, NEW b \in Nat PROVE Macroblocks(a, b) \in Nat
    OBVIOUS
  <2>1. (a + 15) \div 16 \in Nat /\ (b + 15) \div 16 \in Nat
    OBVIOUS
  <2>2. \A i, j \in Nat : i * j \in Nat
    OBVIOUS
  <2> QED BY <2>1, <2>2 DEF Macroblocks
<1> QED BY <1>1, <1>2, <1>3, <1>4 DEF TotalMbs

(* A picture that is started is one (decoder.rs:698-745).                  *)
LEMMA PictureMade ==
    ASSUME NEW y, ActiveSps(y) \in Sizes, NEW nal, NEW q, q = NewPicture(y, nal),
           nal.slice \in SliceSet, nal.poc \in Nat, nal.field_pic_flag \in BOOLEAN
    PROVE  q \in PendingSet /\ q.slices = {nal.slice}
<1>1. PICK sps : sps = ActiveSps(y)
  OBVIOUS
<1>2. /\ sps.width \in Nat /\ sps.height \in Nat
      /\ PictureHeight(sps, nal.field_pic_flag) \in Nat /\ TotalMbs(sps, nal.field_pic_flag) \in Nat
  BY <1>1, MbsNumber
<1>3. q = [frame_poc |-> nal.poc, field_pic_flag |-> nal.field_pic_flag,
           width |-> sps.width, height |-> PictureHeight(sps, nal.field_pic_flag),
           frame_height |-> sps.height, total_mbs |-> TotalMbs(sps, nal.field_pic_flag),
           slices |-> {nal.slice}]
  BY <1>1 DEF NewPicture
<1> QED BY ONLY <1>2, <1>3, nal.slice \in SliceSet, nal.poc \in Nat, nal.field_pic_flag \in BOOLEAN
        DEF PendingSet

\* A slice goes into a picture, or the decoder is as before it.
Decoded(x, nal, p, r) ==
    /\ p.d \in DecoderSet /\ p.frame \in Frames \cup {None}
    /\ \/ r.ok = TRUE /\ r.frame = p.frame
       \/ r.ok = FALSE /\ r.frame = None /\ r.d = p.d
    /\ \/ r.d = p.d
       \/ \E q \in PendingSet :
            /\ r.d = [p.d EXCEPT !.pending = q]
            /\ \/ q.slices = {nal.slice}
               \/ /\ nal.first_mb # 0 /\ x.pending # None
                  /\ q.slices = x.pending.slices \cup {nal.slice}

(* decode_nal for a slice (decoder.rs:198-243): where the slice does not go*)
(* into the pending picture the decoder is left in the state before it,    *)
(* the pending picture restored although decode_slice took it.             *)
LEMMA SliceDecoded ==
    ASSUME NEW x \in DecoderSet, NEW nal \in SliceNals, NEW r, r = DecodeSliceNal(x, nal),
           NEW p, p = Previous(x, nal)
    PROVE  Decoded(x, nal, p, r)
<1> DEFINE s == DecodeSlice(p.d, nal)
           continues == IsContinuation(p.d, nal)
<1>1. p.d \in DecoderSet /\ p.frame \in Frames \cup {None}
  BY Finalized DEF Previous
<1>2. nal.first_mb # 0 => p.d = x
  BY DEF Previous
<1>3. nal.first_mb = 0 => p.d.pending = None
  BY Finalized DEF Previous
<1>4. continues => p.d.pending # None /\ nal.first_mb # 0
  BY DEF IsContinuation, SliceNals
<1>p. CASE p.d.panicked
  <2>1. r = Err(p.d)
    BY <1>p DEF DecodeSliceNal
  <2>2. r.d = p.d /\ r.ok = FALSE /\ r.frame = None
    BY <2>1 DEF Err
  <2> QED BY ONLY <1>1, <2>2 DEF Decoded
<1> SUFFICES ASSUME ~p.d.panicked PROVE Decoded(x, nal, p, r)
  BY <1>p
<1>5. r = IF s.ok \/ s.d.pending # None THEN Ok(s.d, p.frame)
          ELSE IF nal.first_mb # 0 /\ x.pending # None
          THEN Ok([s.d EXCEPT !.pending = x.pending], p.frame)
          ELSE Err(s.d)
  BY DEF DecodeSliceNal
<1>6. CASE ~HasParameterSets(p.d) \/ nal.outcome \in {"header", "empty"}
  <2>1. s = [d |-> p.d, ok |-> FALSE]
    BY <1>6 DEF DecodeSlice
  <2>2. s.d = p.d /\ s.ok = FALSE
    BY <2>1
  <2> HIDE DEF s
  <2>3. nal.first_mb # 0 /\ x.pending # None => p.d.pending # None
    BY <1>2
  <2>4. r = Ok(p.d, p.frame) \/ r = Err(p.d)
    BY <1>5, <2>2, <2>3
  <2>5. /\ r.d = p.d
        /\ (r.ok = TRUE /\ r.frame = p.frame) \/ (r.ok = FALSE /\ r.frame = None)
    <3>1. CASE r = Ok(p.d, p.frame)
      BY ONLY <3>1 DEF Ok
    <3>2. CASE r = Err(p.d)
      BY ONLY <3>2 DEF Err
    <3> QED BY <2>4, <3>1, <3>2
  <2> QED BY ONLY <1>1, <2>5 DEF Decoded
<1>7. CASE HasParameterSets(p.d) /\ nal.outcome = "data"
  <2>1. s = [d |-> IF continues THEN [p.d EXCEPT !.pending = None] ELSE p.d, ok |-> FALSE]
    BY <1>7 DEF DecodeSlice
  <2>2. /\ s.d = IF continues THEN [p.d EXCEPT !.pending = None] ELSE p.d
        /\ s.ok = FALSE
    BY <2>1
  <2> HIDE DEF s
  <2>3. CASE ~continues
    <3>1. nal.first_mb # 0 /\ x.pending # None => p.d.pending # None
      BY <1>2
    <3>2. r = Ok(p.d, p.frame) \/ r = Err(p.d)
      BY <1>5, <2>2, <2>3, <3>1
    <3>3. /\ r.d = p.d
          /\ (r.ok = TRUE /\ r.frame = p.frame) \/ (r.ok = FALSE /\ r.frame = None)
      <4>1. CASE r = Ok(p.d, p.frame)
        BY ONLY <4>1 DEF Ok
      <4>2. CASE r = Err(p.d)
        BY ONLY <4>2 DEF Err
      <4> QED BY <3>2, <4>1, <4>2
    <3> QED BY ONLY <1>1, <3>3 DEF Decoded
  <2>4. CASE continues
    <3>1. nal.first_mb # 0 /\ p.d = x /\ x.pending # None
      BY <1>2, <1>4, <2>4
    <3>2. s.d = [x EXCEPT !.pending = None] /\ s.d.pending = None
      BY <2>2, <2>4, <3>1 DEF DecoderSet
    <3>3. [s.d EXCEPT !.pending = x.pending] = x
      BY <3>2 DEF DecoderSet
    <3>4. r = Ok(x, p.frame)
      BY <1>5, <2>2, <3>1, <3>2, <3>3
    <3>5. r.d = p.d /\ r.ok = TRUE /\ r.frame = p.frame
      BY ONLY <3>1, <3>4 DEF Ok
    <3> QED BY ONLY <1>1, <3>5 DEF Decoded
  <2> QED BY <2>3, <2>4
<1>8. CASE HasParameterSets(p.d) /\ nal.outcome \notin {"header", "empty", "data"}
  <2> DEFINE q == IF continues THEN WithSlice(p.d, nal) ELSE NewPicture(p.d, nal)
  <2>1. s = [d |-> [p.d EXCEPT !.pending = q], ok |-> TRUE]
    BY <1>8 DEF DecodeSlice
  <2>2. s.d = [p.d EXCEPT !.pending = q] /\ s.ok = TRUE
    BY <2>1
  <2>3. q = IF continues THEN WithSlice(p.d, nal) ELSE NewPicture(p.d, nal)
    OBVIOUS
  <2> HIDE DEF s, q, continues
  <2>a. ActiveSps(p.d) \in Sizes
    BY <1>1, <1>8, TableValue DEF HasParameterSets, ActiveSps, DecoderSet, SpsTables
  <2>b. ActiveSps(p.d).height \in Nat
    BY <2>a, MbsNumber
  <2>4. nal.slice \in SliceSet /\ nal.poc \in Nat /\ nal.field_pic_flag \in BOOLEAN
    BY DEF SliceNals
  <2>5. ASSUME continues
        PROVE  /\ nal.first_mb # 0 /\ x.pending # None /\ q \in PendingSet
               /\ q.slices = x.pending.slices \cup {nal.slice}
    <3>1. nal.first_mb # 0 /\ p.d = x /\ x.pending # None
      BY <1>2, <1>4, <2>5
    <3>2. x.pending \in PendingSet
      BY <3>1 DEF DecoderSet
    <3> DEFINE y == x.pending
               h == ActiveSps(x).height
    <3>3. q = [y EXCEPT !.field_pic_flag = nal.field_pic_flag, !.frame_height = h,
                        !.slices = @ \cup {nal.slice}]
      BY <2>3, <2>5, <3>1 DEF WithSlice
    <3>4. y \in PendingSet /\ h \in Nat
      BY <2>b, <3>1, <3>2
    <3> HIDE DEF y, h
    <3>5. q \in PendingSet /\ q.slices = y.slices \cup {nal.slice}
      BY ONLY <2>4, <3>3, <3>4 DEF PendingSet
    <3> QED BY <3>1, <3>5 DEF y
  <2>6. ASSUME ~continues
        PROVE  q \in PendingSet /\ q.slices = {nal.slice}
    <3>1. q = NewPicture(p.d, nal)
      BY <2>3, <2>6
    <3> QED BY <2>4, <2>a, <3>1, PictureMade
  <2>7. r = Ok([p.d EXCEPT !.pending = q], p.frame)
    BY <1>5, <2>2
  <2>8. r.d = [p.d EXCEPT !.pending = q] /\ r.ok = TRUE /\ r.frame = p.frame
    BY <2>7 DEF Ok
  <2>9. q \in PendingSet
    BY <2>5, <2>6
  <2>10. \/ q.slices = {nal.slice}
         \/ /\ nal.first_mb # 0 /\ x.pending # None
            /\ q.slices = x.pending.slices \cup {nal.slice}
    BY <2>5, <2>6
  <2> QED BY ONLY <1>1, <2>8, <2>9, <2>10 DEF Decoded
<1> QED BY <1>6, <1>7, <1>8

-----------------------------------------------------------------------------
(* Handing frames out.                                                     *)

Apart(pieces, held) ==
    /\ \A i, j \in DOMAIN pieces : i # j => pieces[i] \cap pieces[j] = {}
    /\ \A i \in DOMAIN pieces : pieces[i] \cap held = {}

(* A call releases no more entries than the buffer holds.                  *)
LEMMA ReleasedCount ==
    ASSUME NEW s \in Seq(EntrySet), NEW gop
    PROVE  Released(s, gop) \in 0..Len(s)
<1> DEFINE m == Len(s)
           C == {i \in DOMAIN s : s[i].gop < gop}
<1>1. m \in Nat /\ C \subseteq 1..m
  OBVIOUS
<1>2. Completed(s, gop) = Cardinality(C) /\ Excess(s) = IF m > max_depth THEN m - max_depth ELSE 0
  BY DEF Completed, Excess
<1> HIDE DEF m, C
<1>3. IsFiniteSet(1..m) /\ Cardinality(1..m) = m
  BY <1>1, FS_Interval
<1>4. Cardinality(C) \in Nat /\ Cardinality(C) <= m
  BY <1>1, <1>3, FS_Subset, FS_CardinalityType
<1>5. max_depth \in Nat
  BY OrderedDecoderAssumption
<1>6. Released(s, gop) = IF Cardinality(C) >= Excess(s) THEN Cardinality(C) ELSE Excess(s)
  BY <1>2 DEF Released
<1>7. Released(s, gop) \in 0..m
  BY ONLY <1>1, <1>2, <1>4, <1>5, <1>6
<1> QED BY <1>7 DEF m

\* The n lowest entries of `full` go to the caller, who had `out` and then
\* has `out2`; `left` is what stays.
HandsOut(out, full, n, out2, left) ==
    /\ out2 \in Seq(ShownSet) /\ left \in Seq(EntrySet)
    /\ Len(out2) = Len(out) + n /\ Len(left) = Len(full) - n
    /\ \A i \in DOMAIN left : \E j \in DOMAIN full : left[i] = full[j]
    /\ \A i \in 1..Len(out) : out2[i] = out[i]
    /\ \A i \in DOMAIN out2 : i > Len(out) =>
         \E j \in DOMAIN full : out2[i].frame = full[j].frame /\ out2[i].meta = full[j].meta
    /\ \E q \in [1..Len(out) + Len(full) -> 1..Len(out) + Len(full)] :
         /\ \A i, j \in 1..Len(out) + Len(full) : q[i] = q[j] => i = j
         /\ \A i \in 1..Len(out) + Len(full) :
              Pieces(out2, left)[i] = Pieces(out, full)[q[i]]

(* The entries released go to the caller, the others stay: nothing is lost, *)
(* nothing is handed out twice (decoder.rs:1378-1406).                     *)
LEMMA Handout ==
    ASSUME NEW out \in Seq(ShownSet), NEW full \in Seq(EntrySet), NEW n \in 0..Len(full),
           NEW out2, out2 = out \o Received(Lowest(full, n)),
           NEW left, left = Without(full, n)
    PROVE  HandsOut(out, full, n, out2, left)
<1> DEFINE a == Len(out)
           b == Len(full)
           low == Lowest(full, n)
<1>1. a \in Nat /\ b \in Nat /\ n \in Nat /\ n <= b /\ DOMAIN full = 1..b /\ DOMAIN out = 1..a
  OBVIOUS
<1>2. /\ low \in Seq(EntrySet) /\ Len(low) = n
      /\ left \in Seq(EntrySet) /\ Len(left) = b - n
  BY Split
<1>3. PICK p \in [1..b -> 1..b] :
         /\ \A k, l \in 1..b : p[k] = p[l] => k = l
         /\ \A k \in 1..n : low[k] = full[p[k]]
         /\ \A k \in 1..b - n : left[k] = full[p[n + k]]
  <2>1. PICK p \in [1..Len(full) -> 1..Len(full)] :
           /\ \A k, l \in 1..Len(full) : p[k] = p[l] => k = l
           /\ \A k \in 1..n : Lowest(full, n)[k] = full[p[k]] /\ Rank(full, p[k]) = k - 1
           /\ \A k \in 1..Len(full) - n : /\ Without(full, n)[k] = full[p[n + k]]
                                          /\ Rank(full, p[n + k]) >= n
    BY Split
  <2>2. \A k \in 1..n : low[k] = full[p[k]]
    BY <2>1
  <2>3. \A k \in 1..b - n : left[k] = full[p[n + k]]
    BY <2>1
  <2> HIDE DEF low
  <2> QED BY <2>1, <2>2, <2>3
<1>4. Received(low) = [k \in 1..n |-> [frame |-> low[k].frame, meta |-> low[k].meta]]
  BY <1>2 DEF Received
<1>5. \A k \in 1..n : [frame |-> low[k].frame, meta |-> low[k].meta] \in ShownSet
  <2>1. \A e \in EntrySet : [frame |-> e.frame, meta |-> e.meta] \in ShownSet
    BY DEF EntrySet, ShownSet
  <2>2. \A k \in 1..n : low[k] \in EntrySet
    BY <1>1, <1>2
  <2> QED BY <2>1, <2>2
<1>6. Received(low) \in Seq(ShownSet) /\ Len(Received(low)) = n
  BY <1>1, <1>4, <1>5
<1>7. /\ out2 \in Seq(ShownSet) /\ Len(out2) = a + n
      /\ \A i \in 1..a : out2[i] = out[i]
      /\ \A i \in 1..a + n : i > a => out2[i] = Received(low)[i - a]
  <2> DEFINE rec == Received(low)
  <2>1. rec \in Seq(ShownSet) /\ Len(rec) = n /\ out2 = out \o rec
    BY <1>6
  <2> HIDE DEF rec, low
  <2>2. out2 \in Seq(ShownSet) /\ Len(out2) = a + n
    <3>1. out \o rec \in Seq(ShownSet) /\ Len(out \o rec) = Len(out) + Len(rec)
      <4>1. rec \in Seq(ShownSet)
        BY <2>1
      <4> QED BY ONLY out \in Seq(ShownSet), <4>1
    <3> QED BY <2>1, <3>1
  <2>3. \A i \in 1..a + n : out2[i] = IF i <= a THEN out[i] ELSE rec[i - a]
    BY <1>1, <2>1
  <2>4. \A i \in 1..a : i \in 1..a + n /\ i <= a
    BY <1>1
  <2>5. \A i \in 1..a + n : i > a => ~(i <= a)
    BY <1>1
  <2> QED BY <2>2, <2>3, <2>4, <2>5 DEF rec
<1> HIDE DEF a, b, low
<1>8. \A i \in 1..a + n : i > a => i - a \in 1..n
  BY <1>1
<1>9. \A k \in 1..n : k \in 1..b
  BY <1>1
<1>10. \A k \in 1..b - n : n + k \in 1..b
  BY <1>1
<1>11. \A i \in 1..a + n : i > a =>
          out2[i].frame = full[p[i - a]].frame /\ out2[i].meta = full[p[i - a]].meta
  <2> SUFFICES ASSUME NEW i \in 1..a + n, i > a
               PROVE  /\ out2[i].frame = full[p[i - a]].frame
                      /\ out2[i].meta = full[p[i - a]].meta
    OBVIOUS
  <2>1. i - a \in 1..n /\ out2[i] = Received(low)[i - a] /\ low[i - a] = full[p[i - a]]
    BY <1>3, <1>7, <1>8
  <2>2. out2[i] = [frame |-> low[i - a].frame, meta |-> low[i - a].meta]
    BY <1>4, <2>1
  <2> QED BY <2>1, <2>2
<1>12. \A i \in DOMAIN left : \E j \in DOMAIN full : left[i] = full[j]
  BY <1>1, <1>2, <1>3, <1>10
<1>13. \A i \in DOMAIN out2 : i > a =>
          \E j \in DOMAIN full : out2[i].frame = full[j].frame /\ out2[i].meta = full[j].meta
  <2> SUFFICES ASSUME NEW i \in DOMAIN out2, i > a
               PROVE  \E j \in DOMAIN full : /\ out2[i].frame = full[j].frame
                                             /\ out2[i].meta = full[j].meta
    OBVIOUS
  <2>1. i \in 1..a + n
    BY <1>7
  <2>2. p[i - a] \in DOMAIN full
    BY <1>1, <1>3, <1>8, <1>9, <2>1
  <2> QED BY <1>11, <2>1, <2>2
<1> DEFINE T == 1..a + b
           q == [i \in T |-> IF i <= a THEN i ELSE a + p[i - a]]
<1>14. \A i \in T : i \notin 1..a => i - a \in 1..b /\ i > a
  BY <1>1
<1>15. q \in [T -> T]
  <2>1. \A i \in T : i <= a => i \in T
    OBVIOUS
  <2>2. \A u \in 1..b : a + u \in T
    BY <1>1
  <2>3. \A i \in T : ~(i <= a) => p[i - a] \in 1..b
    <3>1. \A i \in T : ~(i <= a) => i - a \in 1..b
      BY <1>14
    <3> QED BY <1>3, <3>1
  <2> HIDE DEF T
  <2>4. \A i \in T : (IF i <= a THEN i ELSE a + p[i - a]) \in T
    BY <2>1, <2>2, <2>3
  <2> QED BY <2>4
<1>16. ASSUME NEW i \in T, NEW j \in T, q[i] = q[j] PROVE i = j
  <2>1. CASE i <= a /\ j <= a
    BY <1>16, <2>1
  <2>2. CASE ~(i <= a) /\ ~(j <= a)
    <3>1. p[i - a] \in 1..b /\ p[j - a] \in 1..b /\ a + p[i - a] = a + p[j - a]
      <4>1. i - a \in 1..b /\ j - a \in 1..b
        BY <1>1, <1>14, <2>2
      <4>2. p[i - a] \in 1..b /\ p[j - a] \in 1..b
        BY <1>3, <4>1
      <4>3. q[i] = a + p[i - a] /\ q[j] = a + p[j - a]
        BY <2>2
      <4>4. q[i] = q[j]
        BY <1>16
      <4> QED BY ONLY <4>2, <4>3, <4>4
    <3>2. p[i - a] = p[j - a]
      <4> DEFINE u == p[i - a]
                 v == p[j - a]
      <4>1. u \in 1..b /\ v \in 1..b /\ a + u = a + v
        BY <3>1
      <4> HIDE DEF u, v
      <4>2. u = v
        BY ONLY <1>1, <4>1
      <4> QED BY <4>2 DEF u, v
    <3>3. i - a = j - a
      BY <1>1, <1>3, <1>14, <2>2, <3>2
    <3> QED BY ONLY <1>1, <3>3, i \in T, j \in T DEF T
  <2>3. CASE i <= a /\ ~(j <= a)
    <3>1. p[j - a] \in 1..b /\ i = a + p[j - a]
      BY <1>1, <1>3, <1>14, <1>16, <2>3
    <3> QED BY ONLY <1>1, <2>3, <3>1
  <2>4. CASE ~(i <= a) /\ j <= a
    <3>1. p[i - a] \in 1..b /\ j = a + p[i - a]
      BY <1>1, <1>3, <1>14, <1>16, <2>4
    <3> QED BY ONLY <1>1, <2>4, <3>1
  <2> QED BY <2>1, <2>2, <2>3, <2>4
<1>17. ASSUME NEW i \in T PROVE Pieces(out2, left)[i] = Pieces(out, full)[q[i]]
  <2>1. a + n + (b - n) = a + b
    BY <1>1
  <2>2. Pieces(out2, left)[i] =
           IF i <= a + n THEN out2[i].frame.slices ELSE left[i - (a + n)].frame.slices
    BY <1>2, <1>7, <2>1 DEF Pieces
  <2>3. \A k \in T : Pieces(out, full)[k] =
                       IF k <= a THEN out[k].frame.slices ELSE full[k - a].frame.slices
    BY DEF Pieces, a, b
  <2>4. CASE i <= a
    <3>1. q[i] = i /\ out2[i] = out[i] /\ i <= a + n
      BY <1>1, <1>7, <2>4
    <3> QED BY <2>2, <2>3, <2>4, <3>1
  <2>5. CASE ~(i <= a) /\ i <= a + n
    <3>1. i \in 1..a + n /\ i > a /\ i - a \in 1..b
      BY <1>1, <1>14, <2>5
    <3>2. out2[i].frame = full[p[i - a]].frame
      BY <1>11, <3>1
    <3>3. q[i] = a + p[i - a] /\ p[i - a] \in 1..b /\ q[i] \in T
      BY <1>3, <1>15, <2>5, <3>1
    <3>4. ~(q[i] <= a) /\ q[i] - a = p[i - a]
      <4> DEFINE u == p[i - a]
                 v == q[i]
      <4>1. v = a + u /\ u \in 1..b
        BY <3>3
      <4> HIDE DEF u, v
      <4>2. ~(v <= a) /\ v - a = u
        BY ONLY <1>1, <4>1
      <4> QED BY <4>2 DEF u, v
    <3> QED BY <2>2, <2>3, <2>5, <3>2, <3>3, <3>4
  <2>6. CASE ~(i <= a + n)
    <3>1. i - (a + n) \in 1..b - n /\ i - a \in 1..b /\ n + (i - (a + n)) = i - a /\ ~(i <= a)
      BY <1>1, <2>6
    <3>2. left[i - (a + n)] = full[p[i - a]]
      BY <1>3, <3>1
    <3>3. q[i] = a + p[i - a] /\ p[i - a] \in 1..b /\ q[i] \in T
      BY <1>3, <1>15, <3>1
    <3>4. ~(q[i] <= a) /\ q[i] - a = p[i - a]
      <4> DEFINE u == p[i - a]
                 v == q[i]
      <4>1. v = a + u /\ u \in 1..b
        BY <3>3
      <4> HIDE DEF u, v
      <4>2. ~(v <= a) /\ v - a = u
        BY ONLY <1>1, <4>1
      <4> QED BY <4>2 DEF u, v
    <3> QED BY <2>2, <2>3, <2>6, <3>2, <3>3, <3>4
  <2> QED BY <2>4, <2>5, <2>6
<1> HIDE DEF q
<1>18. \E f \in [T -> T] : /\ \A i, j \in T : f[i] = f[j] => i = j
                           /\ \A i \in T : Pieces(out2, left)[i] = Pieces(out, full)[f[i]]
  BY <1>15, <1>16, <1>17
<1> QED BY <1>2, <1>7, <1>12, <1>13, <1>18 DEF a, b, HandsOut

(* Frames that share no slices share none in another order.                *)
LEMMA Rearranged ==
    ASSUME NEW N \in Nat, NEW P, NEW Q, DOMAIN P = 1..N, DOMAIN Q = 1..N,
           NEW q \in [1..N -> 1..N], \A i, j \in 1..N : q[i] = q[j] => i = j,
           \A i \in 1..N : Q[i] = P[q[i]],
           NEW held, Apart(P, held)
    PROVE  Apart(Q, held)
<1>1. ASSUME NEW i \in 1..N, NEW j \in 1..N, i # j PROVE Q[i] \cap Q[j] = {}
  <2>1. q[i] # q[j] /\ q[i] \in 1..N /\ q[j] \in 1..N
    BY <1>1
  <2> QED BY <2>1 DEF Apart
<1>2. ASSUME NEW i \in 1..N PROVE Q[i] \cap held = {}
  <2>1. q[i] \in 1..N
    OBVIOUS
  <2> QED BY <2>1 DEF Apart
<1> QED BY <1>1, <1>2 DEF Apart

KeepApart(out, left, held, S) ==
    /\ Apart(Pieces(out, left), held)
    /\ \A i \in DOMAIN Pieces(out, left) : Pieces(out, left)[i] \subseteq S

(* A call that pushes a frame, or none, and hands some out keeps the frames *)
(* apart, and gives the caller what was in the buffer.                     *)
LEMMA Emitted ==
    ASSUME NEW out \in Seq(ShownSet), NEW buf \in Seq(EntrySet), NEW full, NEW pushed,
           full = buf \/ \E e \in EntrySet : full = Append(buf, e) /\ e.frame.slices = pushed,
           NEW n \in 0..Len(full),
           NEW out2, out2 = out \o Received(Lowest(full, n)),
           NEW left, left = Without(full, n),
           NEW held, pushed \cap held = {}, Apart(Pieces(out, buf), pushed \cup held),
           NEW S, pushed \subseteq S,
           \A i \in DOMAIN Pieces(out, buf) : Pieces(out, buf)[i] \subseteq S
    PROVE  KeepApart(out2, left, held, S)
<1>1. full \in Seq(EntrySet) /\ Len(out) \in Nat /\ Len(buf) \in Nat /\ Len(full) \in Nat
  <2>1. \A e \in EntrySet : Append(buf, e) \in Seq(EntrySet)
    BY ONLY buf \in Seq(EntrySet)
  <2>2. full \in Seq(EntrySet)
    BY <2>1, Zenon
  <2> QED BY ONLY <2>2, out \in Seq(ShownSet), buf \in Seq(EntrySet)
<1> DEFINE N == Len(out) + Len(full)
           P == Pieces(out, full)
<1>2. N \in Nat /\ DOMAIN P = 1..N
  BY <1>1 DEF Pieces
<1>3. /\ Apart(P, held)
      /\ \A i \in 1..N : P[i] \subseteq S
  <2>1. CASE full = buf
    <3>1. P = Pieces(out, buf)
      BY <2>1
    <3> HIDE DEF P, N
    <3>2. Apart(P, pushed \cup held) /\ \A i \in 1..N : P[i] \subseteq S
      BY <1>2, <3>1
    <3> QED BY ONLY <3>2 DEF Apart
  <2>2. CASE \E e \in EntrySet : full = Append(buf, e) /\ e.frame.slices = pushed
    <3>1. PICK e \in EntrySet : full = Append(buf, e) /\ e.frame.slices = pushed
      BY <2>2
    <3> DEFINE M == Len(out) + Len(buf)
               O == Pieces(out, buf)
    <3>2. /\ Len(full) = Len(buf) + 1 /\ full[Len(buf) + 1] = e
          /\ \A i \in 1..Len(buf) : full[i] = buf[i]
      BY <3>1
    <3>3. N = M + 1 /\ M \in Nat /\ DOMAIN O = 1..M
      BY <1>1, <3>2 DEF Pieces
    <3>4. \A i \in 1..M : P[i] = O[i]
      <4> SUFFICES ASSUME NEW i \in 1..M PROVE P[i] = O[i]
        OBVIOUS
      <4>1. i \in 1..N /\ (i > Len(out) => i - Len(out) \in 1..Len(buf))
        BY <1>1, <3>3
      <4>2. P[i] = IF i <= Len(out) THEN out[i].frame.slices ELSE full[i - Len(out)].frame.slices
        BY <4>1 DEF Pieces
      <4>3. O[i] = IF i <= Len(out) THEN out[i].frame.slices ELSE buf[i - Len(out)].frame.slices
        BY DEF Pieces
      <4>4. ~(i <= Len(out)) => full[i - Len(out)] = buf[i - Len(out)]
        BY <1>1, <3>2, <4>1
      <4> QED BY <4>2, <4>3, <4>4
    <3>5. P[M + 1] = pushed
      <4>1. M + 1 \in 1..N /\ ~(M + 1 <= Len(out)) /\ M + 1 - Len(out) = Len(buf) + 1
        BY <1>1, <3>3
      <4>2. P[M + 1] = full[Len(buf) + 1].frame.slices
        BY <4>1 DEF Pieces
      <4> QED BY <3>1, <3>2, <4>2
    <3> HIDE DEF M, O, N, P
    <3>6. \A i \in 1..N : i \in 1..M \/ i = M + 1
      BY <3>3
    <3>7. Apart(O, pushed \cup held) /\ \A i \in 1..M : O[i] \subseteq S
      BY <3>3 DEF O
    <3>8. \A i \in 1..N : P[i] \cap held = {} /\ P[i] \subseteq S
      BY <3>3, <3>4, <3>5, <3>6, <3>7 DEF Apart
    <3>9. \A i, j \in 1..N : i # j => P[i] \cap P[j] = {}
      <4>1. \A i, j \in 1..M : i # j => O[i] \cap O[j] = {}
        BY <3>3, <3>7 DEF Apart
      <4>2. \A i \in 1..M : O[i] \cap pushed = {}
        BY <3>3, <3>7 DEF Apart
      <4> SUFFICES ASSUME NEW i \in 1..N, NEW j \in 1..N, i # j PROVE P[i] \cap P[j] = {}
        OBVIOUS
      <4>3. CASE i \in 1..M /\ j \in 1..M
        BY <3>4, <4>1, <4>3
      <4>4. CASE i \in 1..M /\ j = M + 1
        BY <3>4, <3>5, <4>2, <4>4
      <4>5. CASE i = M + 1 /\ j \in 1..M
        BY <3>4, <3>5, <4>2, <4>5
      <4> QED BY <3>6, <4>3, <4>4, <4>5
    <3> QED BY <1>2, <3>8, <3>9 DEF Apart
  <2> QED BY <2>1, <2>2
<1> DEFINE Q == Pieces(out2, left)
<1>h. HandsOut(out, full, n, out2, left)
  BY <1>1, Handout
<1>4. out2 \in Seq(ShownSet) /\ left \in Seq(EntrySet) /\ Len(out2) + Len(left) = N
  BY <1>1, <1>h DEF HandsOut
<1>5. DOMAIN Q = 1..N
  BY <1>4 DEF Pieces
<1>6. PICK q \in [1..N -> 1..N] : /\ \A i, j \in 1..N : q[i] = q[j] => i = j
                                  /\ \A i \in 1..N : Q[i] = P[q[i]]
  BY <1>h DEF HandsOut
<1> HIDE DEF N, P, Q
<1>7. Apart(Q, held)
  BY <1>2, <1>3, <1>5, <1>6, Rearranged
<1>8. \A i \in 1..N : Q[i] \subseteq S
  BY <1>3, <1>6
<1> QED BY <1>5, <1>7, <1>8 DEF Q, KeepApart

\* What a call that brings the slices `new` may make of the decoder x.
OnePlace(x, new, r) ==
    LET F == SlicesIn(r.frame)
        A == SlicesIn(r.d.pending)
        B == SlicesIn(r.d.pending_field)
        H == SlicesIn(x.pending) \cup SlicesIn(x.pending_field)
    IN  /\ r.d \in DecoderSet /\ r.frame \in Frames \cup {None}
        /\ F \subseteq H /\ A \cup B \subseteq H \cup new
        /\ F \cap (A \cup B) = {} /\ A \cap B = {}
        /\ r.frame # None => x.pending # None \/ x.pending_field # None

(* The slices that the decoder holds and those of the frame it returns are  *)
(* in one place each; they were there before, or are the slice of the call.*)
LEMMA SliceInOnePlace ==
    ASSUME NEW x \in DecoderSet, SlicesIn(x.pending) \cap SlicesIn(x.pending_field) = {},
           NEW nal \in SliceNals,
           nal.slice \notin SlicesIn(x.pending) \cup SlicesIn(x.pending_field),
           NEW r, r = DecodeNal(x, nal)
    PROVE  /\ OnePlace(x, {nal.slice}, r)
           /\ r.ok = TRUE \/ (r.ok = FALSE /\ r.frame = None)
           /\ r.ok = FALSE /\ (r.d.pending # None \/ r.d.pending_field # None)
                => x.pending # None \/ x.pending_field # None
<1> DEFINE F == SlicesIn(r.frame)
           A == SlicesIn(r.d.pending)
           B == SlicesIn(r.d.pending_field)
           H == SlicesIn(x.pending) \cup SlicesIn(x.pending_field)
<1>p. PICK p : p = Previous(x, nal)
  OBVIOUS
<1> DEFINE P == SlicesIn(p.frame)
           W == SlicesIn(p.d.pending_field)
<1>1. r = DecodeSliceNal(x, nal)
  <2>1. nal.type \in {"Slice", "SliceIdr"}
    BY DEF SliceNals, SliceTypes
  <2> QED BY <2>1 DEF DecodeNal, SliceTypes
<1>2. /\ p.d \in DecoderSet /\ p.frame \in Frames \cup {None}
      /\ \/ r.ok = TRUE /\ r.frame = p.frame
         \/ r.ok = FALSE /\ r.frame = None /\ r.d = p.d
      /\ \/ r.d = p.d
         \/ \E q \in PendingSet :
              /\ r.d = [p.d EXCEPT !.pending = q]
              /\ \/ q.slices = {nal.slice}
                 \/ /\ nal.first_mb # 0 /\ x.pending # None
                    /\ q.slices = x.pending.slices \cup {nal.slice}
  <2>1. Decoded(x, nal, p, r)
    BY <1>p, <1>1, SliceDecoded
  <2> QED BY <2>1 DEF Decoded
<1>3. nal.first_mb # 0 => p.d = x /\ p.frame = None
  BY <1>p DEF Previous
<1>4. nal.first_mb = 0 => p = FinalizePending(x)
  BY <1>p DEF Previous
<1>5. /\ P \cup W \subseteq H /\ P \cap W = {} /\ P \cap SlicesIn(p.d.pending) = {}
      /\ SlicesIn(p.d.pending) \subseteq H /\ SlicesIn(p.d.pending) \cap W = {}
  <2>1. CASE nal.first_mb # 0
    BY <1>3, <2>1 DEF SlicesIn
  <2>2. CASE nal.first_mb = 0
    <3>1. /\ p.d.pending = None
          /\ P \cup W \subseteq SlicesIn(x.pending) \cup SlicesIn(x.pending_field)
          /\ P \cap W = {}
      BY <1>4, <2>2, Finalized
    <3>2. SlicesIn(p.d.pending) = {}
      BY <3>1 DEF SlicesIn
    <3> QED BY <3>1, <3>2
  <2> QED BY <2>1, <2>2
<1>6. (p.d.pending # None \/ p.d.pending_field # None \/ p.frame # None)
         => x.pending # None \/ x.pending_field # None
  <2>1. CASE nal.first_mb # 0
    BY <1>3, <2>1
  <2>2. CASE nal.first_mb = 0
    BY <1>4, <2>2, Finalized
  <2> QED BY <2>1, <2>2
<1>q. /\ F = SlicesIn(r.frame) /\ A = SlicesIn(r.d.pending) /\ B = SlicesIn(r.d.pending_field)
      /\ H = SlicesIn(x.pending) \cup SlicesIn(x.pending_field)
  OBVIOUS
<1> DEFINE Goal == /\ r.d \in DecoderSet /\ r.frame \in Frames \cup {None}
                   /\ r.ok = TRUE \/ (r.ok = FALSE /\ r.frame = None)
                   /\ F \subseteq H /\ A \cup B \subseteq H \cup {nal.slice}
                   /\ F \cap (A \cup B) = {} /\ A \cap B = {}
                   /\ r.frame # None => x.pending # None \/ x.pending_field # None
                   /\ r.ok = FALSE /\ (r.d.pending # None \/ r.d.pending_field # None)
                        => x.pending # None \/ x.pending_field # None
<1> SUFFICES Goal
  BY DEF OnePlace
<1>n. nal.slice \notin H
  OBVIOUS
<1> HIDE DEF P, W, F, A, B, H
<1>7. F = P \/ F = {}
  BY <1>2, <1>q DEF P, SlicesIn
<1>8. CASE r.d = p.d
  <2>1. A = SlicesIn(p.d.pending) /\ B = W
    BY <1>8, <1>q DEF W
  <2> QED BY <1>2, <1>5, <1>6, <1>7, <1>8, <1>n, <2>1
<1>9. CASE \E q \in PendingSet :
              /\ r.d = [p.d EXCEPT !.pending = q]
              /\ \/ q.slices = {nal.slice}
                 \/ /\ nal.first_mb # 0 /\ x.pending # None
                    /\ q.slices = x.pending.slices \cup {nal.slice}
  <2>1. PICK q \in PendingSet :
               /\ r.d = [p.d EXCEPT !.pending = q]
               /\ \/ q.slices = {nal.slice}
                  \/ /\ nal.first_mb # 0 /\ x.pending # None
                     /\ q.slices = x.pending.slices \cup {nal.slice}
    BY <1>9
  <2>2. r.d \in DecoderSet /\ r.d.pending = q /\ r.d.pending_field = p.d.pending_field
    BY <1>2, <2>1 DEF DecoderSet
  <2>3. q # None /\ A = q.slices /\ B = W
    BY <1>q, <2>2, NoneAssumption DEF SlicesIn, W
  <2>4. CASE q.slices = {nal.slice}
    BY <1>2, <1>5, <1>6, <1>7, <1>n, <2>2, <2>3, <2>4
  <2>5. CASE /\ nal.first_mb # 0 /\ x.pending # None
             /\ q.slices = x.pending.slices \cup {nal.slice}
    <3>1. A = SlicesIn(x.pending) \cup {nal.slice} /\ SlicesIn(x.pending) = SlicesIn(p.d.pending)
      BY <1>3, <2>3, <2>5 DEF SlicesIn
    <3>2. F = {}
      BY <1>3, <1>7, <2>5 DEF P, SlicesIn
    <3>3. B = SlicesIn(x.pending_field)
      BY <1>3, <2>3, <2>5 DEF W
    <3>4. /\ F \subseteq H /\ A \cup B \subseteq H \cup {nal.slice}
          /\ F \cap (A \cup B) = {} /\ A \cap B = {}
      BY <1>q, <1>n, <3>1, <3>2, <3>3
    <3> QED BY <1>2, <1>6, <2>2, <2>5, <3>4
  <2> QED BY <2>1, <2>4, <2>5
<1> QED BY <1>2, <1>8, <1>9

-----------------------------------------------------------------------------
(* The calls.                                                              *)

Holds == SlicesIn(d.pending) \cup SlicesIn(d.pending_field)

(* NoSliceTwice, with what the decoder holds as one set.                   *)
LEMMA NoSliceTwiceIs ==
    NoSliceTwice <=> /\ Apart(Pieces(shown, buffer), Holds)
                     /\ SlicesIn(d.pending) \cap SlicesIn(d.pending_field) = {}
BY DEF NoSliceTwice, Apart, Holds

\* What every call keeps.
DecoderInv(S) == DecoderTypes /\ HeldIn(S) /\ MetaPresent /\ NoSliceTwice

(* A call that fails leaves buffer and caller alone.                       *)
LEMMA FailedCall ==
    ASSUME NEW S, NEW new, new \cap S = {}, DecoderInv(S),
           NEW r, OnePlace(d, new, r), d' = r.d,
           UNCHANGED <<buffer, building_meta, gop_id, shown>>
    PROVE  DecoderInv(S \cup new)'
<1> USE DEF DecoderInv
<1>1. Pieces(shown', buffer') = Pieces(shown, buffer)
  OBVIOUS
<1>2. d' \in DecoderSet /\ Holds' \subseteq Holds \cup new
      /\ (SlicesIn(d.pending) \cap SlicesIn(d.pending_field) = {})'
  BY DEF OnePlace, Holds
<1>3. Holds \subseteq S /\ \A i \in DOMAIN Pieces(shown, buffer) : Pieces(shown, buffer)[i] \subseteq S
  BY DEF HeldIn, Holds
<1>4. Apart(Pieces(shown, buffer), Holds)
  BY NoSliceTwiceIs
<1>5. Apart(Pieces(shown, buffer), Holds)'
  BY <1>1, <1>2, <1>3, <1>4 DEF Apart
<1>6. NoSliceTwice'
  BY <1>2, <1>5, NoSliceTwiceIs, PTL
<1>7. DecoderTypes'
  BY <1>2 DEF DecoderTypes
<1>8. HeldIn(S \cup new)'
  BY <1>1, <1>2, <1>3 DEF HeldIn, Holds
<1>9. MetaPresent'
  BY DEF MetaPresent, Entries, Elements
<1> QED BY <1>6, <1>7, <1>8, <1>9

(* A call that pushes the frame it completes, if any, and hands out the n  *)
(* lowest of the buffer.                                                   *)
LEMMA EmittingCall ==
    ASSUME NEW S, NEW new, new \cap S = {}, DecoderInv(S), MetaKept,
           NEW r, OnePlace(d, new, r), d' = r.d,
           NEW full, full = IF r.frame = None THEN buffer ELSE Pushed(r.frame),
           NEW n \in 0..Len(full),
           shown' = shown \o Received(Lowest(full, n)), buffer' = Without(full, n),
           building_meta' \in Metas, gop_id' \in Nat, gop_id' >= gop_id
    PROVE  DecoderInv(S \cup new)'
<1> USE DEF DecoderInv
<1>1. DecoderTypes
  OBVIOUS
<1>2. r.frame # None => r.frame \in Frames /\ building_meta \in Nat /\ building_meta # None
  BY <1>1 DEF OnePlace, MetaKept, DecoderTypes, Metas
<1> DEFINE e == [gop |-> gop_id, frame |-> r.frame, meta |-> building_meta]
<1>3. r.frame # None => /\ full = Append(buffer, e) /\ e \in EntrySet
                        /\ e.gop = gop_id /\ e.frame = r.frame /\ e.meta # None
  BY <1>1, <1>2 DEF Pushed, EntrySet, DecoderTypes, Metas
<1>4. r.frame = None => full = buffer
  OBVIOUS
<1> HIDE DEF e
<1>b. buffer \in Seq(EntrySet) /\ shown \in Seq(ShownSet) /\ gop_id \in Nat
  BY <1>1 DEF DecoderTypes
<1>f. full = buffer \/ (r.frame # None /\ full = Append(buffer, e) /\ e \in EntrySet)
  BY <1>3, <1>4
<1>5. full \in Seq(EntrySet)
  BY ONLY <1>b, <1>f
<1>6. \A j \in DOMAIN full : full[j] \in Elements(buffer) \/ (r.frame # None /\ full[j] = e)
  <2>1. CASE full = buffer
    BY <2>1, <1>b DEF Elements
  <2>2. CASE r.frame # None /\ full = Append(buffer, e) /\ e \in EntrySet
    <3>1. \A j \in DOMAIN full : (j \in DOMAIN buffer /\ full[j] = buffer[j]) \/ full[j] = e
      BY ONLY <1>b, <2>2
    <3> QED BY <2>2, <3>1 DEF Elements
  <2> QED BY <1>f, <2>1, <2>2
<1>7. \A x \in Elements(buffer) : x.gop <= gop_id /\ x.meta # None
  BY <1>1 DEF DecoderTypes, Elements, MetaPresent, Entries
<1>8. \A j \in DOMAIN full : full[j].gop <= gop_id /\ full[j].meta # None
  BY <1>1, <1>3, <1>6, <1>7 DEF DecoderTypes
<1>9. HandsOut(shown, full, n, shown', buffer')
  BY <1>1, <1>5, Handout DEF DecoderTypes
<1>10. /\ shown' \in Seq(ShownSet) /\ buffer' \in Seq(EntrySet) /\ d' \in DecoderSet
  BY <1>9 DEF HandsOut, OnePlace
<1>11. \A i \in DOMAIN buffer' : buffer'[i].gop <= gop_id' /\ buffer'[i].meta # None
  <2> SUFFICES ASSUME NEW i \in DOMAIN buffer'
               PROVE  buffer'[i].gop <= gop_id' /\ buffer'[i].meta # None
    OBVIOUS
  <2>1. PICK j \in DOMAIN full : buffer'[i] = full[j]
    BY <1>9 DEF HandsOut
  <2>2. full[j].gop \in Nat /\ gop_id \in Nat /\ gop_id' \in Nat
    <3>1. full[j] \in EntrySet
      BY ONLY <1>5, j \in DOMAIN full
    <3> QED BY <1>b, <3>1 DEF EntrySet
  <2>3. full[j].gop <= gop_id /\ full[j].meta # None
    BY <1>8
  <2>4. gop_id' >= gop_id
    OBVIOUS
  <2> QED BY ONLY <2>1, <2>2, <2>3, <2>4
<1>12. \A i \in DOMAIN shown' : shown'[i].meta # None
  <2> SUFFICES ASSUME NEW i \in DOMAIN shown' PROVE shown'[i].meta # None
    OBVIOUS
  <2>1. CASE i > Len(shown)
    <3>1. \A k \in DOMAIN shown' : k > Len(shown) =>
             \E j \in DOMAIN full : /\ shown'[k].frame = full[j].frame
                                    /\ shown'[k].meta = full[j].meta
      BY <1>9, Zenon DEF HandsOut
    <3> QED BY ONLY <1>8, <2>1, <3>1, i \in DOMAIN shown'
  <2>2. CASE ~(i > Len(shown))
    <3>1. i \in 1..Len(shown) /\ i \in DOMAIN shown
      BY <1>1, <1>10, <2>2 DEF DecoderTypes
    <3>2. shown'[i] = shown[i]
      BY <1>9, <3>1 DEF HandsOut
    <3> QED BY <3>1, <3>2 DEF MetaPresent, Entries, Elements
  <2> QED BY <2>1, <2>2
<1>13. DecoderTypes'
  BY <1>10, <1>11 DEF DecoderTypes
<1>14. MetaPresent'
  BY <1>11, <1>12 DEF MetaPresent, Entries, Elements
<1> DEFINE F == SlicesIn(r.frame)
<1>15. /\ F \subseteq Holds /\ Holds' \subseteq Holds \cup new /\ F \cap Holds' = {}
       /\ (SlicesIn(d.pending) \cap SlicesIn(d.pending_field) = {})'
  BY DEF OnePlace, Holds
<1>16. Holds \subseteq S /\ \A i \in DOMAIN Pieces(shown, buffer) : Pieces(shown, buffer)[i] \subseteq S
  BY DEF HeldIn, Holds
<1>17. Apart(Pieces(shown, buffer), Holds)
  BY NoSliceTwiceIs
<1>18. Apart(Pieces(shown, buffer), F \cup Holds')
  BY <1>15, <1>16, <1>17 DEF Apart
<1>19. full = buffer \/ \E x \in EntrySet : full = Append(buffer, x) /\ x.frame.slices = F
  BY <1>3, <1>4 DEF SlicesIn
<1> DEFINE T == S \cup new
<1>20. F \subseteq T /\ \A i \in DOMAIN Pieces(shown, buffer) : Pieces(shown, buffer)[i] \subseteq T
  BY <1>15, <1>16
<1>21. shown \in Seq(ShownSet) /\ buffer \in Seq(EntrySet)
  BY <1>1 DEF DecoderTypes
<1> HIDE DEF F, T
<1>22. KeepApart(shown', buffer', Holds', T)
  <2> DEFINE out2 == shown'
             left == buffer'
             held == Holds'
  <2>1. out2 = shown \o Received(Lowest(full, n)) /\ left = Without(full, n)
    OBVIOUS
  <2>2. F \cap held = {} /\ Apart(Pieces(shown, buffer), F \cup held)
    BY <1>15, <1>18
  <2> HIDE DEF out2, left, held
  <2>3. KeepApart(out2, left, held, T)
    BY ONLY <1>19, <1>20, <1>21, <2>1, <2>2, n \in 0..Len(full), Emitted
  <2> QED BY <2>3 DEF out2, left, held
<1>23. NoSliceTwice'
  <2>1. Apart(Pieces(shown, buffer), Holds)'
    BY <1>22 DEF KeepApart
  <2> QED BY <1>15, <2>1, NoSliceTwiceIs, PTL
<1>24. HeldIn(S \cup new)'
  BY <1>15, <1>16, <1>22 DEF KeepApart, HeldIn, Holds, T
<1> QED BY <1>13, <1>14, <1>23, <1>24

(* decode_nal_with_meta for any NAL unit that leaves what the decoder holds *)
(* in one place: what it pushes and hands out.                             *)
LEMMA DecodeCall ==
    ASSUME NEW S, NEW new, new \cap S = {}, DecoderInv(S), MetaKept,
           NEW nal, NEW meta \in Metas, DecodeNalWithMeta(nal, meta),
           NEW r, r = DecodeNal(d, nal), OnePlace(d, new, r),
           r.ok = FALSE => r.frame = None
    PROVE  DecoderInv(S \cup new)'
<1>1. DecoderTypes
  BY DEF DecoderInv
<1>2. CASE ~r.ok
  <2>1. d' = r.d /\ UNCHANGED <<buffer, building_meta, gop_id, shown>>
    BY <1>2 DEF DecodeNalWithMeta
  <2> QED BY <2>1, FailedCall
<1>3. CASE r.ok
  <2> DEFINE full == IF r.frame = None THEN buffer ELSE Pushed(r.frame)
             n == Released(full, NextGop(nal))
  <2>1. /\ d' = r.d
        /\ building_meta' = BuildingMeta(nal, meta, r.frame # None)
        /\ gop_id' = NextGop(nal)
        /\ shown' = shown \o Received(Lowest(full, n))
        /\ buffer' = Without(full, n)
    BY <1>3 DEF DecodeNalWithMeta
  <2>2. gop_id \in Nat /\ building_meta \in Metas
    BY <1>1 DEF DecoderTypes
  <2>3. gop_id' \in Nat /\ gop_id' >= gop_id
    BY <2>1, <2>2 DEF NextGop
  <2>4. building_meta' \in Metas
    BY <2>1, <2>2 DEF BuildingMeta, Metas
  <2>5. full \in Seq(EntrySet)
    <3>1. buffer \in Seq(EntrySet)
      BY <1>1 DEF DecoderTypes
    <3>2. CASE r.frame # None
      <4>1. r.frame \in Frames
        BY <3>2 DEF OnePlace
      <4>2. [gop |-> gop_id, frame |-> r.frame, meta |-> building_meta] \in EntrySet
        BY <2>2, <4>1 DEF EntrySet
      <4> QED BY <3>1, <3>2, <4>2 DEF Pushed
    <3> QED BY <3>1, <3>2
  <2>6. full = IF r.frame = None THEN buffer ELSE Pushed(r.frame)
    OBVIOUS
  <2> HIDE DEF full
  <2>7. n \in 0..Len(full)
    BY <2>5, ReleasedCount
  <2> HIDE DEF n
  <2> QED BY <2>1, <2>3, <2>4, <2>6, <2>7, EmittingCall
<1> QED BY <1>2, <1>3

(* A slice: it brings metadata for itself where there is none.             *)
LEMMA SliceCall ==
    ASSUME NEW S, DecoderInv(S), MetaKept, NEW nal \in SliceNals, nal.slice \notin S,
           DecodeNalWithMeta(nal, nal.slice.frame)
    PROVE  DecoderInv(S \cup {nal.slice})' /\ MetaKept'
<1>1. PICK r : r = DecodeNal(d, nal)
  OBVIOUS
<1>2. d \in DecoderSet /\ Holds \subseteq S
      /\ SlicesIn(d.pending) \cap SlicesIn(d.pending_field) = {}
  BY NoSliceTwiceIs DEF DecoderInv, DecoderTypes, HeldIn, Holds
<1>3. /\ OnePlace(d, {nal.slice}, r)
      /\ r.ok = TRUE \/ (r.ok = FALSE /\ r.frame = None)
      /\ r.ok = FALSE /\ (r.d.pending # None \/ r.d.pending_field # None)
           => d.pending # None \/ d.pending_field # None
  BY <1>1, <1>2, SliceInOnePlace DEF Holds
<1>4. nal.slice.frame \in 1..MaxFrames /\ nal.type \in SliceTypes
  BY DEF SliceNals, SliceSet
<1>5. DecoderInv(S \cup {nal.slice})'
  <2>1. {nal.slice} \cap S = {} /\ nal.slice.frame \in Metas /\ (r.ok = FALSE => r.frame = None)
    BY <1>3, <1>4 DEF Metas
  <2> DEFINE new == {nal.slice}
             meta == nal.slice.frame
  <2>2. new \cap S = {} /\ meta \in Metas /\ DecodeNalWithMeta(nal, meta) /\ OnePlace(d, new, r)
    BY <1>3, <2>1
  <2> HIDE DEF new, meta
  <2>3. DecoderInv(S \cup new)'
    BY <1>1, <2>1, <2>2, DecodeCall
  <2> QED BY <2>3 DEF new
<1>6. MetaKept'
  <2>1. CASE r.ok = FALSE
    <3>1. d' = r.d /\ building_meta' = building_meta
      BY <1>1, <2>1 DEF DecodeNalWithMeta
    <3> QED BY <1>3, <2>1, <3>1 DEF MetaKept
  <2>2. CASE r.ok = TRUE
    <3>1. building_meta' = BuildingMeta(nal, nal.slice.frame, r.frame # None)
      BY <1>1, <2>2 DEF DecodeNalWithMeta
    <3>2. nal.slice.frame # None
      BY <1>4, NoneAssumption
    <3>3. building_meta' # None
      BY <1>4, <3>1, <3>2 DEF BuildingMeta
    <3> QED BY <3>3 DEF MetaKept
  <2> QED BY <1>3, <2>1, <2>2
<1> QED BY <1>5, <1>6

(* Parameter sets and other NAL units leave pictures and metadata alone.   *)
LEMMA OtherCall ==
    ASSUME NEW S, DecoderInv(S), MetaKept, NEW nal, nal.type \notin SliceTypes,
           DecodeNalWithMeta(nal, None),
           \/ nal.outcome = "bad"
           \/ nal.type = "Sps" /\ nal.id = 0 /\ nal.size \in Sizes
           \/ nal.type = "Pps" /\ nal.id = 0 /\ nal.sps = 0
    PROVE  /\ DecoderInv(S)' /\ MetaKept'
           /\ UNCHANGED building_meta
           /\ d'.pending = d.pending /\ d'.pending_field = d.pending_field
           /\ d'.panicked = d.panicked
<1>1. PICK r : r = DecodeNal(d, nal)
  OBVIOUS
<1>2. d \in DecoderSet /\ SlicesIn(d.pending) \cap SlicesIn(d.pending_field) = {}
  BY NoSliceTwiceIs DEF DecoderInv, DecoderTypes
<1>3. \/ r = Ok(d, None) \/ r = Err(d)
      \/ /\ nal.id = 0 /\ nal.size \in Sizes
         /\ r = Ok([d EXCEPT !.sps_table = Put(@, nal.id, nal.size)], None)
      \/ /\ nal.id = 0 /\ nal.sps = 0
         /\ r = Ok([d EXCEPT !.pps_table = Put(@, nal.id, nal.sps)], None)
  BY <1>1 DEF DecodeNal
<1>4. /\ r.frame = None /\ r.d \in DecoderSet
      /\ r.d.pending = d.pending /\ r.d.pending_field = d.pending_field
      /\ r.d.panicked = d.panicked
  <2>1. CASE r = Ok(d, None) \/ r = Err(d)
    BY <1>2, <2>1 DEF Ok, Err
  <2>2. CASE /\ nal.id = 0 /\ nal.size \in Sizes
             /\ r = Ok([d EXCEPT !.sps_table = Put(@, nal.id, nal.size)], None)
    <3>1. Put(d.sps_table, 0, nal.size) \in SpsTables
      <4>1. d.sps_table \in SpsTables
        BY <1>2 DEF DecoderSet
      <4>2. \A v \in Sizes : Put(d.sps_table, 0, v) \in SpsTables
        BY ONLY <4>1, TableValue DEF SpsTables
      <4> QED BY <2>2, <4>2
    <3>2. r.d = [d EXCEPT !.sps_table = Put(d.sps_table, 0, nal.size)] /\ r.frame = None
      BY <2>2 DEF Ok
    <3> QED BY <1>2, <3>1, <3>2 DEF DecoderSet
  <2>3. CASE /\ nal.id = 0 /\ nal.sps = 0
             /\ r = Ok([d EXCEPT !.pps_table = Put(@, nal.id, nal.sps)], None)
    <3>1. Put(d.pps_table, 0, 0) \in PpsTables
      BY <1>2, TableValue DEF DecoderSet, PpsTables
    <3>2. r.d = [d EXCEPT !.pps_table = Put(d.pps_table, 0, 0)] /\ r.frame = None
      BY <2>3 DEF Ok
    <3> QED BY <1>2, <3>1, <3>2 DEF DecoderSet
  <2> QED BY <1>3, <2>1, <2>2, <2>3
<1>5. OnePlace(d, {}, r)
  <2>1. SlicesIn(r.frame) = {}
    BY <1>4 DEF SlicesIn
  <2> QED BY <1>2, <1>4, <2>1 DEF OnePlace
<1>6. DecoderInv(S)'
  <2> DEFINE new == {}
  <2>1. new \cap S = {} /\ OnePlace(d, new, r) /\ None \in Metas
    BY <1>5 DEF Metas
  <2>2. S \cup new = S
    OBVIOUS
  <2> HIDE DEF new
  <2>3. DecoderInv(S \cup new)'
    BY <1>1, <1>4, <2>1, DecodeCall
  <2> QED BY <2>2, <2>3
<1>7. d' = r.d /\ building_meta' = building_meta
  BY <1>1, <1>4 DEF DecodeNalWithMeta, BuildingMeta
<1> QED BY <1>4, <1>6, <1>7 DEF MetaKept

(* flush_with_meta: what the decoder holds joins the buffer, and all of it  *)
(* goes to the caller, by key.                                             *)
LEMMA FlushCall ==
    ASSUME NEW S, DecoderInv(S), MetaKept, FlushWithMeta
    PROVE  DecoderInv(S)'
<1>1. PICK r : r = Flush(d)
  OBVIOUS
<1>2. PICK f : f = FinalizePending(d)
  OBVIOUS
<1>3. d \in DecoderSet /\ SlicesIn(d.pending) \cap SlicesIn(d.pending_field) = {}
  BY NoSliceTwiceIs DEF DecoderInv, DecoderTypes
<1>4. /\ f.d \in DecoderSet /\ f.frame \in Frames \cup {None}
      /\ f.d.pending = None
      /\ SlicesIn(f.frame) \cup SlicesIn(f.d.pending_field) \subseteq Holds
      /\ SlicesIn(f.frame) \cap SlicesIn(f.d.pending_field) = {}
      /\ d.pending = None => f.d = d /\ f.frame = None
  BY <1>2, <1>3, Finalized DEF Holds
<1>5. OnePlace(d, {}, r)
  <2>1. CASE f.frame # None
    <3>1. r = f
      BY <1>1, <1>2, <2>1 DEF Flush
    <3>2. SlicesIn(r.d.pending) = {} /\ d.pending # None
      BY <1>4, <2>1, <3>1 DEF SlicesIn
    <3> QED BY <1>4, <3>1, <3>2 DEF OnePlace, Holds
  <2>2. CASE f.frame = None
    <3>1. r = [d |-> [f.d EXCEPT !.pending_field = None], frame |-> f.d.pending_field]
      BY <1>1, <1>2, <2>2 DEF Flush
    <3>2. r.d = [f.d EXCEPT !.pending_field = None] /\ r.frame = f.d.pending_field
      BY <3>1
    <3>3. /\ r.d \in DecoderSet /\ r.d.pending = None /\ r.d.pending_field = None
          /\ r.frame \in Frames \cup {None}
      BY <1>4, <3>2 DEF DecoderSet
    <3>4. SlicesIn(r.d.pending) = {} /\ SlicesIn(r.d.pending_field) = {}
      BY <3>3 DEF SlicesIn
    <3>5. SlicesIn(r.frame) \subseteq Holds
      BY <1>4, <3>2
    <3>6. r.frame # None => d.pending # None \/ d.pending_field # None
      BY <1>4, <3>2
    <3> QED BY <3>3, <3>4, <3>5, <3>6 DEF OnePlace, Holds
  <2> QED BY <2>1, <2>2
<1>6. PICK full : full = IF r.frame = None THEN buffer ELSE Pushed(r.frame)
  OBVIOUS
<1>p. CASE r.d.panicked
  <2> DEFINE new == {}
  <2>1. d' = r.d /\ UNCHANGED <<buffer, building_meta, gop_id, shown>>
    BY <1>1, <1>p DEF FlushWithMeta
  <2>2. new \cap S = {} /\ OnePlace(d, new, r) /\ S \cup new = S
    BY <1>5
  <2> HIDE DEF new
  <2>3. DecoderInv(S \cup new)'
    BY <2>1, <2>2, FailedCall
  <2> QED BY <2>2, <2>3
<1> SUFFICES ASSUME ~r.d.panicked PROVE DecoderInv(S)'
  BY <1>p
<1>7. /\ d' = r.d
      /\ building_meta' = IF r.frame = None THEN building_meta ELSE None
      /\ shown' = shown \o Received(Lowest(full, Len(full)))
      /\ buffer' = <<>> /\ gop_id' = gop_id
  BY <1>1, <1>6 DEF FlushWithMeta
<1>8. /\ gop_id \in Nat /\ building_meta \in Metas /\ buffer \in Seq(EntrySet)
  BY DEF DecoderInv, DecoderTypes
<1>9. full \in Seq(EntrySet)
  <2>1. CASE r.frame # None
    <3>1. r.frame \in Frames
      BY <1>5, <2>1 DEF OnePlace
    <3>2. [gop |-> gop_id, frame |-> r.frame, meta |-> building_meta] \in EntrySet
      BY <1>8, <3>1 DEF EntrySet
    <3> QED BY <1>6, <1>8, <2>1, <3>2 DEF Pushed
  <2> QED BY <1>6, <1>8, <2>1
<1>10. Len(full) \in 0..Len(full)
  BY <1>9
<1>11. buffer' = Without(full, Len(full))
  <2>1. Without(full, Len(full)) \in Seq(EntrySet) /\ Len(Without(full, Len(full))) = 0
    BY <1>9, <1>10, Split
  <2> QED BY <1>7, <2>1
<1>12. building_meta' \in Metas /\ gop_id' \in Nat /\ gop_id' >= gop_id
  BY <1>7, <1>8 DEF Metas
<1> DEFINE new == {}
           n == Len(full)
<1>13. new \cap S = {} /\ OnePlace(d, new, r) /\ S \cup new = S
  BY <1>5
<1>14. /\ n \in 0..Len(full) /\ buffer' = Without(full, n)
       /\ shown' = shown \o Received(Lowest(full, n))
  BY <1>7, <1>10, <1>11
<1> HIDE DEF new, n
<1>15. DecoderInv(S \cup new)'
  BY <1>6, <1>7, <1>12, <1>13, <1>14, EmittingCall
<1> QED BY <1>13, <1>15

-----------------------------------------------------------------------------
(* The stream.                                                             *)

(* A sequence that is not empty has a last element.                        *)
LEMMA LastElement ==
    ASSUME NEW T, NEW s \in Seq(T), s # <<>>
    PROVE  Len(s) \in DOMAIN s /\ s[Len(s)] \in T
<1>1. Len(s) > 0
  OBVIOUS
<1> QED BY <1>1

(* The first slice of a frame is new, whichever kind the frame is.         *)
LEMMA FrameSent ==
    ASSUME StreamTypes, UpToCursor, NEW idr \in BOOLEAN, NEW kind \in Kinds,
           NEW poc \in Pocs \cup {0}, SendFrame(idr, kind, poc),
           NEW slice, slice = Slice(FrameNumber + 1, cur'.part, 0)
    PROVE  /\ StreamTypes' /\ UpToCursor'
           /\ slice \in SliceSet /\ slice \notin Sent /\ Sent' = Sent \cup {slice}
           /\ slice.frame = FrameNumber + 1
           /\ cur'.n = 0 /\ cur.done = FALSE /\ cur'.done = FALSE
           /\ Feed(idr, poc, slice)
<1> DEFINE number == FrameNumber + 1
           part == CASE kind \in {"frame", "reset"} -> 0 [] kind = "fields" -> 1
                     [] kind = "single" -> 3
           gop == IF idr \/ kind = "reset" \/ sent = <<>> THEN number ELSE sent[FrameNumber].gop
           place == [gop |-> gop, poc |-> IF kind = "reset" THEN 0 ELSE poc]
<1>1. /\ ~cur.done /\ FrameNumber < MaxFrames
      /\ sent' = Append(sent, place)
      /\ slices' = Append(slices, {Slice(number, part, 0)})
      /\ cur' = [cur EXCEPT !.part = part, !.n = 0, !.idr = idr, !.resized = FALSE]
      /\ Feed(idr, poc, Slice(number, part, 0))
  BY DEF SendFrame, Going
<1>2. part \in 0..3
  BY OrderedDecoderAssumption
<1>3. /\ sent \in Seq([gop : Nat, poc : Nat]) /\ slices \in Seq(SUBSET SliceSet)
      /\ Len(slices) = Len(sent) /\ Len(sent) <= MaxFrames /\ cur \in CurSet
      /\ MaxFrames \in Nat /\ MaxSlices \in Nat /\ MaxSlices > 0
      /\ FrameNumber = Len(sent)
  BY OrderedDecoderAssumption DEF StreamTypes, FrameNumber
<1>4. number \in 1..MaxFrames /\ number = Len(slices) + 1 /\ number \notin 1..Len(slices)
  BY <1>1, <1>3
<1>5. place \in [gop : Nat, poc : Nat]
  <2>1. poc \in Nat
    BY OrderedDecoderAssumption
  <2>2. sent # <<>> => sent[FrameNumber].gop \in Nat
    <3> SUFFICES ASSUME sent # <<>> PROVE sent[FrameNumber].gop \in Nat
      OBVIOUS
    <3>1. sent \in Seq([gop : Nat, poc : Nat])
      BY <1>3
    <3>2. sent[Len(sent)] \in [gop : Nat, poc : Nat]
      BY ONLY <3>1, sent # <<>>, LastElement
    <3> QED BY <1>3, <3>2
  <2>3. gop \in Nat
    BY <1>4, <2>2
  <2> HIDE DEF gop
  <2> QED BY <2>1, <2>3
<1> HIDE DEF part, place, number
<1>6. /\ cur' \in CurSet /\ cur'.part = part /\ cur'.n = 0 /\ cur'.done = cur.done
  <2>1. /\ cur' = [cur EXCEPT !.part = part, !.n = 0, !.idr = idr, !.resized = FALSE]
        /\ cur \in CurSet /\ 0 \in 0..MaxSlices - 1
    BY <1>1, <1>3
  <2> QED BY ONLY <1>2, <2>1, idr \in BOOLEAN DEF CurSet
<1>7. slice = Slice(number, part, 0) /\ slice.frame = number /\ slice.part = part /\ slice.n = 0
  BY <1>6 DEF Slice, number
<1>8. slice \in SliceSet
  BY <1>2, <1>3, <1>4, <1>7 DEF Slice, SliceSet
<1>9. /\ sent' \in Seq([gop : Nat, poc : Nat]) /\ Len(sent') = Len(sent) + 1
  BY ONLY <1>1, <1>3, <1>5
<1>10. /\ slices' \in Seq(SUBSET SliceSet) /\ Len(slices') = Len(slices) + 1
       /\ \A f \in 1..Len(slices) : slices'[f] = slices[f]
       /\ slices'[Len(slices) + 1] = {slice}
  <2>1. {slice} \in SUBSET SliceSet /\ slices' = Append(slices, {slice})
    BY <1>1, <1>7, <1>8
  <2> QED BY ONLY <1>3, <2>1
<1>11. DOMAIN slices = 1..Len(slices) /\ DOMAIN slices' = 1..Len(slices) + 1
       /\ Len(slices) \in Nat
  BY ONLY <1>3, <1>10
<1>12. StreamTypes'
  BY <1>1, <1>3, <1>6, <1>9, <1>10 DEF StreamTypes, FrameNumber
<1>13. slice \notin Sent
  BY <1>4, <1>7, <1>11 DEF UpToCursor, Sent
<1>14. Sent' = Sent \cup {slice}
  BY <1>10, <1>11 DEF Sent
<1>15. UpToCursor'
  <2> SUFFICES ASSUME NEW f \in DOMAIN slices', NEW s \in slices'[f]
               PROVE  /\ s.frame = f
                      /\ f = Len(sent)' => \/ s.part < cur'.part
                                           \/ s.part = cur'.part /\ s.n <= cur'.n
    BY DEF UpToCursor
  <2>1. CASE f \in 1..Len(slices)
    <3>1. s \in slices[f] /\ f # Len(sent') /\ f \in DOMAIN slices
      BY <1>3, <1>9, <1>10, <1>11, <2>1
    <3> QED BY <3>1 DEF UpToCursor
  <2>2. CASE f = Len(slices) + 1
    <3>1. s = slice
      BY <1>10, <2>2
    <3> QED BY <1>4, <1>6, <1>7, <2>2, <3>1
  <2> QED BY <1>11, <2>1, <2>2
<1>16. cur.done = FALSE /\ cur'.done = FALSE
  BY <1>1, <1>3, <1>6 DEF CurSet
<1> QED BY <1>1, <1>6, <1>7, <1>8, <1>12, <1>13, <1>14, <1>15, <1>16 DEF number

(* Another slice of the last frame is new: it lies beyond the cursor.      *)
LEMMA SliceSent ==
    ASSUME StreamTypes, UpToCursor, NEW part \in 0..3, NEW n \in 0..MaxSlices - 1,
           SendSlice(part, n), NEW slice, slice = Slice(FrameNumber, part, n)
    PROVE  /\ StreamTypes' /\ UpToCursor'
           /\ slice \in SliceSet /\ slice \notin Sent /\ Sent' = Sent \cup {slice}
           /\ slice.frame = FrameNumber /\ slice.part = part /\ slice.n = n
           /\ cur'.part = part /\ cur'.n = n /\ cur.done = FALSE /\ cur'.done = FALSE
           /\ FrameNumber' = FrameNumber
           /\ Feed(cur.idr, sent[FrameNumber].poc, slice)
<1>1. /\ ~cur.done /\ sent # <<>>
      /\ \/ part = cur.part /\ n = cur.n + 1
         \/ cur.part = 1 /\ part = 2 /\ n = 0
      /\ slices' = [slices EXCEPT ![FrameNumber] = slices[FrameNumber] \cup {slice}]
      /\ cur' = [cur EXCEPT !.part = part, !.n = n]
      /\ UNCHANGED sent
      /\ Feed(cur.idr, sent[FrameNumber].poc, slice)
  BY DEF SendSlice, Going
<1>2. /\ sent \in Seq([gop : Nat, poc : Nat]) /\ slices \in Seq(SUBSET SliceSet)
      /\ Len(slices) = Len(sent) /\ Len(sent) <= MaxFrames /\ cur \in CurSet
      /\ MaxFrames \in Nat /\ MaxSlices \in Nat /\ MaxSlices > 0
      /\ FrameNumber = Len(sent)
  BY OrderedDecoderAssumption DEF StreamTypes, FrameNumber
<1>3. FrameNumber \in 1..MaxFrames /\ FrameNumber \in DOMAIN slices
  <2>1. Len(sent) > 0
    BY ONLY <1>1, <1>2
  <2> QED BY <1>2, <2>1
<1>4. /\ cur' \in CurSet /\ cur'.part = part /\ cur'.n = n /\ cur'.done = cur.done
      /\ cur.part \in 0..3 /\ cur.n \in 0..MaxSlices - 1 /\ cur.done = FALSE
  BY <1>1, <1>2 DEF CurSet
<1>5. slice \in SliceSet /\ slice.frame = FrameNumber /\ slice.part = part /\ slice.n = n
  BY <1>3 DEF Slice, SliceSet
<1>6. \A s \in slices[FrameNumber] :
         /\ s.part \in Int /\ s.n \in Int
         /\ s.part < part \/ (s.part = part /\ s.n < n)
  <2> SUFFICES ASSUME NEW s \in slices[FrameNumber]
               PROVE  /\ s.part \in Int /\ s.n \in Int
                      /\ s.part < part \/ (s.part = part /\ s.n < n)
    OBVIOUS
  <2>1. s \in SliceSet
    BY <1>2, <1>3
  <2>2. s.part \in Nat /\ s.n \in Nat
    BY <2>1 DEF SliceSet
  <2>3. s.part < cur.part \/ (s.part = cur.part /\ s.n <= cur.n)
    BY <1>2, <1>3 DEF UpToCursor
  <2> QED BY <1>1, <1>4, <2>2, <2>3
<1>7. slice \notin Sent
  <2> SUFFICES ASSUME NEW f \in DOMAIN slices, slice \in slices[f] PROVE FALSE
    BY DEF Sent
  <2>1. f = FrameNumber
    BY <1>5 DEF UpToCursor
  <2> QED BY <1>5, <1>6, <2>1
<1>8. /\ DOMAIN slices' = DOMAIN slices
      /\ slices'[FrameNumber] = slices[FrameNumber] \cup {slice}
      /\ \A f \in DOMAIN slices : f # FrameNumber => slices'[f] = slices[f]
  BY <1>1, <1>2, <1>3
<1>9. slices' \in Seq(SUBSET SliceSet) /\ Len(slices') = Len(slices)
  <2>1. slices[FrameNumber] \cup {slice} \in SUBSET SliceSet
    BY <1>2, <1>3, <1>5
  <2> QED BY ONLY <1>1, <1>2, <1>3, <2>1
<1>10. Sent' = Sent \cup {slice}
  BY <1>3, <1>8 DEF Sent
<1>11. StreamTypes'
  BY <1>1, <1>2, <1>4, <1>9 DEF StreamTypes
<1>12. UpToCursor'
  <2> SUFFICES ASSUME NEW f \in DOMAIN slices', NEW s \in slices'[f]
               PROVE  /\ s.frame = f
                      /\ f = Len(sent)' => \/ s.part < cur'.part
                                           \/ s.part = cur'.part /\ s.n <= cur'.n
    BY DEF UpToCursor
  <2>1. CASE f # FrameNumber
    <3>1. s \in slices[f] /\ f # Len(sent') /\ f \in DOMAIN slices
      BY <1>1, <1>2, <1>8, <2>1
    <3> QED BY <3>1 DEF UpToCursor
  <2>2. CASE f = FrameNumber
    <3>1. CASE s = slice
      BY <1>4, <1>5, <2>2, <3>1
    <3>2. CASE s \in slices[FrameNumber]
      <4>1. s.frame = FrameNumber
        BY <1>3, <3>2 DEF UpToCursor
      <4>2. s.part < part \/ (s.part = part /\ s.n <= n)
        BY <1>6, <3>2
      <4> QED BY <1>4, <2>2, <4>1, <4>2
    <3> QED BY <1>8, <2>2, <3>1, <3>2
  <2> QED BY <2>1, <2>2
<1>13. FrameNumber' = FrameNumber
  BY <1>1 DEF FrameNumber
<1> QED BY <1>1, <1>4, <1>5, <1>7, <1>10, <1>11, <1>12, <1>13

(* A NAL unit of the stream is one the decoder lemmas are about.           *)
LEMMA SliceNalIs ==
    ASSUME NEW idr, NEW poc \in Nat, NEW slice \in SliceSet, NEW o \in Outcomes
    PROVE  /\ SliceNal(idr, poc, slice, o) \in SliceNals
           /\ SliceNal(idr, poc, slice, o).slice = slice
           /\ SliceNal(idr, poc, slice, o).first_mb = IF o = "empty" THEN 0 ELSE slice.n
           /\ SliceNal(idr, poc, slice, o).outcome = o
<1>1. slice.n \in Nat /\ slice.part \in 0..3
  <2>1. slice.n \in 0..MaxSlices - 1 /\ slice.part \in 0..3
    BY DEF SliceSet
  <2> QED BY <2>1
<1> QED BY <1>1 DEF SliceNal, SliceNals, SliceTypes

(* A slice that is sent arrives, and is decoded or not, or it is lost.     *)
LEMMA FeedKeeps ==
    ASSUME NEW S, DecoderInv(S), MetaKept, NEW idr, NEW poc \in Nat, NEW slice \in SliceSet,
           slice \notin S, Feed(idr, poc, slice)
    PROVE  DecoderInv(S \cup {slice})' /\ MetaKept'
<1>1. CASE \E o \in Outcomes : DecodeNalWithMeta(SliceNal(idr, poc, slice, o), slice.frame)
  <2>1. PICK o \in Outcomes : DecodeNalWithMeta(SliceNal(idr, poc, slice, o), slice.frame)
    BY <1>1
  <2>2. PICK nal : nal = SliceNal(idr, poc, slice, o)
    OBVIOUS
  <2>3. nal \in SliceNals /\ nal.slice = slice
    BY <2>2, SliceNalIs
  <2>4. DecodeNalWithMeta(nal, nal.slice.frame)
    BY <2>1, <2>2, <2>3
  <2>5. DecoderInv(S \cup {nal.slice})' /\ MetaKept'
    BY <2>3, <2>4, SliceCall
  <2> QED BY <2>3, <2>5
<1>2. CASE UNCHANGED decoderVars
  <2>1. UNCHANGED <<d, buffer, building_meta, gop_id, shown>>
    BY <1>2 DEF decoderVars
  <2>2. MetaKept' /\ DecoderTypes' /\ MetaPresent'
    BY <2>1 DEF MetaKept, DecoderTypes, MetaPresent, Entries, Elements, DecoderInv
  <2>3. Pieces(shown', buffer') = Pieces(shown, buffer) /\ d' = d
    BY <2>1
  <2>4. HeldIn(S \cup {slice})'
    BY <2>3 DEF HeldIn, DecoderInv
  <2>5. NoSliceTwice'
    BY <2>3 DEF NoSliceTwice, DecoderInv
  <2> QED BY <2>2, <2>4, <2>5 DEF DecoderInv
<1> QED BY <1>1, <1>2 DEF Feed

-----------------------------------------------------------------------------
(* The invariant.                                                          *)

LEMMA InitHolds == Init => IInv
<1> SUFFICES ASSUME Init PROVE IInv
  OBVIOUS
<1>1. /\ d = NewDecoder /\ buffer = <<>> /\ shown = <<>> /\ sent = <<>> /\ slices = <<>>
      /\ building_meta = None /\ gop_id = 0
      /\ cur = [part |-> 0, n |-> 0, idr |-> FALSE, resized |-> FALSE, pps |-> FALSE,
                done |-> FALSE]
  BY DEF Init
<1>2. d \in DecoderSet /\ d.pending = None /\ d.pending_field = None
  <2>1. <<>> \in SpsTables /\ <<>> \in PpsTables
    <3>1. <<>> \in [{} -> Sizes] /\ <<>> \in [{} -> {0}]
      OBVIOUS
    <3> QED BY <3>1 DEF SpsTables, PpsTables
  <2> QED BY <1>1, <2>1 DEF NewDecoder, DecoderSet
<1>3. DecoderTypes
  BY <1>1, <1>2 DEF DecoderTypes, Metas
<1>4. StreamTypes
  <2>1. 0 \in 0..MaxSlices - 1 /\ 0 <= MaxFrames
    BY OrderedDecoderAssumption
  <2> QED BY <1>1, <2>1 DEF StreamTypes, CurSet
<1>5. UpToCursor
  BY <1>1 DEF UpToCursor
<1>6. Pieces(shown, buffer) = <<>> /\ SlicesIn(d.pending) = {} /\ SlicesIn(d.pending_field) = {}
  BY <1>1, <1>2 DEF Pieces, SlicesIn
<1>7. HeldIn(Sent)
  BY <1>6 DEF HeldIn
<1>8. MetaKept
  BY <1>2 DEF MetaKept
<1>9. MetaPresent
  BY <1>1 DEF MetaPresent, Entries, Elements
<1>10. NoSliceTwice
  BY <1>6 DEF NoSliceTwice
<1> QED BY <1>3, <1>4, <1>5, <1>7, <1>8, <1>9, <1>10 DEF IInv

LEMMA StepKeeps == IInv /\ [Next]_vars => IInv'
<1> SUFFICES ASSUME IInv, [Next]_vars PROVE IInv'
  OBVIOUS
<1>1. PICK S : S = Sent
  OBVIOUS
<1>2. DecoderInv(S) /\ StreamTypes /\ UpToCursor /\ (~cur.done => MetaKept)
  BY <1>1 DEF IInv, DecoderInv
\* What is left to show of an action of the stream.
<1>3. ASSUME NEW T, DecoderInv(T)', T = Sent', StreamTypes', UpToCursor',
             (~cur.done => MetaKept)'
      PROVE  IInv'
  BY <1>3 DEF IInv, DecoderInv
<1>4. ASSUME NEW idr \in BOOLEAN, NEW kind \in Kinds, NEW poc \in Pocs \cup {0},
             SendFrame(idr, kind, poc)
      PROVE  IInv'
  <2>1. PICK slice : slice = Slice(FrameNumber + 1, cur'.part, 0)
    OBVIOUS
  <2>2. /\ StreamTypes' /\ UpToCursor'
        /\ slice \in SliceSet /\ slice \notin Sent /\ Sent' = Sent \cup {slice}
        /\ cur.done = FALSE /\ cur'.done = FALSE /\ Feed(idr, poc, slice)
    BY <1>2, <1>4, <2>1, FrameSent
  <2>3. poc \in Nat
    BY OrderedDecoderAssumption
  <2>4. DecoderInv(S \cup {slice})' /\ MetaKept'
    BY <1>1, <1>2, <2>2, <2>3, FeedKeeps
  <2>5. S \cup {slice} = Sent'
    BY <1>1, <2>2
  <2> QED BY <1>3, <2>2, <2>4, <2>5
<1>5. ASSUME NEW part \in 0..3, NEW n \in 0..MaxSlices - 1, SendSlice(part, n)
      PROVE  IInv'
  <2>1. PICK slice : slice = Slice(FrameNumber, part, n)
    OBVIOUS
  <2>2. /\ StreamTypes' /\ UpToCursor'
        /\ slice \in SliceSet /\ slice \notin Sent /\ Sent' = Sent \cup {slice}
        /\ cur.done = FALSE /\ cur'.done = FALSE
        /\ Feed(cur.idr, sent[FrameNumber].poc, slice)
    BY <1>2, <1>5, <2>1, SliceSent
  <2>3. sent[FrameNumber].poc \in Nat
    <3>1. sent \in Seq([gop : Nat, poc : Nat]) /\ sent # <<>>
      BY <1>2, <1>5 DEF StreamTypes, SendSlice
    <3>2. sent[Len(sent)] \in [gop : Nat, poc : Nat]
      BY ONLY <3>1, LastElement
    <3> QED BY <3>2 DEF FrameNumber
  <2>4. DecoderInv(S \cup {slice})' /\ MetaKept'
    <3>1. PICK idr, poc : idr = cur.idr /\ poc = sent[FrameNumber].poc
      OBVIOUS
    <3> QED BY <1>1, <1>2, <2>2, <2>3, <3>1, FeedKeeps
  <2>5. S \cup {slice} = Sent'
    BY <1>1, <2>2
  <2> QED BY <1>3, <2>2, <2>4, <2>5
\* The actions that send no slice.
<1>6. ASSUME UNCHANGED <<sent, slices>>, cur' \in CurSet, cur'.part = cur.part, cur'.n = cur.n
      PROVE  StreamTypes' /\ UpToCursor' /\ Sent' = Sent
  BY <1>2, <1>6 DEF StreamTypes, UpToCursor, Sent
<1>7. cur \in CurSet
  BY <1>2 DEF StreamTypes
<1>8. ASSUME NEW size \in Sizes, SendSps(size) PROVE IInv'
  <2> DEFINE nal == [type |-> "Sps", id |-> 0, size |-> size, outcome |-> "ok"]
  <2>1. /\ ~cur.done /\ DecodeNalWithMeta(nal, None)
        /\ cur' = [cur EXCEPT !.resized = sent # <<>>] /\ UNCHANGED <<sent, slices>>
    BY <1>8 DEF SendSps, Going
  <2>2. cur' \in CurSet /\ cur'.part = cur.part /\ cur'.n = cur.n
    BY <1>7, <2>1 DEF CurSet
  <2>3. nal.type = "Sps" /\ nal.id = 0 /\ nal.size \in Sizes /\ nal.type \notin SliceTypes
    BY DEF SliceTypes
  <2> HIDE DEF nal
  <2>4. DecoderInv(S)' /\ MetaKept'
    BY <1>2, <2>1, <2>3, OtherCall
  <2> QED BY <1>1, <1>3, <1>6, <2>1, <2>2, <2>4
<1>9. ASSUME SendPps PROVE IInv'
  <2> DEFINE nal == [type |-> "Pps", id |-> 0, sps |-> 0, outcome |-> "ok"]
  <2>1. /\ ~cur.done /\ DecodeNalWithMeta(nal, None)
        /\ cur' = [cur EXCEPT !.pps = TRUE] /\ UNCHANGED <<sent, slices>>
    BY <1>9 DEF SendPps, Going
  <2>2. cur' \in CurSet /\ cur'.part = cur.part /\ cur'.n = cur.n
    BY <1>7, <2>1 DEF CurSet
  <2>3. nal.type = "Pps" /\ nal.id = 0 /\ nal.sps = 0 /\ nal.type \notin SliceTypes
    BY DEF SliceTypes
  <2> HIDE DEF nal
  <2>4. DecoderInv(S)' /\ MetaKept'
    BY <1>2, <2>1, <2>3, OtherCall
  <2> QED BY <1>1, <1>3, <1>6, <2>1, <2>2, <2>4
<1>10. ASSUME NEW type \in {"Sei", "Sps", "Pps"}, SendOther(type) PROVE IInv'
  <2> DEFINE nal == [type |-> type, outcome |-> "bad"]
  <2>1. /\ ~cur.done /\ DecodeNalWithMeta(nal, None)
        /\ cur' = cur /\ UNCHANGED <<sent, slices>>
    BY <1>10 DEF SendOther, Going
  <2>2. nal.outcome = "bad" /\ nal.type \notin SliceTypes
    BY DEF SliceTypes
  <2> HIDE DEF nal
  <2>3. DecoderInv(S)' /\ MetaKept'
    BY <1>2, <2>1, <2>2, OtherCall
  <2> QED BY <1>1, <1>3, <1>6, <1>7, <2>1, <2>3
<1>11. ASSUME End PROVE IInv'
  <2>1. /\ ~cur.done /\ FlushWithMeta
        /\ cur' = [cur EXCEPT !.done = TRUE] /\ UNCHANGED <<sent, slices>>
    BY <1>11 DEF End, Going
  <2>2. cur' \in CurSet /\ cur'.part = cur.part /\ cur'.n = cur.n /\ cur'.done = TRUE
    BY <1>7, <2>1 DEF CurSet
  <2>3. DecoderInv(S)'
    BY <1>2, <2>1, FlushCall
  <2> QED BY <1>1, <1>3, <1>6, <2>1, <2>2, <2>3
<1>12. ASSUME UNCHANGED vars PROVE IInv'
  <2>1. /\ UNCHANGED <<d, buffer, building_meta, gop_id, shown>>
        /\ UNCHANGED <<sent, slices>> /\ cur' = cur
    BY <1>12 DEF vars
  <2>2. DecoderInv(S)' /\ (~cur.done => MetaKept)'
    BY <1>2, <2>1 DEF MetaKept, DecoderTypes, MetaPresent, Entries, Elements, DecoderInv,
                      HeldIn, NoSliceTwice
  <2> QED BY <1>1, <1>3, <1>6, <1>7, <2>1, <2>2
<1> QED BY <1>4, <1>5, <1>8, <1>9, <1>10, <1>11, <1>12 DEF Next

(* The inductive invariant holds in every reachable state.                 *)
THEOREM Invariance == Spec => []IInv
BY InitHolds, StepKeeps, PTL DEF Spec

(* The state is what its declarations say, whatever arrives: a picture      *)
(* under construction is never without slices, a field that waits is a     *)
(* frame to be, entries of the buffer belong to GOPs that have begun.      *)
THEOREM TypeCorrect == Spec => []TypeOK
<1>1. IInv => TypeOK
  <2> SUFFICES ASSUME IInv PROVE TypeOK
    OBVIOUS
  <2>1. /\ d \in DecoderSet
        /\ buffer \in Seq(EntrySet) /\ shown \in Seq(ShownSet)
        /\ \A i \in DOMAIN buffer : buffer[i].gop <= gop_id
        /\ building_meta \in Metas
    BY DEF IInv, DecoderTypes
  <2>2. /\ d.pending \in PendingSet \cup {None} /\ d.pending_field \in Frames \cup {None}
        /\ d.panicked \in BOOLEAN
    BY <2>1 DEF DecoderSet
  <2>3. \A e \in Elements(buffer) : e \in EntrySet /\ e.gop <= gop_id
    BY <2>1 DEF Elements
  <2>4. \A e \in Elements(shown) : e \in ShownSet
    BY <2>1 DEF Elements
  <2>5. \A e \in Entries : e.frame \in Frames /\ e.meta \in Metas
    BY <2>3, <2>4 DEF Entries, EntrySet, ShownSet
  <2> QED BY <2>1, <2>2, <2>3, <2>5 DEF TypeOK
<1> QED BY Invariance, <1>1, PTL

(* No frame reaches the caller without metadata, whatever is lost or fails *)
(* to decode: expect_meta (decoder.rs:1408) never panics.                  *)
THEOREM MetaAlwaysPresent == Spec => []MetaPresent
<1>1. IInv => MetaPresent
  BY DEF IInv
<1> QED BY Invariance, <1>1, PTL

(* No slice is part of two frames, whatever is lost or fails to decode: the *)
(* backup that decode_nal restores (decoder.rs:225-246) never doubles a    *)
(* picture, and a field is combined once.                                  *)
THEOREM SlicesStayApart == Spec => []NoSliceTwice
<1>1. IInv => NoSliceTwice
  BY DEF IInv
<1> QED BY Invariance, <1>1, PTL

(* A slice that does not go into the pending picture leaves the decoder in  *)
(* the state before it, or with the pending picture finalized: decode_nal  *)
(* puts back what decode_slice took (decoder.rs:225-246).                  *)
LEMMA SliceRestores ==
    ASSUME NEW x \in DecoderSet, NEW nal \in SliceNals, NEW r, r = DecodeNal(x, nal),
           r.d.pending = None \/ nal.slice \notin r.d.pending.slices
    PROVE  r.d \in {x, FinalizePending(x).d}
<1>1. PICK p : p = Previous(x, nal)
  OBVIOUS
<1>2. r = DecodeSliceNal(x, nal)
  <2>1. nal.type \in {"Slice", "SliceIdr"}
    BY DEF SliceNals, SliceTypes
  <2> QED BY <2>1 DEF DecodeNal, SliceTypes
<1>3. Decoded(x, nal, p, r)
  BY <1>1, <1>2, SliceDecoded
<1>4. p.d = x \/ p.d = FinalizePending(x).d
  BY <1>1 DEF Previous
<1>5. ASSUME NEW q \in PendingSet, r.d = [p.d EXCEPT !.pending = q], nal.slice \in q.slices
      PROVE  FALSE
  <2>1. p.d \in DecoderSet
    BY <1>3 DEF Decoded
  <2>2. r.d.pending = q /\ q # None
    BY <1>5, <2>1, NoneAssumption DEF DecoderSet
  <2> QED BY <1>5, <2>2
<1>6. r.d = p.d
  BY <1>3, <1>5, Zenon DEF Decoded
<1> QED BY <1>4, <1>6

(* A slice that is not the first of its picture and fails leaves the       *)
(* decoder as it was, or with the pending picture finalized.               *)
THEOREM ContinuationsRestore == Spec => FailedContinuationRestores
<1>1. IInv /\ [Next]_vars =>
         [LET slice == Slice(FrameNumber', cur'.part, cur'.n)
          IN  /\ d.pending # None /\ slices' # slices /\ cur'.n > 0
              /\ d'.pending = None \/ slice \notin d'.pending.slices
              => d' \in {d, FinalizePending(d).d}]_vars
  <2> DEFINE slice == Slice(FrameNumber', cur'.part, cur'.n)
  <2> SUFFICES ASSUME IInv, Next, slices' # slices, cur'.n > 0,
                      d'.pending = None \/ slice \notin d'.pending.slices
               PROVE  d' \in {d, FinalizePending(d).d}
    OBVIOUS
  <2>1. d \in DecoderSet /\ StreamTypes /\ UpToCursor
    BY DEF IInv, DecoderTypes
  <2>2. ASSUME NEW idr \in BOOLEAN, NEW kind \in Kinds, NEW poc \in Pocs \cup {0},
               SendFrame(idr, kind, poc)
        PROVE  FALSE
    <3>1. PICK s : s = Slice(FrameNumber + 1, cur'.part, 0)
      OBVIOUS
    <3>2. cur'.n = 0
      BY <2>1, <2>2, <3>1, FrameSent
    <3> QED BY <3>2
  <2>3. ASSUME NEW part \in 0..3, NEW n \in 0..MaxSlices - 1, SendSlice(part, n)
        PROVE  d' \in {d, FinalizePending(d).d}
    <3>1. PICK s : s = Slice(FrameNumber, part, n)
      OBVIOUS
    <3>2. /\ s \in SliceSet /\ cur'.part = part /\ cur'.n = n /\ FrameNumber' = FrameNumber
          /\ Feed(cur.idr, sent[FrameNumber].poc, s)
      BY <2>1, <2>3, <3>1, SliceSent
    <3>3. slice = s
      BY <3>1, <3>2
    <3>4. sent[FrameNumber].poc \in Nat
      <4>1. sent \in Seq([gop : Nat, poc : Nat]) /\ sent # <<>>
        BY <2>1, <2>3 DEF StreamTypes, SendSlice
      <4>2. sent[Len(sent)] \in [gop : Nat, poc : Nat]
        BY ONLY <4>1, LastElement
      <4> QED BY <4>2 DEF FrameNumber
    <3> HIDE DEF slice
    <3>5. CASE UNCHANGED decoderVars
      BY <3>5 DEF decoderVars
    <3>6. ASSUME NEW o \in Outcomes,
                 DecodeNalWithMeta(SliceNal(cur.idr, sent[FrameNumber].poc, s, o), s.frame)
          PROVE  d' \in {d, FinalizePending(d).d}
      <4>1. PICK nal : nal = SliceNal(cur.idr, sent[FrameNumber].poc, s, o)
        OBVIOUS
      <4>2. nal \in SliceNals /\ nal.slice = s
        BY <3>2, <3>4, <4>1, SliceNalIs
      <4>3. PICK r : r = DecodeNal(d, nal)
        OBVIOUS
      <4>4. d' = r.d
        BY <3>6, <4>1, <4>3 DEF DecodeNalWithMeta
      <4>5. r.d.pending = None \/ nal.slice \notin r.d.pending.slices
        BY <3>3, <4>2, <4>4
      <4> QED BY <2>1, <4>2, <4>3, <4>4, <4>5, SliceRestores
    <3> QED BY <3>2, <3>5, <3>6 DEF Feed
  <2>4. ASSUME NEW size \in Sizes, SendSps(size) PROVE FALSE
    BY <2>4 DEF SendSps
  <2>5. ASSUME SendPps PROVE FALSE
    BY <2>5 DEF SendPps
  <2>6. ASSUME NEW type \in {"Sei", "Sps", "Pps"}, SendOther(type) PROVE FALSE
    BY <2>6 DEF SendOther
  <2>7. ASSUME End PROVE FALSE
    BY <2>7 DEF End
  <2> QED BY <2>2, <2>3, <2>4, <2>5, <2>6, <2>7 DEF Next
<1> QED BY Invariance, <1>1, PTL DEF Spec, FailedContinuationRestores

-----------------------------------------------------------------------------
(* On a stream of frames and pairs of fields of which nothing is lost and   *)
(* everything decodes, what the decoder promises its caller.               *)

Clean == Loss = "none" /\ Outcomes = {"ok"} /\ Kinds \subseteq {"frame", "fields"}

-----------------------------------------------------------------------------
(* The decoder.                                                            *)

\* The decoder x is at picture `part` of a frame with that POC, of which it
\* has got the slices S.
Building(x, part, S, poc) ==
    /\ x.pending # None
    /\ x.pending.field_pic_flag <=> part # 0
    /\ part # 2 => /\ x.pending_field = None
                   /\ x.pending.slices = S /\ x.pending.frame_poc = poc
    /\ part # 0 => x.pending.height = x.pending.frame_height \div 2
    /\ part = 2 => /\ x.pending_field.width = x.pending.width
                   /\ x.pending_field.height = x.pending.height
    /\ part = 2 => /\ x.pending_field # None /\ x.pending_field.slices # {}
                   /\ x.pending_field.slices \cup x.pending.slices = S
                   /\ x.pending_field.poc = poc /\ x.pending.frame_poc = poc + 1

\* What the decoder holds has the size that the active SPS gives it.
Sized(x) ==
    LET sps == ActiveSps(x)
    IN  /\ x.pending.width = sps.width /\ x.pending.frame_height = sps.height
        /\ x.pending.height = PictureHeight(sps, x.pending.field_pic_flag)
        /\ x.pending.total_mbs = TotalMbs(sps, x.pending.field_pic_flag)

\* The parameter sets are there.
Tables(x) == DOMAIN x.sps_table = {0} /\ DOMAIN x.pps_table = {0}

\* The decoder x with nothing pending.
Cleared(x) == [x EXCEPT !.pending = None, !.pending_field = None]

(* The fields of a decoder, one replaced after the other or both at once.  *)
LEMMA Replaced ==
    ASSUME NEW x \in DecoderSet, NEW p, NEW f
    PROVE  /\ [[x EXCEPT !.pending = p] EXCEPT !.pending_field = f] =
                [x EXCEPT !.pending = p, !.pending_field = f]
           /\ x.pending_field = f =>
                [x EXCEPT !.pending = p] = [x EXCEPT !.pending = p, !.pending_field = f]
           /\ [x EXCEPT !.pending = p, !.pending_field = f].pending = p
           /\ [x EXCEPT !.pending = p, !.pending_field = f].pending_field = f
           /\ p \in PendingSet \cup {None} /\ f \in Frames \cup {None} =>
                [x EXCEPT !.pending = p, !.pending_field = f] \in DecoderSet
<1>1. PICK s, t, u, v, b :
         x = [sps_table |-> s, pps_table |-> t, pending |-> u, pending_field |-> v,
              panicked |-> b]
  BY DEF DecoderSet
<1> DEFINE z == [sps_table |-> s, pps_table |-> t, pending |-> p, pending_field |-> f, panicked |-> b]
<1>2. [x EXCEPT !.pending = p] =
         [sps_table |-> s, pps_table |-> t, pending |-> p, pending_field |-> v, panicked |-> b]
  BY <1>1
<1>w. PICK w : w = [x EXCEPT !.pending = p]
  OBVIOUS
<1>3. [w EXCEPT !.pending_field = f] = z
  <2>1. w = [sps_table |-> s, pps_table |-> t, pending |-> p, pending_field |-> v, panicked |-> b]
    BY <1>2, <1>w
  <2> QED BY ONLY <2>1
<1>4. [[x EXCEPT !.pending = p] EXCEPT !.pending_field = f] = z
  BY <1>3, <1>w
<1>8. [x EXCEPT !.pending = p, !.pending_field = f] = z
  <2>1. [[x EXCEPT !.pending = p] EXCEPT !.pending_field = f] =
           [x EXCEPT !.pending = p, !.pending_field = f]
    BY ONLY <1>1
  <2> QED BY <2>1, <1>4
<1>5. z.pending = p /\ z.pending_field = f /\ x.pending_field = v
  BY <1>1
<1>6. p \in PendingSet \cup {None} /\ f \in Frames \cup {None} => z \in DecoderSet
  <2>1. s \in SpsTables /\ t \in PpsTables /\ b \in BOOLEAN
    BY <1>1 DEF DecoderSet
  <2> QED BY <2>1 DEF DecoderSet
<1>7. x.pending_field = f => [x EXCEPT !.pending = p] = z
  BY <1>2, <1>5
<1> HIDE DEF z
<1> QED BY <1>4, <1>5, <1>6, <1>7, <1>8

(* A decoder with nothing pending keeps its parameter sets.                *)
LEMMA ClearedIs ==
    ASSUME NEW x \in DecoderSet, NEW y, y = Cleared(x)
    PROVE  /\ y \in DecoderSet /\ y.pending = None /\ y.pending_field = None
           /\ y.sps_table = x.sps_table /\ y.pps_table = x.pps_table
           /\ y.panicked = x.panicked
<1>1. PICK s, t, u, v, b :
         x = [sps_table |-> s, pps_table |-> t, pending |-> u, pending_field |-> v,
              panicked |-> b]
  BY DEF DecoderSet
<1>2. PICK w : w = [x EXCEPT !.pending = None]
  OBVIOUS
<1>3. w = [sps_table |-> s, pps_table |-> t, pending |-> None, pending_field |-> v, panicked |-> b]
  BY ONLY <1>1, <1>2
<1>4. [w EXCEPT !.pending_field = None] =
         [sps_table |-> s, pps_table |-> t, pending |-> None, pending_field |-> None, panicked |-> b]
  BY ONLY <1>3
<1>5. y = [w EXCEPT !.pending_field = None]
  BY <1>2, Replaced DEF Cleared
<1>6. /\ s \in SpsTables /\ t \in PpsTables /\ b \in BOOLEAN
      /\ s = x.sps_table /\ t = x.pps_table /\ b = x.panicked
  BY <1>1 DEF DecoderSet
<1>7. y = [sps_table |-> s, pps_table |-> t, pending |-> None, pending_field |-> None, panicked |-> b]
  BY ONLY <1>4, <1>5
<1> QED BY <1>6, <1>7 DEF DecoderSet

(* The two halves of a frame fill it: no row of it is out of a field's      *)
(* range (decoder.rs:447-481).                                             *)
LEMMA HalfCovers ==
    ASSUME NEW field, NEW w \in Nat, NEW h \in Nat, field.width = w, field.height = h \div 2
    PROVE  Covers(field, w, h)
<1>1. PICK half, a, b : half = h \div 2 /\ a = h \div 4 /\ b = half \div 2
  OBVIOUS
<1>2. half \in Nat /\ a = b
  BY <1>1
<1>3. PICK u, m, n : u = w \div 2 /\ m = w * half /\ n = u * b
  OBVIOUS
<1>4. u \in Nat /\ b \in Nat
  BY <1>1, <1>3
<1>5. m \in Int /\ n \in Int
  <2>1. \A i, j \in Nat : i * j \in Nat
    OBVIOUS
  <2> QED BY <1>2, <1>3, <1>4, <2>1
<1>6. /\ w * (h \div 2) = m /\ field.width * field.height = m
      /\ (w \div 2) * (h \div 4) = n /\ (field.width \div 2) * (field.height \div 2) = n
  BY ONLY <1>1, <1>2, <1>3, field.width = w, field.height = h \div 2, Zenon
<1>7. m <= m /\ n <= n
  BY ONLY <1>5
<1> QED BY <1>6, <1>7 DEF Covers

(* A frame, or the second field of a pair, leaves finalize_pending as a     *)
(* frame with all slices and the lower of the two order counts             *)
(* (decoder.rs:283-499).                                                   *)
LEMMA WholeFinalized ==
    ASSUME NEW x \in DecoderSet, NEW part \in {0, 2}, NEW S, NEW poc \in Nat,
           Building(x, part, S, poc), NEW f, f = FinalizePending(x)
    PROVE  /\ f.d = Cleared(x) /\ f.frame \in Frames /\ f.frame # None
           /\ f.frame.slices = S /\ f.frame.poc = poc
<1> DEFINE taken == [x EXCEPT !.pending = None]
           frame == FrameOf(x.pending)
<1>1. x.pending \in PendingSet /\ x.pending_field \in Frames \cup {None} /\ x.pending # None
  BY DEF DecoderSet, Building
<1>2. /\ frame \in Frames /\ frame.slices = x.pending.slices /\ frame.poc = x.pending.frame_poc
      /\ frame.width = x.pending.width /\ frame.height = x.pending.height
  BY <1>1 DEF PendingSet, Frames, FrameOf
<1>4. CASE part = 0
  <2>1. /\ ~x.pending.field_pic_flag /\ x.pending_field = None
        /\ x.pending.slices = S /\ x.pending.frame_poc = poc
    BY <1>4 DEF Building
  <2>2. f = [d |-> taken, frame |-> frame]
    BY <1>1, <2>1 DEF FinalizePending
  <2>3. f.d = taken /\ f.frame = frame
    BY <2>2
  <2>4. taken = Cleared(x)
    BY <2>1, Replaced DEF Cleared
  <2> QED BY <1>2, <2>1, <2>3, <2>4, NoneAssumption
<1>5. CASE part = 2
  <2>1. /\ x.pending.field_pic_flag /\ x.pending_field # None
        /\ x.pending_field.slices \cup x.pending.slices = S
        /\ x.pending_field.poc = poc /\ x.pending.frame_poc = poc + 1
        /\ x.pending.height = x.pending.frame_height \div 2
        /\ x.pending_field.width = x.pending.width
        /\ x.pending_field.height = x.pending.height
    BY <1>5 DEF Building
  <2> DEFINE both == Combine(x.pending_field, frame, x.pending.frame_height)
  <2>9. x.pending.width \in Nat /\ x.pending.frame_height \in Nat
    BY <1>1 DEF PendingSet
  <2>10. \A field \in {x.pending_field, frame} :
            Covers(field, x.pending.width, x.pending.frame_height)
    BY <1>2, <2>1, <2>9, HalfCovers
  <2>2. f = [d |-> [taken EXCEPT !.pending_field = None], frame |-> both]
    BY <1>1, <2>1, <2>10 DEF FinalizePending
  <2>3. f.d = [taken EXCEPT !.pending_field = None] /\ f.frame = both
    BY <2>2
  <2>4. [taken EXCEPT !.pending_field = None] = Cleared(x)
    BY Replaced DEF Cleared
  <2>5. x.pending_field \in Frames
    BY <1>1, <2>1
  <2>6. ~(poc + 1 <= poc)
    OBVIOUS
  <2>7. both.slices = S /\ both.poc = poc
    BY <1>2, <2>1, <2>6 DEF Combine
  <2>8. both \in Frames
    <3>1. both = [poc |-> both.poc, width |-> frame.width, height |-> x.pending.frame_height,
                  slices |-> x.pending_field.slices \cup frame.slices]
      BY DEF Combine
    <3>2. x.pending_field.slices \in SUBSET SliceSet /\ frame.slices \in SUBSET SliceSet
      BY <1>2, <2>5 DEF Frames
    <3> QED BY <1>2, <2>7, <2>9, <3>1, <3>2 DEF Frames
  <2> QED BY <2>3, <2>4, <2>7, <2>8, NoneAssumption
<1> QED BY <1>4, <1>5

\* In the call p the decoder x puts a first field by.
PutsBy(x, p, S, poc) ==
    /\ p.frame = None /\ p.d \in DecoderSet
    /\ p.d.pending = None /\ p.d.pending_field # None
    /\ p.d.pending_field.slices = S /\ p.d.pending_field.poc = poc
    /\ p.d.pending_field.width = x.pending.width
    /\ p.d.pending_field.height = x.pending.height
    /\ p.d.sps_table = x.sps_table /\ p.d.pps_table = x.pps_table
    /\ p.d.panicked = x.panicked

(* The first field of a pair waits for the second one.                     *)
LEMMA FirstFieldHeld ==
    ASSUME NEW x \in DecoderSet, NEW S, NEW poc \in Nat,
           Building(x, 1, S, poc), NEW f, f = FinalizePending(x)
    PROVE  PutsBy(x, f, S, poc)
<1> DEFINE taken == [x EXCEPT !.pending = None]
           frame == FrameOf(x.pending)
<1>1. x.pending \in PendingSet /\ x.pending # None
  BY DEF DecoderSet, Building
<1>2. /\ x.pending.field_pic_flag /\ x.pending_field = None
      /\ x.pending.slices = S /\ x.pending.frame_poc = poc
  BY DEF Building
<1>3. /\ frame = [poc |-> poc, width |-> x.pending.width, height |-> x.pending.height,
                  slices |-> S]
      /\ frame \in Frames
  BY <1>1, <1>2 DEF FrameOf, PendingSet, Frames
<1>4. f = [d |-> [taken EXCEPT !.pending_field = frame], frame |-> None]
  BY <1>1, <1>2 DEF FinalizePending
<1>5. f.d = [taken EXCEPT !.pending_field = frame] /\ f.frame = None
  BY <1>4
<1>6. /\ frame.slices = S /\ frame.poc = poc /\ frame # None
      /\ frame.width = x.pending.width /\ frame.height = x.pending.height
  BY <1>3, NoneAssumption
<1> HIDE DEF frame
<1>7. taken \in DecoderSet /\ taken.sps_table = x.sps_table /\ taken.pps_table = x.pps_table
      /\ taken.pending = None /\ taken.panicked = x.panicked
  BY DEF DecoderSet
<1> HIDE DEF taken
<1>8. /\ f.d \in DecoderSet /\ f.d.pending = None /\ f.d.pending_field = frame
      /\ f.d.sps_table = x.sps_table /\ f.d.pps_table = x.pps_table
      /\ f.d.panicked = x.panicked
  BY <1>3, <1>5, <1>7 DEF DecoderSet
<1> QED BY <1>5, <1>6, <1>8 DEF PutsBy

\* The call r has started a picture where p, finalizing, left the decoder.
Started(p, nal, r) ==
    /\ r.d = [p.d EXCEPT !.pending = NewPicture(p.d, nal)] /\ NewPicture(p.d, nal) \in PendingSet
    /\ r.frame = p.frame

(* With the parameter sets there and nothing pending, a slice that decodes *)
(* starts a picture (decoder.rs:decode_slice).                             *)
LEMMA PictureStarts ==
    ASSUME NEW x \in DecoderSet, NEW nal \in SliceNals, nal.outcome = "ok", nal.first_mb = 0,
           NEW p, p = FinalizePending(x), p.d \in DecoderSet, p.d.pending = None, Tables(p.d),
           p.d.panicked = FALSE, NEW r, r = DecodeNal(x, nal)
    PROVE  Started(p, nal, r) /\ r.ok = TRUE
<1>1. r = DecodeSliceNal(x, nal)
  <2>1. nal.type \in {"Slice", "SliceIdr"}
    BY DEF SliceNals, SliceTypes
  <2> QED BY <2>1 DEF DecodeNal, SliceTypes
<1>2. HasParameterSets(p.d) /\ ActiveSps(p.d) \in Sizes
  <2>1. FirstPps(p.d) = p.d.pps_table[0]
    <3>1. (CHOOSE i \in {0} : \A j \in {0} : i <= j) = 0
      OBVIOUS
    <3> QED BY <3>1 DEF Tables, FirstPps
  <2>2. /\ \A i \in DOMAIN p.d.pps_table : p.d.pps_table[i] \in {0}
        /\ \A i \in DOMAIN p.d.sps_table : p.d.sps_table[i] \in Sizes
    BY TableValue DEF DecoderSet, PpsTables, SpsTables
  <2> QED BY <2>1, <2>2 DEF HasParameterSets, ActiveSps, Tables
<1>3. ~IsContinuation(p.d, nal)
  BY DEF IsContinuation
<1> DEFINE q == NewPicture(p.d, nal)
           s == DecodeSlice(p.d, nal)
<1>9. Previous(x, nal) = p
  BY DEF Previous
<1>4. s = [d |-> [p.d EXCEPT !.pending = q], ok |-> TRUE]
  BY <1>2, <1>3 DEF DecodeSlice
<1>5. s.d = [p.d EXCEPT !.pending = q] /\ s.ok = TRUE
  BY <1>4
<1>6. r = Ok(s.d, p.frame)
  BY <1>1, <1>5, <1>9 DEF DecodeSliceNal
<1>7. q \in PendingSet
  <2>1. nal.slice \in SliceSet /\ nal.poc \in Nat /\ nal.field_pic_flag \in BOOLEAN
    BY DEF SliceNals
  <2> QED BY <1>2, <2>1, PictureMade
<1> HIDE DEF q, s
<1>8. r.d = s.d /\ r.ok = TRUE /\ r.frame = p.frame
  BY ONLY <1>6 DEF Ok
<1> QED BY <1>5, <1>7, <1>8 DEF q, Started

\* The call has put the slice with the picture that is pending.
Continued(x, nal, r) ==
    /\ r.ok = TRUE /\ r.frame = None
    /\ r.d = [x EXCEPT !.pending = WithSlice(x, nal)]
    /\ WithSlice(x, nal) \in PendingSet

(* A slice that is not the first of its picture and decodes joins the      *)
(* picture that is pending, if the size is still the same.                 *)
LEMMA PictureGoesOn ==
    ASSUME NEW x \in DecoderSet, NEW nal \in SliceNals, nal.outcome = "ok", nal.first_mb > 0,
           Tables(x), x.pending # None, x.panicked = FALSE, Sized(x),
           x.pending.field_pic_flag <=> nal.field_pic_flag, NEW r, r = DecodeNal(x, nal)
    PROVE  Continued(x, nal, r)
<1>1. r = DecodeSliceNal(x, nal)
  <2>1. nal.type \in {"Slice", "SliceIdr"}
    BY DEF SliceNals, SliceTypes
  <2> QED BY <2>1 DEF DecodeNal, SliceTypes
<1>2. HasParameterSets(x)
  <2>1. FirstPps(x) = x.pps_table[0]
    <3>1. (CHOOSE i \in {0} : \A j \in {0} : i <= j) = 0
      OBVIOUS
    <3> QED BY <3>1 DEF Tables, FirstPps
  <2>2. \A i \in DOMAIN x.pps_table : x.pps_table[i] \in {0}
    BY TableValue DEF DecoderSet, PpsTables
  <2> QED BY <2>1, <2>2 DEF HasParameterSets, Tables
<1>9. x.pending \in PendingSet /\ nal.field_pic_flag = x.pending.field_pic_flag
  <2>1. x.pending \in PendingSet
    BY DEF DecoderSet
  <2>2. nal.field_pic_flag \in BOOLEAN /\ x.pending.field_pic_flag \in BOOLEAN
    BY <2>1 DEF PendingSet, SliceNals
  <2> QED BY <2>1, <2>2
<1>3. IsContinuation(x, nal)
  BY <1>9 DEF IsContinuation, Sized
<1> DEFINE q == WithSlice(x, nal)
           s == DecodeSlice(x, nal)
           p == [d |-> x, frame |-> None]
<1>4. s = [d |-> [x EXCEPT !.pending = q], ok |-> TRUE]
  BY <1>2, <1>3 DEF DecodeSlice
<1>5. s.d = [x EXCEPT !.pending = q] /\ s.ok = TRUE
  BY <1>4
<1>6. r = Ok(s.d, None)
  <2>1. p.d = x /\ p.frame = None /\ nal.first_mb # 0 /\ Previous(x, nal) = p
    BY DEF SliceNals, Previous
  <2> QED BY <1>1, <1>5, <2>1 DEF DecodeSliceNal
<1>7. q \in PendingSet
  <2>1. nal.slice \in SliceSet /\ nal.field_pic_flag \in BOOLEAN
    BY DEF SliceNals
  <2>2. ActiveSps(x).height = x.pending.frame_height
    BY DEF Sized
  <2> QED BY <1>9, <2>1, <2>2 DEF WithSlice, PendingSet
<1> HIDE DEF q, s
<1>8. r.d = s.d /\ r.ok = TRUE /\ r.frame = None
  BY ONLY <1>6 DEF Ok
<1> QED BY <1>5, <1>7, <1>8 DEF q, Continued

-----------------------------------------------------------------------------
(* Releasing entries in order.                                             *)

\* The caller gets what the entry holds.
Same(s, e) == s.frame = e.frame /\ s.meta = e.meta

\* Of the entries of `full` those behind the first a of out2 are the lowest,
\* in order.
Sorts(a, full, n, out2, left) ==
    /\ \A i, j \in 1..a + n : a < i /\ i < j =>
         \E u, v \in DOMAIN full : /\ Before(full, u, v)
                                   /\ Same(out2[i], full[u]) /\ Same(out2[j], full[v])
    /\ \A i \in 1..a + n, j \in DOMAIN left : a < i =>
         \E u, v \in DOMAIN full : /\ Before(full, u, v)
                                   /\ Same(out2[i], full[u]) /\ left[j] = full[v]

(* What a call releases comes by key, before all that stays                 *)
(* (decoder.rs:1378-1406).                                                 *)
LEMMA Sorted ==
    ASSUME NEW out \in Seq(ShownSet), NEW full \in Seq(EntrySet), NEW n \in 0..Len(full),
           NEW out2, out2 = out \o Received(Lowest(full, n)),
           NEW left, left = Without(full, n)
    PROVE  Sorts(Len(out), full, n, out2, left)
<1> DEFINE a == Len(out)
           b == Len(full)
<1>1. a \in Nat /\ b \in Nat /\ n \in Nat /\ n <= b /\ DOMAIN full = 1..b
  OBVIOUS
<1>2. PICK p \in [1..b -> 1..b] :
         /\ \A k, l \in 1..b : p[k] = p[l] => k = l
         /\ \A k \in 1..n : Lowest(full, n)[k] = full[p[k]] /\ Rank(full, p[k]) = k - 1
         /\ \A k \in 1..b - n : /\ Without(full, n)[k] = full[p[n + k]]
                                /\ Rank(full, p[n + k]) >= n
  BY Split
<1>3. \A k, l \in 1..b : k < l /\ k <= n => Before(full, p[k], p[l])
  <2> SUFFICES ASSUME NEW k \in 1..b, NEW l \in 1..b, k < l, k <= n
               PROVE  Before(full, p[k], p[l])
    OBVIOUS
  <2>1. p[k] \in DOMAIN full /\ p[l] \in DOMAIN full
    BY <1>1
  <2>2. Rank(full, p[k]) = k - 1
    BY <1>1, <1>2
  <2>3. Rank(full, p[l]) = l - 1 \/ Rank(full, p[l]) >= n
    <3>1. CASE l <= n
      BY <1>1, <1>2, <3>1
    <3>2. CASE ~(l <= n)
      <4>1. l - n \in 1..b - n /\ n + (l - n) = l
        BY ONLY <1>1, <3>2, l \in 1..b
      <4> QED BY <1>2, <4>1
    <3> QED BY <3>1, <3>2
  <2>4. Rank(full, p[l]) \in Int
    BY <1>1, <2>1, RankNumbers
  <2>5. ~(Rank(full, p[l]) < Rank(full, p[k])) /\ Rank(full, p[l]) # Rank(full, p[k])
    BY ONLY <1>1, <2>2, <2>3, <2>4, k \in 1..b, l \in 1..b, k < l, k <= n
  <2>6. ~Before(full, p[l], p[k]) /\ p[l] # p[k]
    BY <2>1, <2>5, RankNumbers
  <2> QED BY <2>1, <2>6, KeyOrders
<1>4. \A k \in 1..n : out2[a + k] = Received(Lowest(full, n))[k]
  <2> DEFINE rec == Received(Lowest(full, n))
  <2>1. Lowest(full, n) \in Seq(EntrySet) /\ Len(Lowest(full, n)) = n
    BY Split
  <2>2. rec = [k \in 1..n |-> [frame |-> Lowest(full, n)[k].frame,
                               meta |-> Lowest(full, n)[k].meta]]
    BY <2>1 DEF Received
  <2>3. \A k \in 1..n :
           [frame |-> Lowest(full, n)[k].frame, meta |-> Lowest(full, n)[k].meta] \in ShownSet
    <3>1. \A e \in EntrySet : [frame |-> e.frame, meta |-> e.meta] \in ShownSet
      BY DEF EntrySet, ShownSet
    <3>2. \A k \in 1..n : Lowest(full, n)[k] \in EntrySet
      BY <1>1, <2>1
    <3> QED BY <3>1, <3>2
  <2>4. rec \in Seq(ShownSet) /\ Len(rec) = n /\ out2 = out \o rec
    BY <1>1, <2>2, <2>3
  <2> HIDE DEF rec
  <2> SUFFICES ASSUME NEW k \in 1..n PROVE out2[a + k] = rec[k]
    BY DEF rec
  <2>5. a + k \in 1..a + n /\ ~(a + k <= a) /\ a + k - a = k
    BY ONLY <1>1, k \in 1..n
  <2>6. out2[a + k] = IF a + k <= a THEN out[a + k] ELSE rec[a + k - a]
    BY <2>4, <2>5
  <2> QED BY <2>5, <2>6
<1>5. \A k \in 1..n : Same(out2[a + k], full[p[k]])
  <2>1. Lowest(full, n) \in Seq(EntrySet) /\ Len(Lowest(full, n)) = n
    BY Split
  <2>2. \A k \in 1..n : Received(Lowest(full, n))[k] =
           [frame |-> Lowest(full, n)[k].frame, meta |-> Lowest(full, n)[k].meta]
    BY <2>1 DEF Received
  <2> SUFFICES ASSUME NEW k \in 1..n PROVE Same(out2[a + k], full[p[k]])
    OBVIOUS
  <2>3. out2[a + k] = [frame |-> full[p[k]].frame, meta |-> full[p[k]].meta]
    <3>1. PICK l : l = Lowest(full, n)
      OBVIOUS
    <3>2. l[k] = full[p[k]]
      BY <1>2, <3>1
    <3>3. out2[a + k] = [frame |-> l[k].frame, meta |-> l[k].meta]
      BY <1>4, <2>2, <3>1, Zenon
    <3> QED BY ONLY <3>2, <3>3
  <2> QED BY ONLY <2>3 DEF Same
<1>6. \A k \in 1..b - n : left[k] = full[p[n + k]]
  BY <1>2
<1>7. DOMAIN left = 1..b - n
  <2>1. left \in Seq(EntrySet) /\ Len(left) = b - n
    BY Split
  <2> QED BY <2>1
<1>8. \A i \in 1..a + n : a < i => i - a \in 1..n /\ i - a \in 1..b /\ i - a <= n /\ a + (i - a) = i
  BY <1>1
<1>9. \A k \in 1..b - n : n + k \in 1..b /\ \A i \in 1..n : i < n + k
  BY <1>1
<1> HIDE DEF a, b
<1>10. ASSUME NEW i \in 1..a + n, NEW j \in 1..a + n, a < i, i < j
       PROVE  \E u, v \in DOMAIN full : /\ Before(full, u, v)
                                        /\ Same(out2[i], full[u]) /\ Same(out2[j], full[v])
  <2>1. a < j /\ i - a < j - a
    BY ONLY <1>1, <1>10
  <2>2. Before(full, p[i - a], p[j - a])
    BY <1>3, <1>8, <1>10, <2>1
  <2>3. Same(out2[i], full[p[i - a]]) /\ Same(out2[j], full[p[j - a]])
    BY <1>5, <1>8, <1>10, <2>1
  <2>4. p[i - a] \in DOMAIN full /\ p[j - a] \in DOMAIN full
    BY <1>1, <1>8, <1>10, <2>1
  <2> QED BY <2>2, <2>3, <2>4
<1>11. ASSUME NEW i \in 1..a + n, NEW j \in DOMAIN left, a < i
       PROVE  \E u, v \in DOMAIN full : /\ Before(full, u, v)
                                        /\ Same(out2[i], full[u]) /\ left[j] = full[v]
  <2>1. n + j \in 1..b /\ i - a < n + j
    BY <1>7, <1>8, <1>9, <1>11
  <2>2. Before(full, p[i - a], p[n + j])
    BY <1>3, <1>8, <1>11, <2>1
  <2>3. Same(out2[i], full[p[i - a]]) /\ left[j] = full[p[n + j]]
    BY <1>5, <1>6, <1>7, <1>8, <1>11
  <2>4. p[i - a] \in DOMAIN full /\ p[n + j] \in DOMAIN full
    BY <1>1, <1>8, <1>11, <2>1
  <2> QED BY <2>2, <2>3, <2>4
<1> QED BY <1>10, <1>11 DEF Sorts, a

\* A call that pushes nothing or one frame releases entries.
Emits(full, n) == shown' = shown \o Received(Lowest(full, n)) /\ buffer' = Without(full, n)

\* The entry e is a frame of the stream, one of the first m, with its
\* metadata.
Whole(e, m) ==
    /\ e.meta \in 1..m
    /\ e.frame.slices = slices[e.meta] /\ e.frame.poc = sent[e.meta].poc

\* The caller and the buffer have as many frames of the stream as m, each
\* of them whole.
AllWhole(m) ==
    /\ Len(shown) + Len(buffer) = m
    /\ \A i \in DOMAIN shown : Whole(shown[i], m)
    /\ \A i \in DOMAIN buffer : Whole(buffer[i], m)

(* Releasing entries loses none and changes none.                          *)
LEMMA EmitsWhole ==
    ASSUME shown \in Seq(ShownSet), NEW full \in Seq(EntrySet), NEW n \in 0..Len(full),
           Emits(full, n), NEW m \in Nat, NEW k \in Nat, k <= m,
           Len(shown) + Len(full) = m,
           \A i \in DOMAIN shown : Whole(shown[i], k),
           \A i \in DOMAIN full : Whole(full[i], m),
           \A f \in 1..m : slices'[f] = slices[f] /\ sent'[f] = sent[f]
    PROVE  AllWhole(m)'
<1>1. PICK out2, left : out2 = shown' /\ left = buffer'
  OBVIOUS
<1>2. out2 = shown \o Received(Lowest(full, n)) /\ left = Without(full, n)
  BY <1>1 DEF Emits
<1>3. HandsOut(shown, full, n, out2, left)
  BY ONLY <1>2, shown \in Seq(ShownSet), full \in Seq(EntrySet), n \in 0..Len(full), Handout
<1>4. /\ out2 \in Seq(ShownSet) /\ left \in Seq(EntrySet)
      /\ Len(out2) = Len(shown) + n /\ Len(left) = Len(full) - n
      /\ \A i \in DOMAIN left : \E j \in DOMAIN full : left[i] = full[j]
      /\ \A i \in 1..Len(shown) : out2[i] = shown[i]
      /\ \A i \in DOMAIN out2 : i > Len(shown) =>
           \E j \in DOMAIN full : out2[i].frame = full[j].frame /\ out2[i].meta = full[j].meta
  BY <1>3 DEF HandsOut
<1>5. Len(out2) + Len(left) = m
  <2>1. PICK a, b : a = Len(shown) /\ b = Len(full)
    OBVIOUS
  <2>2. a \in Nat /\ b \in Nat /\ n \in 0..b /\ a + b = m
    BY <2>1
  <2>3. Len(out2) = a + n /\ Len(left) = b - n
    BY ONLY <1>4, <2>1
  <2> QED BY ONLY <2>2, <2>3
<1>6. ASSUME NEW i \in DOMAIN left
      PROVE  /\ left[i].meta \in 1..m
             /\ left[i].frame.slices = slices'[left[i].meta]
             /\ left[i].frame.poc = sent'[left[i].meta].poc
  <2>1. PICK j \in DOMAIN full : left[i] = full[j]
    BY <1>4
  <2> QED BY <2>1 DEF Whole
<1>7. ASSUME NEW i \in DOMAIN out2
      PROVE  /\ out2[i].meta \in 1..m
             /\ out2[i].frame.slices = slices'[out2[i].meta]
             /\ out2[i].frame.poc = sent'[out2[i].meta].poc
  <2>1. CASE i > Len(shown)
    <3>1. PICK j \in DOMAIN full : out2[i].frame = full[j].frame /\ out2[i].meta = full[j].meta
      BY <1>4, <2>1
    <3>2. Whole(full[j], m)
      OBVIOUS
    <3> QED BY <3>1, <3>2 DEF Whole
  <2>2. CASE ~(i > Len(shown))
    <3>1. i \in 1..Len(shown) /\ i \in DOMAIN shown
      BY <1>4, <2>2
    <3>2. out2[i] = shown[i] /\ Whole(shown[i], k)
      BY <1>4, <3>1
    <3>3. \A x \in 1..k : x \in 1..m
      OBVIOUS
    <3> QED BY <3>2, <3>3 DEF Whole
  <2> QED BY <2>1, <2>2
<1> QED BY <1>1, <1>5, <1>6, <1>7 DEF AllWhole, Whole

(* pop_lowest keeps the buffer at its depth.                               *)
LEMMA DepthKept ==
    ASSUME NEW full \in Seq(EntrySet), NEW gop, NEW n, n = Released(full, gop)
    PROVE  n \in 0..Len(full) /\ Len(full) - n <= max_depth
<1> DEFINE b == Len(full)
<1>1. n \in 0..b /\ b \in Nat
  BY ReleasedCount
<1>2. max_depth \in Nat /\ Excess(full) = IF b > max_depth THEN b - max_depth ELSE 0
  BY OrderedDecoderAssumption DEF Excess
<1>3. n = Completed(full, gop) \/ n = Excess(full)
  BY DEF Released
<1>4. n = Completed(full, gop) => n >= Excess(full) \/ n = Excess(full)
  BY DEF Released
<1> HIDE DEF b
<1>5. b - n <= max_depth
  BY ONLY <1>1, <1>2, <1>3, <1>4
<1> QED BY <1>1, <1>5 DEF b

-----------------------------------------------------------------------------
(* What the NAL units of a clean stream do.                                *)

\* Between frames the decoder holds nothing.
Idle == cur.done \/ sent = <<>>

CleanInv ==
    /\ d.panicked = FALSE
    /\ cur.part \in {0, 1, 2}
    /\ sets > 0 => DOMAIN d.sps_table = {0}
    /\ cur.pps => Tables(d)
    /\ sent # <<>> => cur.pps
    /\ \A f \in DOMAIN slices : slices[f] # {}
    /\ AllWhole(IF Idle THEN Len(sent) ELSE Len(sent) - 1)
    /\ Len(buffer) <= max_depth
    /\ Idle => /\ d.pending = None /\ d.pending_field = None
               /\ buffer = <<>> /\ building_meta = None
    /\ ~Idle => /\ Building(d, cur.part, slices[Len(sent)], sent[Len(sent)].poc)
                /\ building_meta = Len(sent)
                /\ ~cur.resized => Sized(d)

\* The buffer with the frame that the last one of the stream has become.
FullIs(full) ==
    IF Idle THEN full = buffer
    ELSE \E e \in EntrySet : /\ full = Append(buffer, e) /\ e.gop = gop_id
                             /\ e.meta = Len(sent) /\ Whole(e, Len(sent))

(* Each slice of a clean stream arrives and decodes.                       *)
LEMMA AllArrives ==
    ASSUME Clean, NEW idr, NEW poc, NEW slice, Feed(idr, poc, slice)
    PROVE  DecodeNalWithMeta(SliceNal(idr, poc, slice, "ok"), slice.frame)
<1>1. ~MayLose(slice)
  BY DEF MayLose, Clean
<1>2. \A o \in Outcomes : o = "ok"
  BY DEF Clean
<1> QED BY <1>1, <1>2 DEF Feed

(* The NAL unit of a slice that decodes.                                   *)
LEMMA CleanNal ==
    ASSUME NEW idr \in BOOLEAN, NEW poc \in Nat, NEW slice \in SliceSet,
           NEW nal, nal = SliceNal(idr, poc, slice, "ok")
    PROVE  /\ nal \in SliceNals /\ nal.outcome = "ok" /\ nal.first_mb = slice.n
           /\ nal.slice = slice /\ (nal.field_pic_flag <=> slice.part # 0)
           /\ nal.poc = IF slice.part = 2 THEN poc + 1 ELSE poc
           /\ nal.type \in SliceTypes
           /\ nal.type = "SliceIdr" <=> idr /\ slice.part # 2
<1>1. "ok" \in Outcomes
  BY OrderedDecoderAssumption
<1>2. /\ nal \in SliceNals /\ nal.outcome = "ok" /\ nal.first_mb = slice.n /\ nal.slice = slice
  BY <1>1, SliceNalIs
<1>3. /\ nal.type = IF idr /\ slice.part # 2 THEN "SliceIdr" ELSE "Slice"
      /\ nal.field_pic_flag = (slice.part # 0)
      /\ nal.poc = IF slice.part = 2 THEN poc + 1 ELSE poc
  BY DEF SliceNal
<1>4. nal.field_pic_flag <=> slice.part # 0
  BY <1>3
<1> QED BY <1>2, <1>3, <1>4 DEF SliceTypes

(* What decode_nal_with_meta does when the NAL unit decodes.               *)
LEMMA CleanCall ==
    ASSUME NEW nal, NEW meta, DecodeNalWithMeta(nal, meta),
           NEW r, r = DecodeNal(d, nal), r.ok = TRUE,
           NEW full, full = IF r.frame = None THEN buffer ELSE Pushed(r.frame)
    PROVE  /\ d' = r.d /\ gop_id' = NextGop(nal)
           /\ building_meta' = BuildingMeta(nal, meta, r.frame # None)
           /\ Emits(full, Released(full, gop_id'))
BY DEF DecodeNalWithMeta, Emits

(* The numbers that the state of the stream gives.                         *)
LEMMA StreamIs ==
    ASSUME StreamTypes
    PROVE  /\ sent \in Seq([gop : Nat, poc : Nat]) /\ slices \in Seq(SUBSET SliceSet)
           /\ DOMAIN sent = 1..Len(sent) /\ DOMAIN slices = 1..Len(sent) /\ Len(sent) \in Nat
           /\ \A f \in 1..Len(sent) : /\ sent[f].gop \in Nat /\ sent[f].poc \in Nat
                                      /\ slices[f] \in SUBSET SliceSet
           /\ sent # <<>> <=> Len(sent) > 0
           /\ cur \in CurSet
<1>1. /\ sent \in Seq([gop : Nat, poc : Nat]) /\ slices \in Seq(SUBSET SliceSet)
      /\ Len(slices) = Len(sent) /\ cur \in CurSet
  BY DEF StreamTypes
<1>2. /\ DOMAIN sent = 1..Len(sent) /\ DOMAIN slices = 1..Len(sent) /\ Len(sent) \in Nat
      /\ sent # <<>> <=> Len(sent) > 0
  <2>1. PICK s, t : s = sent /\ t = slices
    OBVIOUS
  <2>2. s \in Seq([gop : Nat, poc : Nat]) /\ t \in Seq(SUBSET SliceSet) /\ Len(t) = Len(s)
    BY ONLY <1>1, <2>1
  <2>3. DOMAIN s = 1..Len(s) /\ Len(s) \in Nat /\ DOMAIN t = 1..Len(s)
    BY ONLY <2>2
  <2>4. s # <<>> <=> Len(s) > 0
    BY ONLY <2>2
  <2>5. DOMAIN sent = 1..Len(sent) /\ Len(sent) \in Nat /\ (sent # <<>> <=> Len(sent) > 0)
    BY ONLY <2>1, <2>3, <2>4, Zenon
  <2>6. DOMAIN slices = 1..Len(sent)
    BY ONLY <2>1, <2>3, Zenon
  <2> QED BY ONLY <2>5, <2>6, Zenon
<1>3. \A f \in 1..Len(sent) : sent[f].gop \in Nat /\ sent[f].poc \in Nat
  <2> DEFINE P == [gop : Nat, poc : Nat]
  <2>1. sent \in Seq(P) /\ DOMAIN sent = 1..Len(sent)
    BY <1>1, <1>2
  <2>2. \A x \in P : x.gop \in Nat /\ x.poc \in Nat
    OBVIOUS
  <2> HIDE DEF P
  <2>3. \A f \in 1..Len(sent) : sent[f] \in P
    BY ONLY <2>1
  <2> QED BY <2>2, <2>3, Zenon
<1>4. \A f \in 1..Len(sent) : slices[f] \in SUBSET SliceSet
  <2> DEFINE P == SUBSET SliceSet
  <2>1. slices \in Seq(P) /\ DOMAIN slices = 1..Len(sent)
    BY <1>1, <1>2
  <2> HIDE DEF P
  <2>2. \A f \in 1..Len(sent) : slices[f] \in P
    BY ONLY <2>1
  <2> QED BY <2>2 DEF P
<1> QED BY <1>1, <1>2, <1>3, <1>4, Zenon

(* The first slice of a frame completes the one before it and starts the   *)
(* next; the metadata changes hands with it (decoder.rs:1318-1334).        *)
LEMMA FrameStarts ==
    ASSUME Clean, IInv, CleanInv, NEW idr \in BOOLEAN, NEW kind \in Kinds,
           NEW poc \in Pocs \cup {0}, SendFrame(idr, kind, poc)
    PROVE  /\ cur.done = FALSE /\ cur'.done = FALSE /\ cur'.part \in {0, 1} /\ cur'.pps
           /\ Building(d', cur'.part, {Slice(Len(sent) + 1, cur'.part, 0)}, poc)
           /\ Sized(d') /\ d'.panicked = FALSE /\ Tables(d')
           /\ building_meta' = Len(sent) + 1
           /\ gop_id' = IF idr THEN gop_id + 1 ELSE gop_id
           /\ \E full \in Seq(EntrySet) :
                /\ FullIs(full) /\ Emits(full, Released(full, gop_id'))
<1>0. /\ d \in DecoderSet /\ StreamTypes /\ UpToCursor
      /\ building_meta \in Metas /\ gop_id \in Nat /\ buffer \in Seq(EntrySet)
  BY DEF IInv, DecoderTypes
<1>1. PICK slice : slice = Slice(Len(sent) + 1, cur'.part, 0)
  OBVIOUS
<1>2. /\ slice \in SliceSet /\ slice.frame = Len(sent) + 1
      /\ cur.done = FALSE /\ cur'.done = FALSE /\ Feed(idr, poc, slice)
  BY <1>0, <1>1, FrameSent DEF FrameNumber
<1>3. slice.n = 0 /\ slice.part = cur'.part
  BY <1>1 DEF Slice
<1>4. cur'.part \in {0, 1} /\ cur'.pps
  <2>1. kind = "frame" \/ kind = "fields"
    BY DEF Clean
  <2>2. cur' = [cur EXCEPT !.part = IF kind = "frame" THEN 0 ELSE 1, !.n = 0, !.idr = idr,
                           !.resized = FALSE]
    BY <2>1 DEF SendFrame
  <2>3. cur \in CurSet
    BY <1>0, StreamIs
  <2>4. cur.pps
    BY DEF SendFrame, Clean
  <2> QED BY <2>2, <2>3, <2>4 DEF CurSet
<1>5. poc \in Nat
  BY OrderedDecoderAssumption
<1>6. PICK nal : nal = SliceNal(idr, poc, slice, "ok")
  OBVIOUS
<1>7. /\ nal \in SliceNals /\ nal.outcome = "ok" /\ nal.first_mb = 0
      /\ nal.slice = slice /\ (nal.field_pic_flag <=> cur'.part # 0)
      /\ nal.poc = poc /\ nal.type \in SliceTypes
      /\ nal.type = "SliceIdr" <=> idr
  <2>1. /\ nal \in SliceNals /\ nal.outcome = "ok" /\ nal.first_mb = slice.n
        /\ nal.slice = slice /\ (nal.field_pic_flag <=> slice.part # 0)
        /\ nal.poc = IF slice.part = 2 THEN poc + 1 ELSE poc
        /\ nal.type \in SliceTypes
        /\ nal.type = "SliceIdr" <=> idr /\ slice.part # 2
    <3>1. idr \in BOOLEAN
      OBVIOUS
    <3> QED BY ONLY <1>2, <1>5, <1>6, <3>1, CleanNal
  <2>2. slice.n = 0 /\ slice.part = cur'.part /\ slice.part # 2
    BY ONLY <1>3, <1>4
  <2> QED BY ONLY <2>1, <2>2
<1>8. DecodeNalWithMeta(nal, slice.frame)
  BY <1>2, <1>6, AllArrives
<1>9. PICK r, p : r = DecodeNal(d, nal) /\ p = FinalizePending(d)
  OBVIOUS
<1>10. cur.pps /\ cur.part # 1 /\ Tables(d)
  BY DEF SendFrame, Going, AtBoundary, Clean, CleanInv
<1>11. \/ sent = <<>> /\ p.d = d /\ p.frame = None /\ d.pending = None /\ d.pending_field = None
          /\ building_meta = None
       \/ /\ sent # <<>> /\ p.d = Cleared(d) /\ p.frame \in Frames /\ p.frame # None
          /\ p.frame.slices = slices[Len(sent)] /\ p.frame.poc = sent[Len(sent)].poc
          /\ building_meta = Len(sent)
  <2>1. CASE sent = <<>>
    <3>1. d.pending = None /\ d.pending_field = None /\ building_meta = None
      BY <2>1 DEF CleanInv, Idle
    <3>2. p = [d |-> d, frame |-> None]
      BY <1>9, <3>1 DEF FinalizePending
    <3> QED BY <2>1, <3>1, <3>2
  <2>2. CASE sent # <<>>
    <3>1. /\ Building(d, cur.part, slices[Len(sent)], sent[Len(sent)].poc)
          /\ building_meta = Len(sent) /\ cur.part \in {0, 2}
      BY <1>2, <1>10, <2>2 DEF CleanInv, Idle
    <3>2. sent[Len(sent)].poc \in Nat
      BY <1>0, <2>2, StreamIs
    <3> QED BY <1>0, <1>9, <2>2, <3>1, <3>2, WholeFinalized
  <2> QED BY <2>1, <2>2
<1>12. /\ p.d \in DecoderSet /\ p.d.pending = None /\ p.d.pending_field = None
       /\ p.d.sps_table = d.sps_table /\ p.d.pps_table = d.pps_table
       /\ p.d.panicked = FALSE
  <2>0. d.panicked = FALSE
    BY DEF CleanInv
  <2>1. CASE p.d = d /\ d.pending = None /\ d.pending_field = None
    BY <1>0, <2>0, <2>1
  <2>2. CASE p.d = Cleared(d)
    BY <1>0, <2>0, <2>2, ClearedIs
  <2> QED BY <1>11, <2>1, <2>2
<1>13. PICK q : q = NewPicture(p.d, nal)
  OBVIOUS
<1>14. /\ r.ok = TRUE /\ r.frame = p.frame
       /\ r.d = [p.d EXCEPT !.pending = q] /\ q \in PendingSet
  <2>1. Tables(p.d)
    BY <1>10, <1>12 DEF Tables
  <2>2. Started(p, nal, r) /\ r.ok = TRUE
    BY <1>0, <1>7, <1>9, <1>12, <2>1, PictureStarts
  <2> QED BY ONLY <1>13, <2>2 DEF Started
<1>15. PICK full : full = IF r.frame = None THEN buffer ELSE Pushed(r.frame)
  OBVIOUS
<1>16. /\ d' = r.d /\ gop_id' = NextGop(nal)
       /\ building_meta' = BuildingMeta(nal, slice.frame, r.frame # None)
       /\ Emits(full, Released(full, gop_id'))
  <2>1. PICK meta : meta = slice.frame
    OBVIOUS
  <2>2. DecodeNalWithMeta(nal, meta) /\ r = DecodeNal(d, nal) /\ r.ok = TRUE
    BY ONLY <1>8, <1>9, <1>14, <2>1
  <2>3. /\ d' = r.d /\ gop_id' = NextGop(nal)
        /\ building_meta' = BuildingMeta(nal, meta, r.frame # None)
        /\ Emits(full, Released(full, gop_id'))
    BY ONLY <1>15, <2>2, CleanCall
  <2> QED BY ONLY <2>1, <2>3
<1>17. /\ d'.pending = q /\ d'.pending_field = None
       /\ d'.sps_table = d.sps_table /\ d'.pps_table = d.pps_table
       /\ d'.panicked = FALSE
  BY <1>12, <1>14, <1>16 DEF DecoderSet
<1>18. q.slices = {slice} /\ q.frame_poc = poc /\ (q.field_pic_flag <=> cur'.part # 0)
  BY <1>7, <1>13 DEF NewPicture
<1>24. /\ q.width = ActiveSps(p.d).width /\ q.frame_height = ActiveSps(p.d).height
       /\ q.height = PictureHeight(ActiveSps(p.d), q.field_pic_flag)
       /\ q.total_mbs = TotalMbs(ActiveSps(p.d), q.field_pic_flag)
  BY <1>13 DEF NewPicture
<1>25. cur'.part # 0 => q.height = q.frame_height \div 2
  BY <1>18, <1>24 DEF PictureHeight
<1>19. Building(d', cur'.part, {slice}, poc)
  BY <1>4, <1>14, <1>17, <1>18, <1>25, NoneAssumption DEF Building
<1>26. ActiveSps(p.d) = ActiveSps(d') /\ Tables(d')
  BY <1>10, <1>12, <1>17 DEF ActiveSps, FirstPps, Tables
<1>20. Sized(d') /\ d'.panicked = FALSE /\ Tables(d')
  BY <1>17, <1>24, <1>26 DEF Sized
<1>21. building_meta' = Len(sent) + 1
  <2>1. r.frame # None \/ building_meta = None
    BY <1>11, <1>14
  <2> QED BY <1>2, <1>7, <1>16, <2>1 DEF BuildingMeta
<1>22. gop_id' = IF idr THEN gop_id + 1 ELSE gop_id
  BY <1>7, <1>16 DEF NextGop
<1>23. full \in Seq(EntrySet) /\ FullIs(full)
  <2>1. CASE sent = <<>>
    <3>1. full = buffer
      BY <1>11, <1>14, <1>15, <2>1
    <3> QED BY <1>0, <2>1, <3>1 DEF FullIs, Idle
  <2>2. CASE sent # <<>>
    <3>1. /\ p.frame \in Frames /\ p.frame # None
          /\ p.frame.slices = slices[Len(sent)] /\ p.frame.poc = sent[Len(sent)].poc
          /\ building_meta = Len(sent)
      BY <1>11, <2>2
    <3> DEFINE e == [gop |-> gop_id, frame |-> p.frame, meta |-> building_meta]
    <3>2. full = Append(buffer, e)
      BY <1>14, <1>15, <3>1 DEF Pushed
    <3>3. e \in EntrySet /\ e.gop = gop_id /\ e.meta = Len(sent) /\ e.frame = p.frame
      BY <1>0, <3>1 DEF EntrySet
    <3> HIDE DEF e
    <3>4. Len(sent) \in 1..Len(sent)
      BY <1>0, <2>2, StreamIs
    <3>5. Whole(e, Len(sent))
      BY <3>1, <3>3, <3>4 DEF Whole
    <3>6. full \in Seq(EntrySet)
      BY ONLY <1>0, <3>2, <3>3
    <3> QED BY <1>2, <2>2, <3>2, <3>3, <3>5, <3>6 DEF FullIs, Idle
  <2> QED BY <2>1, <2>2
<1> QED BY <1>1, <1>2, <1>4, <1>16, <1>17, <1>18, <1>19, <1>20, <1>21, <1>22, <1>23

(* A slice of the same size changes the slices of its picture alone.       *)
LEMMA WithSliceIs ==
    ASSUME NEW x, NEW ps \in PendingSet, ps = x.pending, Sized(x), NEW nal \in SliceNals,
           ps.field_pic_flag <=> nal.field_pic_flag, NEW q, q = WithSlice(x, nal)
    PROVE  /\ q.slices = ps.slices \cup {nal.slice} /\ q.frame_poc = ps.frame_poc
           /\ q.width = ps.width /\ q.height = ps.height /\ q.frame_height = ps.frame_height
           /\ q.total_mbs = ps.total_mbs /\ q.field_pic_flag = ps.field_pic_flag
<1>1. /\ q.slices = ps.slices \cup {nal.slice} /\ q.frame_poc = ps.frame_poc
      /\ q.width = ps.width /\ q.height = ps.height /\ q.frame_height = ActiveSps(x).height
      /\ q.total_mbs = ps.total_mbs /\ q.field_pic_flag = nal.field_pic_flag
  BY DEF WithSlice, PendingSet
<1>2. ActiveSps(x).height = ps.frame_height
  BY DEF Sized
<1>3. nal.field_pic_flag = ps.field_pic_flag
  <2>1. nal.field_pic_flag \in BOOLEAN /\ ps.field_pic_flag \in BOOLEAN
    BY DEF PendingSet, SliceNals
  <2> QED BY <2>1
<1> QED BY <1>1, <1>2, <1>3

\* The slice is the next one of the last frame, and has joined it.
GoesOn(part, slice) ==
    /\ Building(d', part, slices[Len(sent)] \cup {slice}, sent[Len(sent)].poc)
    /\ Sized(d') /\ d'.panicked = FALSE /\ Tables(d')
    /\ building_meta' = Len(sent)
    /\ gop_id' = IF cur.idr /\ part # 2 THEN gop_id + 1 ELSE gop_id
    /\ Emits(buffer, Released(buffer, gop_id'))

(* Another slice of a frame joins what the decoder holds of it, a second   *)
(* field the first (decoder.rs:198-243).                                   *)
LEMMA SliceGoesOn ==
    ASSUME Clean, IInv, CleanInv, NEW part \in 0..3, NEW n \in 0..MaxSlices - 1,
           SendSlice(part, n), NEW slice, slice = Slice(Len(sent), part, n)
    PROVE  part \in {0, 1, 2} /\ sent # <<>> /\ GoesOn(part, slice)
<1>0. /\ d \in DecoderSet /\ StreamTypes /\ UpToCursor
      /\ building_meta \in Metas /\ gop_id \in Nat /\ buffer \in Seq(EntrySet)
  BY DEF IInv, DecoderTypes
<1>1. /\ slice \in SliceSet /\ slice.frame = Len(sent) /\ slice.part = part /\ slice.n = n
      /\ ~cur.done /\ Feed(cur.idr, sent[Len(sent)].poc, slice)
  BY <1>0, SliceSent DEF FrameNumber
<1>2. /\ sent # <<>> /\ ~cur.resized
      /\ \/ part = cur.part /\ n = cur.n + 1
         \/ cur.part = 1 /\ part = 2 /\ n = 0
  BY DEF SendSlice, Going
<1>3. PICK idr, poc, S : idr = cur.idr /\ poc = sent[Len(sent)].poc /\ S = slices[Len(sent)]
  OBVIOUS
<1>4. idr \in BOOLEAN /\ poc \in Nat /\ cur.n \in Nat /\ cur.part \in {0, 1, 2} /\ S # {}
  <2>1. Len(sent) \in 1..Len(sent) /\ cur \in CurSet /\ DOMAIN slices = 1..Len(sent)
    BY <1>0, <1>2, StreamIs
  <2>2. poc \in Nat
    BY <1>0, <1>3, <2>1, StreamIs
  <2> QED BY <1>3, <2>1, <2>2 DEF CurSet, CleanInv
<1>5. PICK nal : nal = SliceNal(idr, poc, slice, "ok")
  OBVIOUS
<1>6. /\ nal \in SliceNals /\ nal.outcome = "ok" /\ nal.first_mb = n
      /\ nal.slice = slice /\ (nal.field_pic_flag <=> part # 0)
      /\ nal.poc = (IF part = 2 THEN poc + 1 ELSE poc) /\ nal.type \in SliceTypes
      /\ nal.type = "SliceIdr" <=> idr /\ part # 2
  <2>1. slice \in SliceSet /\ slice.n = n /\ slice.part = part
    BY <1>1
  <2>2. /\ nal \in SliceNals /\ nal.outcome = "ok" /\ nal.first_mb = slice.n
        /\ nal.slice = slice /\ (nal.field_pic_flag <=> slice.part # 0)
        /\ nal.poc = IF slice.part = 2 THEN poc + 1 ELSE poc
        /\ nal.type \in SliceTypes
        /\ nal.type = "SliceIdr" <=> idr /\ slice.part # 2
    BY ONLY <1>4, <1>5, <2>1, CleanNal
  <2> QED BY ONLY <2>1, <2>2
<1>7. DecodeNalWithMeta(nal, slice.frame)
  BY <1>1, <1>3, <1>5, AllArrives
<1>8. PICK r : r = DecodeNal(d, nal)
  OBVIOUS
<1>9. /\ Building(d, cur.part, S, poc) /\ building_meta = Len(sent) /\ Tables(d)
      /\ Sized(d) /\ d.panicked = FALSE
  BY <1>1, <1>2, <1>3 DEF CleanInv, Idle
<1>10. \* What is left to show: that the call has returned no frame.
       ASSUME r.ok = TRUE, r.frame = None, Tables(r.d), Sized(r.d), r.d.panicked = FALSE,
              Building(r.d, part, S \cup {slice}, poc)
       PROVE  GoesOn(part, slice)
  <2>1. PICK full, meta : /\ full = IF r.frame = None THEN buffer ELSE Pushed(r.frame)
                          /\ meta = slice.frame
    OBVIOUS
  <2>2. DecodeNalWithMeta(nal, meta)
    BY <1>7, <2>1
  <2>3. /\ d' = r.d /\ gop_id' = NextGop(nal)
        /\ building_meta' = BuildingMeta(nal, meta, r.frame # None)
        /\ Emits(full, Released(full, gop_id'))
    BY ONLY <1>8, <1>10, <2>1, <2>2, CleanCall
  <2>4. full = buffer
    BY <1>10, <2>1
  <2>5. Len(sent) \in 1..Len(sent) /\ Len(sent) \in Nat
    BY <1>0, <1>2, StreamIs
  <2>6. building_meta' = Len(sent)
    <3>1. Len(sent) # None
      BY <2>5, NoneAssumption
    <3> QED BY <1>9, <1>10, <2>3, <3>1 DEF BuildingMeta
  <2>7. gop_id' = IF idr /\ part # 2 THEN gop_id + 1 ELSE gop_id
    BY <1>6, <2>3 DEF NextGop
  <2> QED BY <1>3, <1>10, <2>3, <2>4, <2>6, <2>7 DEF GoesOn
<1>11. CASE part = cur.part /\ n = cur.n + 1
  <2>1. n > 0 /\ d.pending # None
    <3>1. n > 0
      BY ONLY <1>4, <1>11
    <3> QED BY <1>9, <3>1 DEF Building
  <2>10. d.pending.field_pic_flag <=> nal.field_pic_flag
    BY <1>6, <1>9, <1>11 DEF Building
  <2>2. PICK q : q = WithSlice(d, nal)
    OBVIOUS
  <2>3. /\ r.ok = TRUE /\ r.frame = None
        /\ r.d = [d EXCEPT !.pending = q] /\ q \in PendingSet
    <3>1. nal.first_mb > 0
      BY ONLY <1>6, <2>1
    <3>2. Continued(d, nal, r)
      BY <2>10, <1>0, <1>6, <1>8, <1>9, <2>1, <3>1, PictureGoesOn
    <3> QED BY ONLY <2>2, <3>2 DEF Continued
  <2>4. d.pending \in PendingSet
    BY <1>0, <2>1 DEF DecoderSet
  <2>5. /\ q.slices = d.pending.slices \cup {slice} /\ q.frame_poc = d.pending.frame_poc
        /\ q.width = d.pending.width /\ q.height = d.pending.height
        /\ q.frame_height = d.pending.frame_height
        /\ q.total_mbs = d.pending.total_mbs /\ q.field_pic_flag = d.pending.field_pic_flag
    BY <1>6, <1>9, <2>2, <2>4, <2>10, WithSliceIs
  <2>6. /\ r.d.pending = q /\ r.d.pending_field = d.pending_field /\ q # None
        /\ r.d.sps_table = d.sps_table /\ r.d.pps_table = d.pps_table
        /\ r.d.panicked = FALSE
    BY <1>0, <1>9, <2>3, NoneAssumption DEF DecoderSet
  <2>7. Tables(r.d) /\ ActiveSps(r.d) = ActiveSps(d)
    BY <1>9, <2>6 DEF Tables, ActiveSps, FirstPps
  <2>8. Building(r.d, part, S \cup {slice}, poc)
    BY <1>9, <1>11, <2>5, <2>6 DEF Building
  <2>9. Sized(r.d)
    BY <1>9, <2>5, <2>6, <2>7 DEF Sized
  <2> QED BY <1>10, <1>11, <1>2, <1>4, <2>3, <2>6, <2>7, <2>8, <2>9
<1>12. CASE cur.part = 1 /\ part = 2 /\ n = 0
  <2>1. PICK p, q : p = FinalizePending(d) /\ q = NewPicture(p.d, nal)
    OBVIOUS
  <2>2. PutsBy(d, p, S, poc)
    BY <1>0, <1>4, <1>9, <1>12, <2>1, FirstFieldHeld
  <2>3. Tables(p.d) /\ p.d \in DecoderSet /\ p.d.pending = None /\ p.d.panicked = FALSE
    BY <1>9, <2>2 DEF PutsBy, Tables
  <2>4. Started(p, nal, r) /\ r.ok = TRUE
    BY <1>0, <1>6, <1>8, <1>12, <2>1, <2>3, PictureStarts
  <2>5. r.d = [p.d EXCEPT !.pending = q] /\ q \in PendingSet /\ r.frame = None
    BY <2>1, <2>2, <2>4 DEF Started, PutsBy
  <2>6. /\ r.d.pending = q /\ r.d.pending_field = p.d.pending_field /\ q # None
        /\ r.d.sps_table = p.d.sps_table /\ r.d.pps_table = p.d.pps_table
        /\ r.d.panicked = FALSE
    BY <2>3, <2>5, NoneAssumption DEF DecoderSet
  <2>7. Tables(r.d) /\ ActiveSps(r.d) = ActiveSps(p.d) /\ ActiveSps(p.d) = ActiveSps(d)
    BY <2>2, <2>3, <2>6 DEF Tables, ActiveSps, FirstPps, PutsBy
  <2>8. /\ q.slices = {slice} /\ q.frame_poc = poc + 1 /\ (q.field_pic_flag <=> part # 0)
    BY <1>6, <1>12, <2>1 DEF NewPicture
  <2>11. /\ q.width = ActiveSps(d).width /\ q.frame_height = ActiveSps(d).height
         /\ q.height = PictureHeight(ActiveSps(d), q.field_pic_flag)
         /\ q.total_mbs = TotalMbs(ActiveSps(d), q.field_pic_flag)
    BY <2>1, <2>7 DEF NewPicture
  <2>12. q.height = q.frame_height \div 2
    BY <1>12, <2>8, <2>11 DEF PictureHeight
  <2>13. /\ r.d.pending_field.width = q.width
         /\ r.d.pending_field.height = q.height
    <3>1. d.pending.width = q.width /\ d.pending.frame_height = q.frame_height
      BY <1>9, <2>11 DEF Sized
    <3>2. d.pending.height = d.pending.frame_height \div 2
      BY <1>9, <1>12 DEF Building
    <3> QED BY <2>2, <2>6, <2>12, <3>1, <3>2 DEF PutsBy
  <2>9. Building(r.d, part, S \cup {slice}, poc)
    BY <1>4, <1>12, <2>2, <2>6, <2>8, <2>12, <2>13 DEF Building, PutsBy
  <2>10. Sized(r.d) /\ r.d.panicked = FALSE
    BY <2>6, <2>7, <2>11 DEF Sized
  <2> QED BY <1>2, <1>10, <1>12, <2>4, <2>5, <2>7, <2>9, <2>10
<1> QED BY <1>2, <1>11, <1>12

\* What the decoder holds is as before, and if the table of SPSs is, too,
\* the size.
Untouched ==
    /\ d'.pending = d.pending /\ d'.pending_field = d.pending_field
    /\ d'.panicked = d.panicked
    /\ UNCHANGED <<building_meta, gop_id>>
    /\ \/ UNCHANGED <<shown, buffer>>
       \/ Emits(buffer, Released(buffer, gop_id))

(* A NAL unit that is no slice touches no picture; entries that wait for    *)
(* the next GOP may go to the caller (decoder.rs:1336-1348).               *)
LEMMA OtherEffect ==
    ASSUME IInv, ~cur.done, NEW nal, nal.type \notin SliceTypes, DecodeNalWithMeta(nal, None),
           \/ nal.outcome = "bad"
           \/ nal.type = "Sps" /\ nal.id = 0 /\ nal.size \in Sizes
           \/ nal.type = "Pps" /\ nal.id = 0 /\ nal.sps = 0
    PROVE  Untouched
<1>1. PICK S : S = Sent
  OBVIOUS
<1>2. DecoderInv(S) /\ MetaKept
  BY <1>1 DEF IInv, DecoderInv
<1>3. /\ d'.pending = d.pending /\ d'.pending_field = d.pending_field
      /\ d'.panicked = d.panicked /\ UNCHANGED building_meta
  BY <1>2, OtherCall
<1>4. PICK r : r = DecodeNal(d, nal)
  OBVIOUS
<1>5. r.frame = None
  BY <1>4 DEF DecodeNal, Ok, Err
<1>6. NextGop(nal) = gop_id
  BY DEF NextGop, SliceTypes
<1>7. \/ UNCHANGED <<buffer, gop_id, shown>>
      \/ gop_id' = gop_id /\ Emits(buffer, Released(buffer, gop_id))
  BY <1>4, <1>5, <1>6 DEF DecodeNalWithMeta, Emits
<1> QED BY <1>3, <1>7 DEF Untouched

(* An SPS is in its table.                                                 *)
LEMMA SpsPut ==
    ASSUME IInv, CleanInv, NEW size \in Sizes, SendSps(size)
    PROVE  /\ Untouched /\ ~cur.done /\ UNCHANGED <<sent, slices>>
           /\ cur' = [cur EXCEPT !.resized = sent # <<>>]
           /\ DOMAIN d'.sps_table = {0} /\ d'.pps_table = d.pps_table
<1> DEFINE nal == [type |-> "Sps", id |-> 0, size |-> size, outcome |-> "ok"]
<1>1. /\ ~cur.done /\ DecodeNalWithMeta(nal, None)
      /\ cur' = [cur EXCEPT !.resized = sent # <<>>] /\ UNCHANGED <<sent, slices>>
  BY DEF SendSps, Going
<1>2. /\ nal.type = "Sps" /\ nal.id = 0 /\ nal.size = size /\ nal.outcome = "ok"
      /\ nal.type \notin SliceTypes
  BY DEF SliceTypes
<1> HIDE DEF nal
<1>3. Untouched
  BY <1>1, <1>2, OtherEffect
<1>4. DecodeNal(d, nal) = Ok([d EXCEPT !.sps_table = Put(d.sps_table, 0, size)], None)
  BY <1>2 DEF DecodeNal
<1>5. d' = [d EXCEPT !.sps_table = Put(d.sps_table, 0, size)]
  BY <1>1, <1>4 DEF DecodeNalWithMeta, Ok
<1>6. d \in DecoderSet
  BY DEF IInv, DecoderTypes
<1>7. d'.sps_table = Put(d.sps_table, 0, size) /\ d'.pps_table = d.pps_table
  BY <1>5, <1>6 DEF DecoderSet
<1>8. d.sps_table \in SpsTables
  BY <1>6 DEF DecoderSet
<1>9. DOMAIN d.sps_table \subseteq {0}
  BY ONLY <1>8 DEF SpsTables
<1>10. DOMAIN Put(d.sps_table, 0, size) = {0}
  BY <1>9 DEF Put
<1> QED BY <1>1, <1>3, <1>7, <1>10

(* A PPS is in its table.                                                  *)
LEMMA PpsPut ==
    ASSUME IInv, CleanInv, SendPps
    PROVE  /\ Untouched /\ ~cur.done /\ UNCHANGED <<sent, slices>>
           /\ cur' = [cur EXCEPT !.pps = TRUE]
           /\ Tables(d') /\ d'.sps_table = d.sps_table /\ sets > 0
           /\ d'.pps_table[0] = 0
<1> DEFINE nal == [type |-> "Pps", id |-> 0, sps |-> 0, outcome |-> "ok"]
<1>1. /\ ~cur.done /\ DecodeNalWithMeta(nal, None) /\ sets > 0
      /\ cur' = [cur EXCEPT !.pps = TRUE] /\ UNCHANGED <<sent, slices>>
  BY DEF SendPps, Going
<1>2. /\ nal.type = "Pps" /\ nal.id = 0 /\ nal.sps = 0 /\ nal.outcome = "ok"
      /\ nal.type \notin SliceTypes
  BY DEF SliceTypes
<1> HIDE DEF nal
<1>3. Untouched
  BY <1>1, <1>2, OtherEffect
<1>4. DecodeNal(d, nal) = Ok([d EXCEPT !.pps_table = Put(d.pps_table, 0, 0)], None)
  BY <1>2 DEF DecodeNal
<1>5. d' = [d EXCEPT !.pps_table = Put(d.pps_table, 0, 0)]
  BY <1>1, <1>4 DEF DecodeNalWithMeta, Ok
<1>6. d \in DecoderSet
  BY DEF IInv, DecoderTypes
<1>7. d'.pps_table = Put(d.pps_table, 0, 0) /\ d'.sps_table = d.sps_table
  BY <1>5, <1>6 DEF DecoderSet
<1>8. d.pps_table \in PpsTables
  BY <1>6 DEF DecoderSet
<1>9. DOMAIN d.pps_table \subseteq {0}
  BY ONLY <1>8 DEF PpsTables
<1>10. DOMAIN Put(d.pps_table, 0, 0) = {0} /\ Put(d.pps_table, 0, 0)[0] = 0
  BY <1>9 DEF Put
<1>11. DOMAIN d.sps_table = {0}
  BY <1>1 DEF CleanInv
<1> QED BY <1>1, <1>3, <1>7, <1>10, <1>11 DEF Tables

(* Parameter sets that do not parse, and other NAL units.                  *)
LEMMA OtherSent ==
    ASSUME IInv, NEW type \in {"Sei", "Sps", "Pps"}, SendOther(type)
    PROVE  Untouched /\ ~cur.done /\ UNCHANGED <<sent, slices, cur, sets>> /\ d' = d
<1> DEFINE nal == [type |-> type, outcome |-> "bad"]
<1>1. /\ ~cur.done /\ DecodeNalWithMeta(nal, None)
      /\ UNCHANGED <<sent, slices, cur, sets>>
  BY DEF SendOther, Going
<1>2. nal.type = type /\ nal.outcome = "bad" /\ nal.type \notin SliceTypes
  BY DEF SliceTypes
<1> HIDE DEF nal
<1>3. Untouched
  BY <1>1, <1>2, OtherEffect
<1>4. DecodeNal(d, nal) = Ok(d, None) \/ DecodeNal(d, nal) = Err(d)
  BY <1>2 DEF DecodeNal
<1>5. d' = d
  BY <1>1, <1>4 DEF DecodeNalWithMeta, Ok, Err
<1> QED BY <1>1, <1>3, <1>5

(* flush_with_meta empties the decoder and the buffer.                     *)
LEMMA Flushed ==
    ASSUME IInv, CleanInv, End
    PROVE  /\ ~cur.done /\ UNCHANGED <<sent, slices, sets>>
           /\ cur' = [cur EXCEPT !.done = TRUE]
           /\ d'.pending = None /\ d'.pending_field = None /\ building_meta' = None
           /\ d'.panicked = FALSE /\ d'.sps_table = d.sps_table /\ d'.pps_table = d.pps_table
           /\ gop_id' = gop_id /\ buffer' = <<>>
           /\ \E full \in Seq(EntrySet) : FullIs(full) /\ Emits(full, Len(full))
<1>0. /\ d \in DecoderSet /\ StreamTypes /\ gop_id \in Nat /\ building_meta \in Metas
      /\ buffer \in Seq(EntrySet)
  BY DEF IInv, DecoderTypes
<1>1. /\ ~cur.done /\ UNCHANGED <<sent, slices, sets>> /\ cur' = [cur EXCEPT !.done = TRUE]
      /\ FlushWithMeta /\ cur.part # 1
  BY DEF End, Going, AtBoundary
<1>2. PICK r, f : r = Flush(d) /\ f = FinalizePending(d)
  OBVIOUS
<1>3. PICK full : full = IF r.frame = None THEN buffer ELSE Pushed(r.frame)
  OBVIOUS
<1>4. \/ sent = <<>> /\ r.frame = None /\ building_meta = None /\ r.d = d
         /\ d.pending = None /\ d.pending_field = None
      \/ /\ sent # <<>> /\ r.d = Cleared(d) /\ r.frame \in Frames /\ r.frame # None
         /\ r.frame.slices = slices[Len(sent)] /\ r.frame.poc = sent[Len(sent)].poc
         /\ building_meta = Len(sent)
  <2>1. CASE sent = <<>>
    <3>1. d.pending = None /\ d.pending_field = None /\ building_meta = None
      BY <2>1 DEF CleanInv, Idle
    <3>2. f = [d |-> d, frame |-> None]
      BY <1>2, <3>1 DEF FinalizePending
    <3>3. r = [d |-> [d EXCEPT !.pending_field = None], frame |-> None]
      BY <1>2, <3>1, <3>2 DEF Flush
    <3>4. [d EXCEPT !.pending_field = None] = d
      BY <1>0, <3>1 DEF DecoderSet
    <3> QED BY <2>1, <3>1, <3>3, <3>4
  <2>2. CASE sent # <<>>
    <3>1. /\ Building(d, cur.part, slices[Len(sent)], sent[Len(sent)].poc)
          /\ building_meta = Len(sent) /\ cur.part \in {0, 2}
      BY <1>1, <2>2 DEF CleanInv, Idle
    <3>2. sent[Len(sent)].poc \in Nat
      BY <1>0, <2>2, StreamIs
    <3>3. /\ f.d = Cleared(d) /\ f.frame \in Frames /\ f.frame # None
          /\ f.frame.slices = slices[Len(sent)] /\ f.frame.poc = sent[Len(sent)].poc
      BY <1>0, <1>2, <3>1, <3>2, WholeFinalized
    <3>4. r = f
      BY <1>2, <3>3 DEF Flush
    <3> QED BY <2>2, <3>1, <3>3, <3>4
  <2> QED BY <2>1, <2>2
<1>5. r.d.panicked = FALSE
  BY <1>0, <1>4, ClearedIs DEF CleanInv
<1>6. /\ d' = r.d /\ gop_id' = gop_id /\ buffer' = <<>>
      /\ building_meta' = IF r.frame = None THEN building_meta ELSE None
      /\ shown' = shown \o Received(Lowest(full, Len(full)))
  BY <1>1, <1>2, <1>3, <1>5 DEF FlushWithMeta
<1>7. /\ d'.pending = None /\ d'.pending_field = None /\ building_meta' = None
      /\ d'.sps_table = d.sps_table /\ d'.pps_table = d.pps_table /\ d'.panicked = FALSE
  BY <1>0, <1>4, <1>5, <1>6, ClearedIs
<1>8. full \in Seq(EntrySet) /\ FullIs(full)
  <2>1. CASE sent = <<>>
    <3>1. full = buffer
      BY <1>3, <1>4, <2>1
    <3> QED BY <1>0, <2>1, <3>1 DEF FullIs, Idle
  <2>2. CASE sent # <<>>
    <3> DEFINE e == [gop |-> gop_id, frame |-> r.frame, meta |-> building_meta]
    <3>1. /\ r.frame \in Frames /\ r.frame # None
          /\ r.frame.slices = slices[Len(sent)] /\ r.frame.poc = sent[Len(sent)].poc
          /\ building_meta = Len(sent)
      BY <1>4, <2>2
    <3>2. full = Append(buffer, e)
      BY <1>3, <3>1 DEF Pushed
    <3>3. e \in EntrySet /\ e.gop = gop_id /\ e.meta = Len(sent) /\ e.frame = r.frame
      BY <1>0, <3>1 DEF EntrySet
    <3> HIDE DEF e
    <3>4. Len(sent) \in 1..Len(sent)
      BY <1>0, <2>2, StreamIs
    <3>5. Whole(e, Len(sent))
      BY <3>1, <3>3, <3>4 DEF Whole
    <3>6. full \in Seq(EntrySet)
      BY ONLY <1>0, <3>2, <3>3
    <3> QED BY <1>1, <2>2, <3>2, <3>3, <3>5, <3>6 DEF FullIs, Idle
  <2> QED BY <2>1, <2>2
<1>9. Emits(full, Len(full))
  <2>1. Without(full, Len(full)) = <<>>
    <3>1. PICK n : n = Len(full)
      OBVIOUS
    <3>2. n \in 0..Len(full)
      BY <1>8, <3>1
    <3>3. Without(full, n) \in Seq(EntrySet) /\ Len(Without(full, n)) = Len(full) - n
      BY <1>8, <3>2, Split
    <3> QED BY <1>8, <3>1, <3>3
  <2> QED BY <1>6, <2>1 DEF Emits
<1> QED BY <1>1, <1>6, <1>7, <1>8, <1>9

-----------------------------------------------------------------------------
(* The invariant of a clean stream.                                        *)

(* Entries that leave the buffer stay what they are, the finished frame    *)
(* with them.                                                              *)
LEMMA FinishedWhole ==
    ASSUME IInv, CleanInv, ~cur.done, NEW full \in Seq(EntrySet), FullIs(full),
           NEW n \in 0..Len(full), Emits(full, n), NEW m, m = Len(sent),
           \A f \in 1..m : slices'[f] = slices[f] /\ sent'[f] = sent[f]
    PROVE  AllWhole(m)'
<1>0. /\ shown \in Seq(ShownSet) /\ buffer \in Seq(EntrySet) /\ StreamTypes
      /\ m \in Nat /\ (sent = <<>> <=> m = 0)
  BY StreamIs DEF IInv, DecoderTypes
<1>1. PICK k : k = IF Idle THEN m ELSE m - 1
  OBVIOUS
<1>2. k \in Nat /\ k <= m
  BY <1>0, <1>1 DEF Idle
<1>3. /\ Len(shown) + Len(buffer) = k
      /\ \A i \in DOMAIN shown : Whole(shown[i], k)
      /\ \A i \in DOMAIN buffer : Whole(buffer[i], k)
  BY <1>1 DEF CleanInv, AllWhole
<1>4. \A e : Whole(e, k) => Whole(e, m)
  <2>1. \A x \in 1..k : x \in 1..m
    BY <1>0, <1>2
  <2> QED BY <2>1 DEF Whole
<1>5. Len(shown) + Len(full) = m /\ \A i \in DOMAIN full : Whole(full[i], m)
  <2>1. CASE Idle
    <3>1. full = buffer /\ k = m
      BY <1>1, <2>1 DEF FullIs
    <3> QED BY <1>3, <3>1
  <2>2. CASE ~Idle
    <3>1. PICK e \in EntrySet : full = Append(buffer, e) /\ Whole(e, m)
      BY <2>2 DEF FullIs
    <3>2. /\ Len(full) = Len(buffer) + 1 /\ DOMAIN full = 1..Len(buffer) + 1
          /\ DOMAIN buffer = 1..Len(buffer) /\ Len(buffer) \in Nat
          /\ full[Len(buffer) + 1] = e /\ \A i \in 1..Len(buffer) : full[i] = buffer[i]
      BY ONLY <1>0, <3>1
    <3>3. \A i \in DOMAIN full : i \in DOMAIN buffer \/ i = Len(buffer) + 1
      BY <3>2
    <3>4. \A i \in DOMAIN full : Whole(full[i], m)
      BY <1>3, <1>4, <3>1, <3>2, <3>3
    <3>5. k = m - 1 /\ Len(shown) \in Nat
      BY <1>0, <1>1, <2>2
    <3>6. Len(shown) + Len(full) = m
      <4>1. PICK a, b, c : a = Len(shown) /\ b = Len(buffer) /\ c = Len(full)
        OBVIOUS
      <4>2. a + b = k /\ c = b + 1 /\ a \in Nat /\ b \in Nat
        BY ONLY <1>3, <3>2, <3>5, <4>1
      <4>3. a + c = m
        BY ONLY <1>0, <3>5, <4>2
      <4> QED BY ONLY <4>1, <4>3
    <3> QED BY <3>4, <3>6
  <2> QED BY <2>1, <2>2
<1> QED BY <1>0, <1>2, <1>3, <1>5, EmitsWhole

(* The same while the last frame goes on.                                  *)
LEMMA BufferedWhole ==
    ASSUME IInv, CleanInv, NEW n \in 0..Len(buffer), Emits(buffer, n),
           NEW m, m = IF Idle THEN Len(sent) ELSE Len(sent) - 1,
           \A f \in 1..m : slices'[f] = slices[f] /\ sent'[f] = sent[f]
    PROVE  AllWhole(m)'
<1>0. /\ shown \in Seq(ShownSet) /\ buffer \in Seq(EntrySet) /\ StreamTypes
      /\ m \in Nat
  BY StreamIs DEF IInv, DecoderTypes, Idle
<1>1. AllWhole(m)
  BY DEF CleanInv
<1>2. /\ Len(shown) + Len(buffer) = m
      /\ \A i \in DOMAIN shown : Whole(shown[i], m)
      /\ \A i \in DOMAIN buffer : Whole(buffer[i], m)
  BY <1>1 DEF AllWhole
<1>3. PICK full, k : full = buffer /\ k = m
  OBVIOUS
<1>4. /\ full \in Seq(EntrySet) /\ n \in 0..Len(full) /\ Emits(full, n)
      /\ k \in Nat /\ k <= m /\ Len(shown) + Len(full) = m
      /\ \A i \in DOMAIN shown : Whole(shown[i], k)
      /\ \A i \in DOMAIN full : Whole(full[i], m)
  BY <1>0, <1>2, <1>3
<1> QED BY <1>0, <1>4, EmitsWhole

\* What a frame adds to the stream.
Appended(idr, poc) ==
    /\ Len(sent') = Len(sent) + 1
    /\ \A f \in 1..Len(sent) : sent'[f] = sent[f] /\ slices'[f] = slices[f]
    /\ sent'[Len(sent')].poc = poc
    /\ sent'[Len(sent')].gop = IF idr \/ sent = <<>> THEN Len(sent) + 1 ELSE sent[Len(sent)].gop
    /\ slices'[Len(sent')] = {Slice(Len(sent) + 1, cur'.part, 0)}
    /\ cur'.idr = idr /\ cur'.resized = FALSE /\ UNCHANGED sets

(* The first slice of a frame appends the frame to the stream.             *)
LEMMA FrameAppended ==
    ASSUME Clean, StreamTypes, NEW idr \in BOOLEAN, NEW kind \in Kinds,
           NEW poc \in Pocs \cup {0}, SendFrame(idr, kind, poc)
    PROVE  Appended(idr, poc)
<1> DEFINE number == Len(sent) + 1
           gop == IF idr \/ sent = <<>> THEN number ELSE sent[Len(sent)].gop
           part == IF kind = "frame" THEN 0 ELSE 1
           e == [gop |-> gop, poc |-> poc]
           s == {Slice(number, part, 0)}
<1>0. /\ sent \in Seq([gop : Nat, poc : Nat]) /\ slices \in Seq(SUBSET SliceSet)
      /\ Len(slices) = Len(sent) /\ cur \in CurSet
  BY DEF StreamTypes
<1>1. kind = "frame" \/ kind = "fields"
  BY DEF Clean
<1>2. /\ sent' = Append(sent, e) /\ slices' = Append(slices, s)
      /\ cur' = [cur EXCEPT !.part = part, !.n = 0, !.idr = idr, !.resized = FALSE]
      /\ UNCHANGED sets
  BY <1>1 DEF SendFrame, FrameNumber
<1>3. cur'.part = part /\ cur'.idr = idr /\ cur'.resized = FALSE
  BY <1>0, <1>2 DEF CurSet
<1>4. e.poc = poc /\ e.gop = gop
  OBVIOUS
<1> HIDE DEF e, s, gop
<1>5. PICK a, b : a = sent /\ b = slices
  OBVIOUS
<1>6. /\ a \in Seq([gop : Nat, poc : Nat]) /\ b \in Seq(SUBSET SliceSet) /\ Len(b) = Len(a)
      /\ sent' = Append(a, e) /\ slices' = Append(b, s)
  BY ONLY <1>0, <1>2, <1>5
<1>7. /\ Len(sent') = Len(a) + 1 /\ sent'[Len(a) + 1] = e
      /\ \A f \in 1..Len(a) : sent'[f] = a[f]
  BY ONLY <1>6
<1>8. slices'[Len(a) + 1] = s /\ \A f \in 1..Len(a) : slices'[f] = b[f]
  BY ONLY <1>6
<1>9. gop = IF idr \/ sent = <<>> THEN Len(a) + 1 ELSE a[Len(a)].gop
  BY ONLY <1>5 DEF gop
<1>10. s = {Slice(Len(a) + 1, part, 0)}
  BY ONLY <1>5 DEF s
<1>11. sent'[Len(sent')].poc = poc /\ sent'[Len(sent')].gop = gop
  BY <1>4, <1>7, Zenon
<1> QED BY ONLY <1>2, <1>3, <1>5, <1>7, <1>8, <1>9, <1>10, <1>11 DEF Appended

(* At the start.                                                           *)
LEMMA CleanInit == Init => CleanInv
<1> SUFFICES ASSUME Init PROVE CleanInv
  OBVIOUS
<1>1. /\ d.pending = None /\ d.pending_field = None /\ buffer = <<>> /\ building_meta = None
      /\ sent = <<>> /\ slices = <<>> /\ shown = <<>> /\ sets = 0
      /\ cur.part = 0 /\ cur.done = FALSE /\ cur.pps = FALSE /\ d.panicked = FALSE
  BY DEF Init, NewDecoder
<1>2. max_depth \in Nat
  BY OrderedDecoderAssumption
<1>3. Idle
  BY <1>1 DEF Idle
<1>4. AllWhole(0)
  BY <1>1 DEF AllWhole
<1> QED BY <1>1, <1>2, <1>3, <1>4 DEF CleanInv

(* A call that releases entries leaves the buffer no deeper than its bound. *)
LEMMA EmitsDepth ==
    ASSUME NEW full \in Seq(EntrySet), NEW gop, NEW n, n = Released(full, gop), Emits(full, n)
    PROVE  n \in 0..Len(full) /\ Len(buffer') <= max_depth /\ Len(buffer') = Len(full) - n
<1>1. n \in 0..Len(full) /\ Len(full) - n <= max_depth
  BY DepthKept
<1>2. Len(Without(full, n)) = Len(full) - n
  BY <1>1, Split
<1> QED BY <1>1, <1>2 DEF Emits

(* A new frame.                                                            *)
LEMMA CleanFrame ==
    ASSUME Clean, IInv, CleanInv, NEW idr \in BOOLEAN, NEW kind \in Kinds,
           NEW poc \in Pocs \cup {0}, SendFrame(idr, kind, poc)
    PROVE  CleanInv'
<1>0. StreamTypes /\ max_depth \in Nat
  BY OrderedDecoderAssumption DEF IInv
<1>1. PICK N : N = Len(sent)
  OBVIOUS
<1>2. /\ N \in Nat /\ DOMAIN slices = 1..N /\ slices \in Seq(SUBSET SliceSet)
  BY <1>0, <1>1, StreamIs
<1>3. /\ cur.done = FALSE /\ cur'.done = FALSE /\ cur'.part \in {0, 1} /\ cur'.pps
      /\ Building(d', cur'.part, {Slice(N + 1, cur'.part, 0)}, poc)
      /\ Sized(d') /\ d'.panicked = FALSE /\ Tables(d')
      /\ building_meta' = N + 1
      /\ \E full \in Seq(EntrySet) : FullIs(full) /\ Emits(full, Released(full, gop_id'))
  BY <1>1, FrameStarts
<1>4. /\ Len(sent') = N + 1
      /\ \A f \in 1..N : sent'[f] = sent[f] /\ slices'[f] = slices[f]
      /\ sent'[N + 1].poc = poc
      /\ slices'[N + 1] = {Slice(N + 1, cur'.part, 0)}
  BY <1>0, <1>1, FrameAppended DEF Appended
<1>5. PICK full, n :
         full \in Seq(EntrySet) /\ FullIs(full) /\ Emits(full, n) /\ n = Released(full, gop_id')
  BY <1>3
<1>6. n \in 0..Len(full) /\ Len(buffer') <= max_depth
  BY <1>5, EmitsDepth
<1>7. AllWhole(N)'
  BY <1>1, <1>3, <1>4, <1>5, <1>6, FinishedWhole
<1>8. sent' # <<>>
  BY <1>2, <1>4
<1>9. \A f \in DOMAIN slices' : slices'[f] # {}
  <2>1. StreamTypes'
    BY <1>0, FrameSent DEF IInv
  <2>2. DOMAIN slices' = 1..N + 1
    BY <1>4, <2>1, StreamIs DEF StreamTypes
  <2>3. \A f \in 1..N + 1 : f \in 1..N \/ f = N + 1
    BY <1>2
  <2> QED BY <1>2, <1>4, <2>2, <2>3 DEF CleanInv
<1>10. ~Idle' /\ Len(sent') - 1 = N
  BY <1>2, <1>3, <1>4, <1>8 DEF Idle
<1>11. Building(d', cur'.part, slices'[Len(sent')], sent'[Len(sent')].poc)
  BY <1>3, <1>4
<1>12. AllWhole(IF Idle THEN Len(sent) ELSE Len(sent) - 1)'
  BY <1>7, <1>10 DEF AllWhole, Whole
<1> QED BY <1>3, <1>4, <1>6, <1>8, <1>9, <1>10, <1>11, <1>12 DEF CleanInv, Tables

(* Another slice of the last frame.                                        *)
LEMMA CleanSlice ==
    ASSUME Clean, IInv, CleanInv, NEW part \in 0..3, NEW n \in 0..MaxSlices - 1,
           SendSlice(part, n)
    PROVE  CleanInv'
<1>0. StreamTypes /\ UpToCursor /\ buffer \in Seq(EntrySet) /\ max_depth \in Nat
  BY OrderedDecoderAssumption DEF IInv, DecoderTypes
<1>1. PICK N, slice : N = Len(sent) /\ slice = Slice(N, part, n)
  OBVIOUS
<1>2. part \in {0, 1, 2} /\ sent # <<>> /\ GoesOn(part, slice)
  BY <1>1, SliceGoesOn
<1>3. /\ N \in Nat /\ N > 0 /\ DOMAIN slices = 1..N /\ slices \in Seq(SUBSET SliceSet)
      /\ cur \in CurSet
  BY <1>0, <1>1, <1>2, StreamIs
<1>4. /\ ~cur.done /\ ~cur.resized /\ sent' = sent /\ sets' = sets
      /\ slices' = [slices EXCEPT ![N] = @ \cup {slice}]
      /\ cur' = [cur EXCEPT !.part = part, !.n = n]
  BY <1>1 DEF SendSlice, Going, FrameNumber
<1>5. /\ cur'.part = part /\ cur'.done = cur.done /\ cur'.pps = cur.pps
      /\ cur'.resized = cur.resized
  BY <1>3, <1>4 DEF CurSet
<1>6. /\ slices'[N] = slices[N] \cup {slice} /\ DOMAIN slices' = 1..N
      /\ \A f \in 1..N - 1 : slices'[f] = slices[f]
  BY ONLY <1>3, <1>4
<1>7. \A f \in DOMAIN slices' : slices'[f] # {}
  <2>1. \A f \in 1..N : f \in 1..N - 1 \/ f = N
    BY <1>3
  <2> QED BY <1>3, <1>6, <2>1 DEF CleanInv
<1>8. PICK m : m = Released(buffer, gop_id')
  OBVIOUS
<1>9. Emits(buffer, m)
  BY <1>2, <1>8 DEF GoesOn
<1>10. m \in 0..Len(buffer) /\ Len(buffer') <= max_depth
  BY <1>0, <1>8, <1>9, EmitsDepth
<1>11. ~Idle /\ ~Idle'
  BY <1>2, <1>4, <1>5 DEF Idle
<1>12. PICK k : k = N - 1
  OBVIOUS
<1>13. AllWhole(k)'
  <2>1. k = IF Idle THEN Len(sent) ELSE Len(sent) - 1
    BY <1>1, <1>11, <1>12
  <2>2. \A f \in 1..k : slices'[f] = slices[f] /\ sent'[f] = sent[f]
    BY <1>4, <1>6, <1>12
  <2> QED BY <1>9, <1>10, <2>1, <2>2, BufferedWhole
<1>14. AllWhole(IF Idle THEN Len(sent) ELSE Len(sent) - 1)'
  BY <1>1, <1>4, <1>11, <1>12, <1>13 DEF AllWhole, Whole
<1>15. /\ Building(d', cur'.part, slices'[Len(sent')], sent'[Len(sent')].poc)
       /\ building_meta' = Len(sent') /\ Sized(d') /\ d'.panicked = FALSE /\ Tables(d')
  BY <1>1, <1>2, <1>4, <1>5, <1>6 DEF GoesOn
<1>16. cur.pps
  BY <1>2 DEF CleanInv
<1> QED BY <1>2, <1>4, <1>5, <1>7, <1>10, <1>11, <1>14, <1>15, <1>16 DEF CleanInv, Tables

(* A NAL unit that is no slice.                                            *)
LEMMA CleanOther ==
    ASSUME IInv, CleanInv, Untouched, ~cur.done, UNCHANGED <<sent, slices>>,
           cur' \in CurSet, cur'.part = cur.part, cur'.done = cur.done,
           cur.pps => cur'.pps, cur'.pps => Tables(d'), sets' > 0 => DOMAIN d'.sps_table = {0},
           sent # <<>> /\ ~cur'.resized => ~cur.resized /\ ActiveSps(d') = ActiveSps(d)
    PROVE  CleanInv'
<1>0. StreamTypes /\ buffer \in Seq(EntrySet) /\ shown \in Seq(ShownSet)
  BY DEF IInv, DecoderTypes
<1>1. Idle' <=> Idle
  BY DEF Idle
<1>2. PICK m : m = IF Idle THEN Len(sent) ELSE Len(sent) - 1
  OBVIOUS
<1>3. /\ AllWhole(m)' /\ Len(buffer') <= max_depth
      /\ Idle => buffer' = <<>>
  <2>1. CASE UNCHANGED <<shown, buffer>>
    BY <1>2, <2>1 DEF CleanInv, AllWhole, Whole
  <2>2. CASE Emits(buffer, Released(buffer, gop_id))
    <3>1. PICK n, gop : n = Released(buffer, gop) /\ Emits(buffer, n)
      BY <2>2
    <3>2. n \in 0..Len(buffer) /\ Len(buffer') <= max_depth /\ Len(buffer') = Len(buffer) - n
      BY <1>0, <3>1, EmitsDepth
    <3>3. \A f \in 1..m : slices'[f] = slices[f] /\ sent'[f] = sent[f]
      OBVIOUS
    <3>4. AllWhole(m)'
      BY <1>2, <3>1, <3>2, <3>3, BufferedWhole
    <3>5. Idle => buffer' = <<>>
      <4>1. buffer' \in Seq(EntrySet)
        BY <1>0, <3>1, <3>2, Split DEF Emits
      <4> SUFFICES ASSUME Idle PROVE buffer' = <<>>
        OBVIOUS
      <4>2. buffer = <<>>
        BY DEF CleanInv
      <4>3. PICK a, left : a = Len(buffer) /\ left = buffer'
        OBVIOUS
      <4>4. a = 0
        BY <4>2, <4>3
      <4>5. n \in 0..a /\ Len(left) = a - n /\ left \in Seq(EntrySet)
        BY <3>2, <4>1, <4>3
      <4>6. left = <<>>
        BY ONLY <4>4, <4>5
      <4> QED BY <4>3, <4>6
    <3> QED BY <3>2, <3>4, <3>5
  <2> QED BY <2>1, <2>2 DEF Untouched
<1>4. AllWhole(IF Idle THEN Len(sent) ELSE Len(sent) - 1)'
  BY <1>1, <1>2, <1>3 DEF AllWhole, Whole
<1>5. /\ d'.pending = d.pending /\ d'.pending_field = d.pending_field
      /\ building_meta' = building_meta /\ d'.panicked = d.panicked
  BY DEF Untouched
<1>6. ~Idle => Building(d', cur'.part, slices'[Len(sent')], sent'[Len(sent')].poc)
  BY <1>5 DEF CleanInv, Building
<1>7. (~Idle /\ ~cur'.resized => Sized(d')) /\ d'.panicked = FALSE
  BY <1>5 DEF CleanInv, Idle, Sized
<1> QED BY <1>1, <1>3, <1>4, <1>5, <1>6, <1>7 DEF CleanInv

(* flush_with_meta.                                                        *)
LEMMA CleanEnd ==
    ASSUME IInv, CleanInv, End
    PROVE  CleanInv'
<1>0. StreamTypes /\ cur \in CurSet /\ max_depth \in Nat
  BY OrderedDecoderAssumption DEF IInv, StreamTypes
<1>1. /\ ~cur.done /\ UNCHANGED <<sent, slices, sets>>
      /\ cur' = [cur EXCEPT !.done = TRUE]
      /\ d'.pending = None /\ d'.pending_field = None /\ building_meta' = None
      /\ d'.panicked = FALSE
      /\ d'.sps_table = d.sps_table /\ d'.pps_table = d.pps_table
      /\ buffer' = <<>>
      /\ \E full \in Seq(EntrySet) : FullIs(full) /\ Emits(full, Len(full))
  BY Flushed
<1>2. PICK full, n : full \in Seq(EntrySet) /\ FullIs(full) /\ Emits(full, n) /\ n = Len(full)
  BY <1>1
<1>3. PICK m : m = Len(sent)
  OBVIOUS
<1>4. AllWhole(m)'
  <2>1. n \in 0..Len(full)
    BY <1>2
  <2>2. \A f \in 1..m : slices'[f] = slices[f] /\ sent'[f] = sent[f]
    BY <1>1
  <2> QED BY <1>1, <1>2, <1>3, <2>1, <2>2, FinishedWhole
<1>5. cur'.done /\ cur'.part = cur.part /\ cur'.pps = cur.pps
  BY <1>0, <1>1 DEF CurSet
<1>6. Idle'
  BY <1>5 DEF Idle
<1>7. AllWhole(IF Idle THEN Len(sent) ELSE Len(sent) - 1)'
  BY <1>1, <1>3, <1>4, <1>6 DEF AllWhole, Whole
<1>8. Len(buffer') <= max_depth
  BY <1>0, <1>1
<1> QED BY <1>1, <1>5, <1>6, <1>7, <1>8 DEF CleanInv, Tables

(* The invariant of a clean stream is kept by every action.                *)
LEMMA CleanStep == Clean /\ IInv /\ CleanInv /\ [Next]_vars => CleanInv'
<1> SUFFICES ASSUME Clean, IInv, CleanInv, [Next]_vars PROVE CleanInv'
  OBVIOUS
<1>0. cur \in CurSet /\ d \in DecoderSet
  BY DEF IInv, StreamTypes, DecoderTypes
<1>1. ASSUME NEW size \in Sizes, SendSps(size) PROVE CleanInv'
  <2>1. /\ Untouched /\ ~cur.done /\ UNCHANGED <<sent, slices>>
        /\ cur' = [cur EXCEPT !.resized = sent # <<>>]
        /\ DOMAIN d'.sps_table = {0} /\ d'.pps_table = d.pps_table
    BY <1>1, SpsPut
  <2>2. /\ cur' \in CurSet /\ cur'.part = cur.part /\ cur'.done = cur.done
        /\ cur'.pps = cur.pps /\ (cur'.resized <=> sent # <<>>)
    BY <1>0, <2>1 DEF CurSet
  <2>3. cur'.pps => Tables(d')
    BY <2>1, <2>2 DEF CleanInv, Tables
  <2> QED BY <2>1, <2>2, <2>3, CleanOther
<1>2. ASSUME SendPps PROVE CleanInv'
  <2>1. /\ Untouched /\ ~cur.done /\ UNCHANGED <<sent, slices>>
        /\ cur' = [cur EXCEPT !.pps = TRUE]
        /\ Tables(d') /\ d'.sps_table = d.sps_table
        /\ d'.pps_table[0] = 0
    BY <1>2, PpsPut
  <2>2. /\ cur' \in CurSet /\ cur'.part = cur.part /\ cur'.done = cur.done
        /\ cur'.pps /\ cur'.resized = cur.resized
    BY <1>0, <2>1 DEF CurSet
  <2>3. sent # <<>> => ActiveSps(d') = ActiveSps(d)
    <3> SUFFICES ASSUME sent # <<>> PROVE ActiveSps(d') = ActiveSps(d)
      OBVIOUS
    <3>1. Tables(d)
      BY DEF CleanInv
    <3>2. d.pps_table[0] = 0
      BY <1>0, <3>1, TableValue DEF DecoderSet, PpsTables, Tables
    <3>3. (CHOOSE i \in {0} : \A j \in {0} : i <= j) = 0
      OBVIOUS
    <3>4. FirstPps(d) = 0 /\ FirstPps(d') = 0
      BY <2>1, <3>1, <3>2, <3>3 DEF FirstPps, Tables
    <3> QED BY <2>1, <3>4 DEF ActiveSps
  <2>4. DOMAIN d'.sps_table = {0}
    BY <2>1 DEF Tables
  <2> QED BY <2>1, <2>2, <2>3, <2>4, CleanOther
<1>3. ASSUME NEW type \in {"Sei", "Sps", "Pps"}, SendOther(type) PROVE CleanInv'
  <2>1. Untouched /\ ~cur.done /\ UNCHANGED <<sent, slices, cur, sets>> /\ d' = d
    BY <1>3, OtherSent
  <2>2. /\ cur' = cur /\ sets' = sets /\ UNCHANGED <<sent, slices>>
        /\ ActiveSps(d') = ActiveSps(d) /\ cur.pps => Tables(d')
        /\ sets' > 0 => DOMAIN d'.sps_table = {0}
    BY <2>1 DEF CleanInv
  <2> QED BY <1>0, <2>1, <2>2, CleanOther
<1>4. ASSUME UNCHANGED vars PROVE CleanInv'
  <2>1. /\ UNCHANGED <<d, buffer, building_meta, gop_id, shown>>
        /\ UNCHANGED <<sent, slices, cur, sets>>
    BY <1>4 DEF vars
  <2>2. Idle' <=> Idle
    BY <2>1 DEF Idle
  <2>3. AllWhole(IF Idle THEN Len(sent) ELSE Len(sent) - 1)'
    BY <2>1, <2>2 DEF CleanInv, AllWhole, Whole
  <2> QED BY <2>1, <2>2, <2>3 DEF CleanInv
<1> QED BY <1>1, <1>2, <1>3, <1>4, CleanFrame, CleanSlice, CleanEnd DEF Next

(* The invariant of a clean stream holds in every reachable state of one.  *)
LEMMA CleanInvariance == Clean /\ Spec => [](IInv /\ CleanInv)
<1>1. ASSUME Clean PROVE Spec => [](IInv /\ CleanInv)
  <2>1. IInv /\ CleanInv /\ [Next]_vars => CleanInv'
    BY <1>1, CleanStep
  <2> QED BY Invariance, CleanInit, <2>1, PTL DEF Spec
<1> QED BY <1>1

-----------------------------------------------------------------------------
(* What the caller of a clean stream gets.                                 *)

(* The frame of a whole entry says which frame of the stream it is.        *)
LEMMA WholeNumbers ==
    ASSUME IInv, CleanInv, NEW e, NEW m, m <= Len(sent), m \in Nat, Whole(e, m)
    PROVE  e.meta \in DOMAIN sent /\ e.frame.slices # {} /\ Numbers(e.frame) = {e.meta}
<1>1. StreamTypes /\ UpToCursor
  BY DEF IInv
<1>2. e.meta \in 1..m /\ e.frame.slices = slices[e.meta]
  BY DEF Whole
<1>3. PICK N : N = Len(sent)
  OBVIOUS
<1>4. N \in Nat /\ DOMAIN sent = 1..N /\ DOMAIN slices = 1..N
  BY <1>1, <1>3, StreamIs
<1>5. e.meta \in 1..N
  BY <1>2, <1>3, <1>4
<1>6. slices[e.meta] # {} /\ \A s \in slices[e.meta] : s.frame = e.meta
  BY <1>1, <1>4, <1>5 DEF UpToCursor, CleanInv
<1> QED BY <1>2, <1>4, <1>5, <1>6 DEF Numbers

\* Every entry, shown or waiting, is whole, and none has the metadata of
\* another.
EntriesWhole ==
    /\ \A i \in DOMAIN shown : Whole(shown[i], Len(sent))
    /\ \A i \in DOMAIN buffer : Whole(buffer[i], Len(sent))
    /\ \A i, j \in DOMAIN shown : shown[i].meta = shown[j].meta => i = j
    /\ \A i, j \in DOMAIN buffer : buffer[i].meta = buffer[j].meta => i = j
    /\ \A i \in DOMAIN shown, j \in DOMAIN buffer : shown[i].meta # buffer[j].meta

(* As no slice is in two pieces, no frame of the stream is.                *)
LEMMA WholeApart == IInv /\ CleanInv => EntriesWhole
<1> SUFFICES ASSUME IInv, CleanInv PROVE EntriesWhole
  OBVIOUS
<1>0. /\ StreamTypes /\ shown \in Seq(ShownSet) /\ buffer \in Seq(EntrySet) /\ NoSliceTwice
  BY DEF IInv, DecoderTypes
<1>1. PICK N, m : N = Len(sent) /\ m = IF Idle THEN Len(sent) ELSE Len(sent) - 1
  OBVIOUS
<1>2. N \in Nat /\ m \in Nat /\ m <= N
  <2>1. Len(sent) \in Nat /\ (sent # <<>> <=> Len(sent) > 0)
    BY <1>0, StreamIs
  <2> QED BY <1>1, <2>1 DEF Idle
<1>3. /\ \A i \in DOMAIN shown : Whole(shown[i], m)
      /\ \A i \in DOMAIN buffer : Whole(buffer[i], m)
  BY <1>1 DEF CleanInv, AllWhole
<1>4. \A e : Whole(e, m) => Whole(e, N)
  <2>1. \A x \in 1..m : x \in 1..N
    BY <1>2
  <2> QED BY <2>1 DEF Whole
<1>5. \A e : Whole(e, N) => e.frame.slices = slices[e.meta] /\ e.frame.slices # {}
  BY <1>1, <1>2, WholeNumbers DEF Whole
<1>6. PICK a, b, P : a = Len(shown) /\ b = Len(buffer) /\ P = Pieces(shown, buffer)
  OBVIOUS
<1>7. /\ a \in Nat /\ b \in Nat /\ DOMAIN shown = 1..a /\ DOMAIN buffer = 1..b
      /\ DOMAIN P = 1..a + b
      /\ \A i \in 1..a : P[i] = shown[i].frame.slices
      /\ \A i \in 1..b : P[a + i] = buffer[i].frame.slices
  <2>1. a \in Nat /\ b \in Nat /\ DOMAIN shown = 1..a /\ DOMAIN buffer = 1..b
    BY <1>0, <1>6
  <2>2. P = [i \in 1..a + b |-> IF i <= a THEN shown[i].frame.slices
                                ELSE buffer[i - a].frame.slices]
    BY <1>6 DEF Pieces
  <2>3. \A i \in 1..a : i \in 1..a + b /\ i <= a
    BY <2>1
  <2>4. \A i \in 1..b : a + i \in 1..a + b /\ ~(a + i <= a) /\ a + i - a = i
    BY <2>1
  <2>5. \A i \in 1..a : P[i] = shown[i].frame.slices
    BY <2>2, <2>3
  <2>6. ASSUME NEW i \in 1..b PROVE P[a + i] = buffer[i].frame.slices
    <3>1. PICK k : k = a + i
      OBVIOUS
    <3>2. k \in 1..a + b /\ ~(k <= a) /\ k - a = i
      BY ONLY <2>1, <3>1, i \in 1..b
    <3>3. P[k] = buffer[i].frame.slices
      BY <2>2, <3>2
    <3> QED BY <3>1, <3>3
  <2> QED BY <2>1, <2>2, <2>5, <2>6
<1>8. \A i, j \in DOMAIN P : i # j => P[i] \cap P[j] = {}
  BY <1>0, <1>6 DEF NoSliceTwice
<1>9. ASSUME NEW i \in DOMAIN shown PROVE P[i] = slices[shown[i].meta] /\ P[i] # {}
  <2>1. Whole(shown[i], N)
    BY <1>3, <1>4, Zenon
  <2>2. P[i] = shown[i].frame.slices
    BY ONLY <1>7, i \in DOMAIN shown
  <2> QED BY <1>5, <2>1, <2>2, Zenon
<1>10. ASSUME NEW i \in DOMAIN buffer PROVE P[a + i] = slices[buffer[i].meta] /\ P[a + i] # {}
  <2>1. Whole(buffer[i], N)
    BY <1>3, <1>4, Zenon
  <2>2. P[a + i] = buffer[i].frame.slices
    BY ONLY <1>7, i \in DOMAIN buffer
  <2> QED BY <1>5, <2>1, <2>2, Zenon
<1>11. /\ \A i \in DOMAIN shown : i \in DOMAIN P /\ i \in Nat /\ i <= a
       /\ \A i \in DOMAIN buffer : a + i \in DOMAIN P /\ i \in Nat /\ a + i > a
  BY ONLY <1>7
<1>12. ASSUME NEW i \in DOMAIN shown, NEW j \in DOMAIN shown, shown[i].meta = shown[j].meta
       PROVE  i = j
  BY <1>8, <1>9, <1>11, <1>12
<1>13. ASSUME NEW i \in DOMAIN buffer, NEW j \in DOMAIN buffer, buffer[i].meta = buffer[j].meta
       PROVE  i = j
  <2>1. a + i = a + j
    BY <1>8, <1>10, <1>11, <1>13
  <2> QED BY ONLY <1>7, <1>11, <2>1, i \in DOMAIN buffer, j \in DOMAIN buffer
<1>14. ASSUME NEW i \in DOMAIN shown, NEW j \in DOMAIN buffer, shown[i].meta = buffer[j].meta
       PROVE  FALSE
  <2>1. i # a + j
    BY ONLY <1>7, <1>11, i \in DOMAIN shown, j \in DOMAIN buffer
  <2> QED BY <1>8, <1>9, <1>10, <1>11, <1>14, <2>1
<1> QED BY <1>1, <1>3, <1>4, <1>12, <1>13, <1>14 DEF EntriesWhole

(* On a clean stream every frame keeps its metadata, through the delay of  *)
(* the inner decoder and the reorder buffer (decoder.rs:1265).             *)
THEOREM MetadataStays == ASSUME Clean PROVE Spec => []MetaAssociation
<1>1. IInv /\ CleanInv => MetaAssociation
  <2> SUFFICES ASSUME IInv, CleanInv PROVE MetaAssociation
    OBVIOUS
  <2>0. StreamTypes /\ UpToCursor /\ d \in DecoderSet
    BY DEF IInv, DecoderTypes
  <2>1. PICK N : N = Len(sent)
    OBVIOUS
  <2>2. N \in Nat /\ N <= Len(sent) /\ (sent # <<>> <=> N > 0) /\ DOMAIN slices = 1..N
    BY <2>0, <2>1, StreamIs
  <2>3. \A e \in Entries : Whole(e, N)
    BY <2>1, WholeApart DEF EntriesWhole, Entries, Elements
  <2>4. \A e \in Entries : Numbers(e.frame) = {e.meta}
    BY <2>2, <2>3, WholeNumbers
  <2>5. d.pending # None \/ d.pending_field # None => ~Idle
    BY DEF CleanInv
  <2>6. ASSUME NEW x, x.slices # {}, x.slices \subseteq slices[N], ~Idle
        PROVE  Numbers(x) = {building_meta}
    <3>1. building_meta = N /\ N \in DOMAIN slices
      BY <2>1, <2>2, <2>6 DEF CleanInv, Idle
    <3>2. \A s \in slices[N] : s.frame = N
      BY <2>0, <3>1 DEF UpToCursor
    <3> QED BY <2>6, <3>1, <3>2 DEF Numbers
  <2>7. ~Idle => Building(d, cur.part, slices[N], sent[N].poc)
    BY <2>1 DEF CleanInv
  <2>8. d.pending # None => Numbers(d.pending) = {building_meta}
    <3> SUFFICES ASSUME d.pending # None PROVE Numbers(d.pending) = {building_meta}
      OBVIOUS
    <3>1. d.pending \in PendingSet
      BY <2>0 DEF DecoderSet
    <3>2. d.pending.slices # {}
      BY <3>1 DEF PendingSet
    <3>3. d.pending.slices \subseteq slices[N]
      BY <2>5, <2>7 DEF Building
    <3> QED BY <2>5, <2>6, <3>2, <3>3
  <2>9. d.pending_field # None => Numbers(d.pending_field) = {building_meta}
    <3> SUFFICES ASSUME d.pending_field # None PROVE Numbers(d.pending_field) = {building_meta}
      OBVIOUS
    <3>1. d.pending_field.slices # {} /\ d.pending_field.slices \subseteq slices[N]
      BY <2>5, <2>7 DEF Building
    <3> QED BY <2>5, <2>6, <3>1
  <2> QED BY <2>4, <2>8, <2>9 DEF MetaAssociation
<1> QED BY CleanInvariance, <1>1, PTL

(* On a clean stream the two fields of a pair always fill the frame that    *)
(* they are combined into: the slices of their planes are in range         *)
(* (decoder.rs:447-481).                                                   *)
THEOREM FieldsFit == ASSUME Clean PROVE Spec => []NeverPanics
<1>1. IInv /\ CleanInv => NeverPanics
  BY DEF CleanInv, NeverPanics
<1> QED BY CleanInvariance, <1>1, PTL

(* On a clean stream every frame has all slices of its picture, of both    *)
(* fields, and no other: first_mb_in_slice alone tells pictures apart      *)
(* (decoder.rs:203).                                                       *)
THEOREM PicturesWhole == ASSUME Clean PROVE Spec => []FramesWhole
<1>1. IInv /\ CleanInv => FramesWhole
  <2> SUFFICES ASSUME IInv, CleanInv PROVE FramesWhole
    OBVIOUS
  <2>1. PICK N : N = Len(sent)
    OBVIOUS
  <2>2. N \in Nat /\ N <= Len(sent)
    BY <2>1, StreamIs DEF IInv
  <2>3. \A e \in Entries : Whole(e, N)
    BY <2>1, WholeApart DEF EntriesWhole, Entries, Elements
  <2>4. \A e \in Entries : e.meta \in DOMAIN sent /\ e.frame.slices = slices[e.meta]
    BY <2>2, <2>3, WholeNumbers DEF Whole
  <2> QED BY <2>4 DEF FramesWhole
<1> QED BY CleanInvariance, <1>1, PTL

(* The caller of a clean stream never waits for more frames than the       *)
(* reorder buffer holds and the one under construction (decoder.rs:1133).  *)
THEOREM LatencyIsBounded == ASSUME Clean PROVE Spec => []LatencyBounded
<1>1. IInv /\ CleanInv => LatencyBounded
  <2> SUFFICES ASSUME IInv, CleanInv PROVE LatencyBounded
    OBVIOUS
  <2>1. PICK N, a, b : N = Len(sent) /\ a = Len(shown) /\ b = Len(buffer)
    OBVIOUS
  <2>2. N \in Nat /\ a \in Nat /\ b \in Nat /\ max_depth \in Nat
    BY <2>1, StreamIs, OrderedDecoderAssumption DEF IInv, DecoderTypes
  <2>3. a + b = N \/ a + b = N - 1
    BY <2>1 DEF CleanInv, AllWhole
  <2>4. b <= max_depth
    BY <2>1 DEF CleanInv
  <2>5. N - a <= max_depth + 1
    BY ONLY <2>2, <2>3, <2>4
  <2> QED BY <2>1, <2>5 DEF LatencyBounded, FrameNumber
<1> QED BY CleanInvariance, <1>1, PTL

\* The frames of the stream that the caller has, as DisplayOrder has them.
Metadata == [i \in DOMAIN shown |-> shown[i].meta]

(* The frames shown, as the refinement reads them off their slices, are    *)
(* those of their metadata.                                                *)
LEMMA ShownIs ==
    IInv /\ CleanInv =>
      [i \in DOMAIN shown |-> CHOOSE f \in DOMAIN sent : f \in Numbers(shown[i].frame)] = Metadata
<1> SUFFICES ASSUME IInv, CleanInv
             PROVE  [i \in DOMAIN shown |->
                       CHOOSE f \in DOMAIN sent : f \in Numbers(shown[i].frame)] = Metadata
  OBVIOUS
<1>1. PICK N : N = Len(sent)
  OBVIOUS
<1>2. N \in Nat /\ N <= Len(sent)
  BY <1>1, StreamIs DEF IInv
<1>3. ASSUME NEW i \in DOMAIN shown
      PROVE  (CHOOSE f \in DOMAIN sent : f \in Numbers(shown[i].frame)) = shown[i].meta
  <2>1. Whole(shown[i], N)
    BY <1>1, WholeApart DEF EntriesWhole
  <2>2. shown[i].meta \in DOMAIN sent /\ Numbers(shown[i].frame) = {shown[i].meta}
    BY <1>2, <2>1, WholeNumbers
  <2> QED BY <2>2
<1> QED BY <1>3 DEF Metadata

(* Once the caller of a clean stream has flushed, it has every frame.      *)
THEOREM FlushShowsAll == ASSUME Clean PROVE Spec => []AllShownOnceFlushed
<1>1. IInv /\ CleanInv => AllShownOnceFlushed
  <2> SUFFICES ASSUME IInv, CleanInv, cur.done PROVE Order!AllShown
    BY DEF AllShownOnceFlushed
  <2>0. StreamTypes /\ shown \in Seq(ShownSet)
    BY DEF IInv, DecoderTypes
  <2>1. PICK N : N = Len(sent)
    OBVIOUS
  <2>2. N \in Nat /\ DOMAIN sent = 1..N
    BY <2>0, <2>1, StreamIs
  <2>3. Len(shown) = N
    <3>1. buffer = <<>> /\ Idle
      BY DEF CleanInv, Idle
    <3>2. Len(shown) + Len(buffer) = N
      BY <2>1, <3>1 DEF CleanInv, AllWhole
    <3>3. Len(shown) \in Nat
      BY <2>0
    <3> QED BY <3>1, <3>2, <3>3
  <2>4. DOMAIN shown = 1..N
    BY <2>0, <2>2, <2>3
  <2>5. /\ \A i \in 1..N : Metadata[i] \in 1..N
        /\ \A i, j \in 1..N : Metadata[i] = Metadata[j] => i = j
        /\ Metadata \in [1..N -> 1..N]
    BY <2>1, <2>4, WholeApart DEF EntriesWhole, Whole, Metadata
  <2>6. IsFiniteSet(1..N) /\ Cardinality(1..N) = N
    BY <2>2, FS_Interval
  <2>7. Metadata \in Surjection(1..N, 1..N)
    <3>1. Metadata \in Injection(1..N, 1..N)
      BY <2>5 DEF Injection, IsInjective
    <3> QED BY <2>6, <3>1, FS_Injection
  <2>8. \A f \in 1..N : \E i \in 1..N : Metadata[i] = f
    BY <2>7 DEF Surjection
  <2>9. [i \in DOMAIN shown |-> CHOOSE f \in DOMAIN sent : f \in Numbers(shown[i].frame)] = Metadata
    BY ShownIs
  <2>10. DOMAIN Metadata = 1..N
    BY <2>4 DEF Metadata
  <2> QED BY <2>2, <2>8, <2>9, <2>10 DEF Order!AllShown
<1> QED BY CleanInvariance, <1>1, PTL

-----------------------------------------------------------------------------
(* Display order.                                                          *)

\* Frame f of the stream is shown before frame g.
Prec(f, g) ==
    \/ sent[f].gop < sent[g].gop
    \/ sent[f].gop = sent[g].gop /\ sent[f].poc < sent[g].poc

\* The frames of the GOP of f that are shown after it.
Above(f) == {g \in DOMAIN sent : sent[g].gop = sent[f].gop /\ sent[g].poc > sent[f].poc}

\* GOPs come one after the other; the frames of one differ in their POC.
StreamOrder ==
    /\ \A f, g \in DOMAIN sent : f <= g => sent[f].gop <= sent[g].gop
    /\ \A f \in DOMAIN sent : sent[f].gop <= f
    /\ \A f, g \in DOMAIN sent : sent[f].gop = sent[g].gop /\ sent[f].poc = sent[g].poc => f = g

InOrder(out) == \A i, j \in DOMAIN out : i < j => Prec(out[i].meta, out[j].meta)

\* All of `out` is shown before all of s.
Ahead(out, s) == \A i \in DOMAIN out, j \in DOMAIN s : Prec(out[i].meta, s[j].meta)

\* The entries of s, of the GOP with that number, are of the GOP of frame f.
OneGop(s, gop, f) ==
    \A i \in DOMAIN s : s[i].gop = gop /\ sent[s[i].meta].gop = sent[f].gop

\* What is shown of the GOP of frame f is shown before max_depth frames of
\* it at least.
FarBelow(out, f) ==
    \A i \in DOMAIN out : sent[out[i].meta].gop = sent[f].gop =>
                            Cardinality(Above(out[i].meta)) >= max_depth

OrderInv ==
    /\ StreamOrder
    /\ InOrder(shown)
    /\ ~Idle => /\ cur.idr => buffer = <<>>
                /\ OneGop(buffer, gop_id, Len(sent))
                /\ Ahead(shown, buffer)
                /\ \A i \in DOMAIN shown : Prec(shown[i].meta, Len(sent))
                /\ FarBelow(shown, Len(sent))

\* Whole entries of one GOP, each another frame, behind all that is shown.
Ready(full, gop) ==
    /\ \A i \in DOMAIN full : Whole(full[i], Len(sent))
    /\ OneGop(full, gop, Len(sent))
    /\ \A i, j \in DOMAIN full : full[i].meta = full[j].meta => i = j
    /\ Ahead(shown, full)

(* The keys of ready entries are in display order.                         *)
LEMMA KeysInOrder ==
    ASSUME StreamTypes, StreamOrder, NEW full \in Seq(EntrySet), NEW gop, Ready(full, gop),
           NEW u \in DOMAIN full, NEW v \in DOMAIN full, Before(full, u, v)
    PROVE  /\ Prec(full[u].meta, full[v].meta)
           /\ sent[full[u].meta].gop = sent[full[v].meta].gop
           /\ sent[full[u].meta].poc < sent[full[v].meta].poc
<1>1. PICK f, g : f = full[u].meta /\ g = full[v].meta
  OBVIOUS
<1>2. PICK N : N = Len(sent)
  OBVIOUS
<1>3. DOMAIN sent = 1..N /\ \A h \in 1..N : sent[h].gop \in Nat /\ sent[h].poc \in Nat
  BY <1>2, StreamIs
<1>4. /\ f \in 1..N /\ full[u].frame.poc = sent[f].poc /\ full[u].gop = gop
      /\ g \in 1..N /\ full[v].frame.poc = sent[g].poc /\ full[v].gop = gop
      /\ sent[f].gop = sent[g].gop
  BY <1>1, <1>2 DEF Ready, Whole, OneGop
<1>5. u # v
  BY KeyOrders
<1>6. f # g
  BY <1>1, <1>5 DEF Ready
<1>7. sent[f].poc # sent[g].poc
  BY <1>3, <1>4, <1>6 DEF StreamOrder
<1>8. gop \in Nat
  <2>1. full[u] \in EntrySet
    OBVIOUS
  <2> QED BY <1>4, <2>1 DEF EntrySet
<1>9. sent[f].poc <= sent[g].poc
  BY <1>3, <1>4, <1>8 DEF Before
<1>10. sent[f].poc < sent[g].poc
  BY <1>3, <1>4, <1>7, <1>9
<1> QED BY <1>1, <1>4, <1>10 DEF Prec

\* The n lowest of the entries `full` are at the end of `out`, in order,
\* the others left behind it; a entries were there before.
InOrderOut(a, full, n, out, left) ==
    /\ InOrder(out) /\ Ahead(out, left)
    /\ out \in Seq(ShownSet) /\ left \in Seq(EntrySet)
    /\ Len(out) = a + n /\ Len(left) = Len(full) - n
    /\ \A i \in 1..a : out[i] = shown[i]
    /\ \A i \in DOMAIN out : i > a => \E u \in DOMAIN full : out[i].meta = full[u].meta
    /\ \A j \in DOMAIN left : \E v \in DOMAIN full : left[j] = full[v]
    /\ \A i \in DOMAIN out, j \in DOMAIN left : i > a => left[j].meta \in Above(out[i].meta)

(* Releasing ready entries keeps the order, and what stays is behind.      *)
LEMMA OrderEmitted ==
    ASSUME StreamTypes, StreamOrder, shown \in Seq(ShownSet), InOrder(shown),
           NEW full \in Seq(EntrySet), NEW gop, Ready(full, gop),
           NEW n \in 0..Len(full), Emits(full, n),
           NEW out, out = shown', NEW left, left = buffer'
    PROVE  InOrderOut(Len(shown), full, n, out, left)
<1>1. out = shown \o Received(Lowest(full, n)) /\ left = Without(full, n)
  BY DEF Emits
<1>2. HandsOut(shown, full, n, out, left)
  BY ONLY <1>1, shown \in Seq(ShownSet), full \in Seq(EntrySet), n \in 0..Len(full), Handout
<1>3. Sorts(Len(shown), full, n, out, left)
  BY ONLY <1>1, shown \in Seq(ShownSet), full \in Seq(EntrySet), n \in 0..Len(full), Sorted
<1>4. PICK a : a = Len(shown)
  OBVIOUS
<1>5. /\ out \in Seq(ShownSet) /\ left \in Seq(EntrySet)
      /\ Len(out) = a + n /\ Len(left) = Len(full) - n
      /\ \A i \in DOMAIN left : \E j \in DOMAIN full : left[i] = full[j]
      /\ \A i \in 1..a : out[i] = shown[i]
      /\ \A i \in DOMAIN out : i > a => \E j \in DOMAIN full : out[i].meta = full[j].meta
  BY <1>2, <1>4, Zenon DEF HandsOut
<1>6. a \in Nat /\ DOMAIN shown = 1..a /\ DOMAIN out = 1..a + n /\ n \in Nat
  <2>1. a \in Nat /\ DOMAIN shown = 1..a
    BY <1>4
  <2>2. DOMAIN out = 1..Len(out)
    BY ONLY <1>5
  <2> QED BY <1>5, <2>1, <2>2
<1>7. ASSUME NEW i \in DOMAIN out, NEW j \in DOMAIN out, i < j
      PROVE  Prec(out[i].meta, out[j].meta)
  <2>1. CASE j <= a
    <3>1. i \in 1..a /\ j \in 1..a
      BY ONLY <1>6, <1>7, <2>1
    <3> QED BY <1>5, <1>6, <1>7, <3>1 DEF InOrder
  <2>2. CASE i <= a /\ ~(j <= a)
    <3>1. i \in 1..a /\ j > a
      BY ONLY <1>6, <1>7, <2>2
    <3>2. PICK v \in DOMAIN full : out[j].meta = full[v].meta
      BY <1>5, <3>1
    <3> QED BY <1>5, <1>6, <3>1, <3>2 DEF Ready, Ahead
  <2>3. CASE ~(i <= a)
    <3>1. i \in 1..a + n /\ j \in 1..a + n /\ a < i
      BY ONLY <1>6, <1>7, <2>3
    <3>2. PICK u \in DOMAIN full, v \in DOMAIN full :
             Before(full, u, v) /\ Same(out[i], full[u]) /\ Same(out[j], full[v])
      BY <1>3, <1>4, <1>7, <3>1 DEF Sorts
    <3>3. Prec(full[u].meta, full[v].meta)
      BY <3>2, KeysInOrder
    <3> QED BY <3>2, <3>3 DEF Same
  <2> QED BY <2>1, <2>2, <2>3
<1>8. ASSUME NEW i \in DOMAIN out, NEW j \in DOMAIN left, i > a
      PROVE  Prec(out[i].meta, left[j].meta) /\ left[j].meta \in Above(out[i].meta)
  <2>1. i \in 1..a + n /\ a < i
    BY ONLY <1>6, <1>8
  <2>2. PICK u \in DOMAIN full, v \in DOMAIN full :
           Before(full, u, v) /\ Same(out[i], full[u]) /\ left[j] = full[v]
    BY <1>3, <1>4, <2>1 DEF Sorts
  <2>3. /\ Prec(full[u].meta, full[v].meta)
        /\ sent[full[u].meta].gop = sent[full[v].meta].gop
        /\ sent[full[u].meta].poc < sent[full[v].meta].poc
    BY <2>2, KeysInOrder
  <2>4. /\ full[v].meta \in DOMAIN sent /\ full[u].meta \in DOMAIN sent
        /\ \A h \in DOMAIN sent : sent[h].poc \in Int
    BY StreamIs DEF Ready, Whole
  <2>5. full[v].meta \in Above(full[u].meta)
    BY <2>3, <2>4 DEF Above
  <2> QED BY <2>2, <2>3, <2>5 DEF Same
<1>9. ASSUME NEW i \in DOMAIN out, NEW j \in DOMAIN left, ~(i > a)
      PROVE  Prec(out[i].meta, left[j].meta)
  <2>1. i \in 1..a
    BY ONLY <1>6, <1>9
  <2>2. PICK v \in DOMAIN full : left[j] = full[v]
    BY <1>5
  <2> QED BY <1>5, <1>6, <2>1, <2>2 DEF Ready, Ahead
<1>10. InOrder(out) /\ Ahead(out, left)
  BY <1>7, <1>8, <1>9 DEF InOrder, Ahead
<1>11. InOrderOut(a, full, n, out, left)
  BY <1>5, <1>8, <1>10 DEF InOrderOut
<1> QED BY <1>4, <1>11

(* A new GOP releases all entries of the one before it; in a GOP, those    *)
(* beyond the depth are released (decoder.rs:1378-1406).                   *)
LEMMA GopReleased ==
    ASSUME NEW full \in Seq(EntrySet), NEW gop \in Nat, \A i \in DOMAIN full : full[i].gop = gop
    PROVE  /\ Released(full, gop + 1) = Len(full)
           /\ Released(full, gop) = Excess(full)
<1>1. PICK b : b = Len(full)
  OBVIOUS
<1>2. b \in Nat /\ DOMAIN full = 1..b /\ max_depth \in Nat
  BY <1>1, OrderedDecoderAssumption
<1>3. Excess(full) = IF b > max_depth THEN b - max_depth ELSE 0
  BY <1>1 DEF Excess
<1>4. Completed(full, gop + 1) = b
  <2>1. {i \in DOMAIN full : full[i].gop < gop + 1} = 1..b
    BY <1>2
  <2>2. Cardinality(1..b) = b
    BY <1>2, FS_Interval
  <2> QED BY <2>1, <2>2 DEF Completed
<1>5. Completed(full, gop) = 0
  <2>1. {i \in DOMAIN full : full[i].gop < gop} = {}
    OBVIOUS
  <2> QED BY <2>1, FS_EmptySet DEF Completed
<1>6. PICK x : x = Excess(full)
  OBVIOUS
<1>7. x \in Nat /\ x <= b
  BY ONLY <1>2, <1>3, <1>6
<1> QED BY <1>1, <1>2, <1>4, <1>5, <1>6, <1>7 DEF Released

(* The buffer and the finished frame are ready to be released.             *)
LEMMA FrameReady ==
    ASSUME IInv, CleanInv, OrderInv, ~cur.done, NEW full \in Seq(EntrySet), FullIs(full)
    PROVE  /\ Ready(full, gop_id)
           /\ Idle => full = <<>>
           /\ ~Idle => Len(full) <= max_depth + 1 /\ Len(full) > 0
<1>0. /\ StreamTypes /\ buffer \in Seq(EntrySet) /\ gop_id \in Nat /\ max_depth \in Nat
  BY OrderedDecoderAssumption DEF IInv, DecoderTypes
<1>1. CASE Idle
  <2>1. full = <<>>
    BY <1>1 DEF FullIs, CleanInv
  <2> QED BY <1>1, <2>1 DEF Ready, OneGop, Ahead
<1>2. CASE ~Idle
  <2>1. PICK N : N = Len(sent)
    OBVIOUS
  <2>2. N \in Nat /\ N > 0 /\ DOMAIN sent = 1..N
    BY <1>0, <1>2, <2>1, StreamIs DEF Idle
  <2>3. PICK e \in EntrySet : /\ full = Append(buffer, e) /\ e.gop = gop_id
                              /\ e.meta = N /\ Whole(e, N)
    BY <1>2, <2>1 DEF FullIs
  <2>4. PICK b : b = Len(buffer)
    OBVIOUS
  <2>5. /\ Len(full) = b + 1 /\ DOMAIN full = 1..b + 1 /\ DOMAIN buffer = 1..b /\ b \in Nat
        /\ full[b + 1] = e /\ \A i \in 1..b : full[i] = buffer[i]
    BY ONLY <1>0, <2>3, <2>4
  <2>6. \A i \in DOMAIN full : i \in 1..b \/ i = b + 1
    BY ONLY <2>5
  <2>7. /\ \A i \in 1..b : Whole(buffer[i], N) /\ Whole(buffer[i], N - 1)
        /\ \A i, j \in 1..b : buffer[i].meta = buffer[j].meta => i = j
    BY <1>2, <2>1, <2>5, WholeApart DEF EntriesWhole, CleanInv, AllWhole
  <2>8. \A i \in 1..b : buffer[i].meta # N
    <3>1. \A x \in 1..N - 1 : x # N
      BY ONLY <2>2
    <3> QED BY <2>7, <3>1 DEF Whole
  <2>9. /\ \A i \in 1..b : buffer[i].gop = gop_id /\ sent[buffer[i].meta].gop = sent[N].gop
        /\ \A i \in DOMAIN shown, j \in 1..b : Prec(shown[i].meta, buffer[j].meta)
        /\ \A i \in DOMAIN shown : Prec(shown[i].meta, N)
    BY <1>2, <2>1, <2>5 DEF OrderInv, OneGop, Ahead
  <2>10. \A i \in DOMAIN full : Whole(full[i], N)
    BY <2>3, <2>5, <2>6, <2>7
  <2>11. OneGop(full, gop_id, N)
    BY <2>3, <2>5, <2>6, <2>9 DEF OneGop
  <2>12. \A i, j \in DOMAIN full : full[i].meta = full[j].meta => i = j
    BY <2>3, <2>5, <2>6, <2>7, <2>8
  <2>13. Ahead(shown, full)
    BY <2>3, <2>5, <2>6, <2>9 DEF Ahead
  <2>14. b <= max_depth
    BY <2>4 DEF CleanInv
  <2>15. Len(full) <= max_depth + 1 /\ Len(full) > 0
    BY ONLY <1>0, <2>5, <2>14
  <2> QED BY <1>2, <2>1, <2>10, <2>11, <2>12, <2>13, <2>15 DEF Ready
<1> QED BY <1>1, <1>2

(* What the stream already has is in the same order after it has grown.    *)
LEMMA OrderKept ==
    ASSUME NEW N \in Nat, DOMAIN sent = 1..N, \A f \in 1..N : sent'[f] = sent[f],
           1..N \subseteq DOMAIN sent'
    PROVE  /\ \A f, g \in 1..N : Prec(f, g) => Prec(f, g)'
           /\ \A f \in 1..N : Above(f) \subseteq Above(f)'
BY DEF Prec, Above

(* A frame that stays when one of its GOP is released has as many frames   *)
(* shown after it as stay.                                                 *)
LEMMA ManyAbove ==
    ASSUME StreamTypes, NEW f, NEW left \in Seq(EntrySet),
           \A j \in DOMAIN left : left[j].meta \in Above(f),
           \A i, j \in DOMAIN left : left[i].meta = left[j].meta => i = j
    PROVE  Cardinality(Above(f)) >= Len(left)
<1>1. PICK b, N : b = Len(left) /\ N = Len(sent)
  OBVIOUS
<1>2. b \in Nat /\ DOMAIN left = 1..b /\ N \in Nat /\ DOMAIN sent = 1..N
  BY <1>1, StreamIs
<1>3. IsFiniteSet(Above(f))
  <2>1. Above(f) \subseteq 1..N
    BY <1>2 DEF Above
  <2> QED BY <1>2, <2>1, FS_Interval, FS_Subset
<1>4. PICK g : g = [j \in 1..b |-> left[j].meta]
  OBVIOUS
<1>5. g \in Injection(1..b, Above(f))
  BY <1>2, <1>4 DEF Injection, IsInjective
<1>6. Cardinality(1..b) <= Cardinality(Above(f)) /\ Cardinality(1..b) = b
  BY <1>2, <1>3, <1>5, FS_Injection, FS_Interval
<1>7. Cardinality(Above(f)) \in Nat
  BY <1>3, FS_CardinalityType
<1> QED BY <1>1, <1>2, <1>6, <1>7

\* Of the first N frames, none of the GOP of the last is at that POC, and no
\* more of it than the buffer holds are above.
HasRoom(N, poc) ==
    /\ \A f \in 1..N : sent[f].gop = sent[N].gop => sent[f].poc # poc
    /\ Cardinality({f \in 1..N : sent[f].gop = sent[N].gop /\ sent[f].poc > poc}) <= max_depth

(* The frame that joins a GOP is not where another one of it is, and as    *)
(* many are shown after it as the encoder may hold back at most.           *)
LEMMA JoinsGop ==
    ASSUME Clean, StreamTypes, NEW kind \in Kinds, NEW poc \in Pocs \cup {0},
           SendFrame(FALSE, kind, poc), NEW N, N = Len(sent)
    PROVE  HasRoom(N, poc)
<1>1. sent # <<>>
  BY DEF SendFrame, Going, Clean
<1>2. kind = "frame" \/ kind = "fields"
  BY DEF Clean
<1>3. PICK gop : gop = sent[N].gop
  OBVIOUS
<1>4. PocIsFree(gop, poc) /\ ReorderFits(gop, poc)
  BY <1>1, <1>2, <1>3 DEF SendFrame, FrameNumber
<1>5. DOMAIN sent = 1..N
  BY StreamIs
<1> QED BY <1>1, <1>3, <1>4, <1>5 DEF PocIsFree, ReorderFits, HasRoom

(* Frames are appended to the last GOP or start one.                       *)
LEMMA StreamGrows ==
    ASSUME Clean, IInv, StreamOrder, NEW idr \in BOOLEAN, NEW kind \in Kinds,
           NEW poc \in Pocs \cup {0}, SendFrame(idr, kind, poc)
    PROVE  StreamOrder'
<1>1. PICK N, s : N = Len(sent) /\ s = sent'
  OBVIOUS
<1>2. StreamTypes /\ StreamTypes'
  BY FrameSent DEF IInv
<1>3. /\ N \in Nat /\ DOMAIN sent = 1..N /\ (sent # <<>> <=> N > 0)
      /\ \A f \in 1..N : sent[f].gop \in Nat /\ sent[f].poc \in Nat
  BY <1>1, <1>2, StreamIs
<1>4. /\ Len(s) = N + 1 /\ \A f \in 1..N : s[f] = sent[f]
      /\ s[N + 1].poc = poc
      /\ s[N + 1].gop = IF idr \/ sent = <<>> THEN N + 1 ELSE sent[N].gop
  BY <1>1, <1>2, FrameAppended DEF Appended
<1>5. DOMAIN s = 1..N + 1
  BY <1>1, <1>2, <1>4 DEF StreamTypes
<1>6. \A f \in 1..N + 1 : f \in 1..N \/ f = N + 1
  BY <1>3
<1>7. /\ \A f, g \in 1..N : f <= g => sent[f].gop <= sent[g].gop
      /\ \A f \in 1..N : sent[f].gop <= f
      /\ \A f, g \in 1..N : sent[f].gop = sent[g].gop /\ sent[f].poc = sent[g].poc => f = g
  BY <1>3 DEF StreamOrder
<1>8. CASE idr \/ sent = <<>>
  <2>1. s[N + 1].gop = N + 1
    BY <1>4, <1>8
  <2>2. \A f \in 1..N : s[f].gop < N + 1 /\ s[f].gop \in Nat
    BY <1>3, <1>4, <1>7
  <2>3. \A f, g \in 1..N + 1 : f <= g => s[f].gop <= s[g].gop
    BY <1>3, <1>4, <1>6, <1>7, <2>1, <2>2
  <2>4. \A f \in 1..N + 1 : s[f].gop <= f
    BY <1>3, <1>4, <1>6, <1>7, <2>1
  <2>5. \A f, g \in 1..N + 1 : s[f].gop = s[g].gop /\ s[f].poc = s[g].poc => f = g
    BY <1>4, <1>6, <1>7, <2>1, <2>2
  <2> QED BY <1>1, <1>5, <2>3, <2>4, <2>5 DEF StreamOrder
<1>9. CASE ~idr /\ sent # <<>>
  <2>1. s[N + 1].gop = sent[N].gop /\ N \in 1..N
    BY <1>3, <1>4, <1>9
  <2>2. \A f \in 1..N : sent[f].gop = sent[N].gop => sent[f].poc # poc
    <3>1. SendFrame(FALSE, kind, poc)
      <4>1. idr = FALSE
        BY <1>9
      <4> QED BY <4>1
    <3>2. HasRoom(N, poc)
      BY <1>1, <1>2, <3>1, JoinsGop
    <3> QED BY <3>2 DEF HasRoom
  <2>3. \A f \in 1..N : s[f].gop <= s[N + 1].gop /\ s[f].gop \in Nat
    BY <1>3, <1>4, <1>7, <2>1
  <2>4. \A f, g \in 1..N + 1 : f <= g => s[f].gop <= s[g].gop
    <3>1. s[N + 1].gop <= s[N + 1].gop /\ \A g \in 1..N : ~(N + 1 <= g)
      BY <1>3, <2>1
    <3> QED BY <1>4, <1>6, <1>7, <2>3, <3>1
  <2>5. \A f \in 1..N + 1 : s[f].gop <= f
    BY <1>3, <1>4, <1>6, <1>7, <2>1
  <2>6. \A f, g \in 1..N + 1 : s[f].gop = s[g].gop /\ s[f].poc = s[g].poc => f = g
    BY <1>4, <1>6, <1>7, <2>1, <2>2
  <2> QED BY <1>1, <1>5, <2>4, <2>5, <2>6 DEF StreamOrder
<1> QED BY <1>8, <1>9

(* A frame that is shown precedes one that joins its GOP: max_depth others *)
(* and itself would be shown after that one, more than are held back.      *)
LEMMA ShownPrecedes ==
    ASSUME StreamTypes, NEW N \in Nat, DOMAIN sent = 1..N, NEW f \in 1..N, NEW poc \in Nat,
           Cardinality(Above(f)) >= max_depth,
           \A g \in 1..N : sent[g].gop = sent[f].gop => sent[g].poc # poc,
           Cardinality({g \in 1..N : sent[g].gop = sent[f].gop /\ sent[g].poc > poc}) <= max_depth
    PROVE  sent[f].poc < poc
<1>1. \A g \in 1..N : sent[g].poc \in Nat
  BY StreamIs
<1> SUFFICES ASSUME sent[f].poc > poc PROVE FALSE
  BY <1>1
<1>2. PICK S : S = {g \in 1..N : sent[g].gop = sent[f].gop /\ sent[g].poc > poc}
  OBVIOUS
<1>3. Above(f) \cup {f} \subseteq S /\ f \notin Above(f)
  BY <1>1, <1>2 DEF Above
<1>4. IsFiniteSet(S)
  <2>1. S \in SUBSET (1..N)
    BY <1>2
  <2>2. IsFiniteSet(1..N)
    BY FS_Interval
  <2> QED BY ONLY <2>1, <2>2, FS_Subset
<1>5. IsFiniteSet(Above(f))
  BY <1>3, <1>4, FS_Subset
<1>6. Cardinality(Above(f) \cup {f}) = Cardinality(Above(f)) + 1
  BY <1>3, <1>5, FS_AddElement
<1>7. Cardinality(Above(f) \cup {f}) <= Cardinality(S)
  BY <1>3, <1>4, FS_Subset
<1>8. Cardinality(Above(f)) \in Nat /\ Cardinality(S) \in Nat /\ max_depth \in Nat
  BY <1>4, <1>5, FS_CardinalityType, OrderedDecoderAssumption
<1>9. Cardinality(S) <= max_depth
  BY <1>2
<1> QED BY ONLY Cardinality(Above(f)) >= max_depth, <1>6, <1>7, <1>8, <1>9

(* A new frame keeps the order.                                            *)
LEMMA OrderFrame ==
    ASSUME Clean, IInv, CleanInv, OrderInv, CleanInv', EntriesWhole',
           NEW idr \in BOOLEAN, NEW kind \in Kinds,
           NEW poc \in Pocs \cup {0}, SendFrame(idr, kind, poc)
    PROVE  OrderInv'
<1>0. /\ StreamTypes /\ shown \in Seq(ShownSet) /\ gop_id \in Nat /\ max_depth \in Nat
      /\ StreamOrder /\ InOrder(shown) /\ poc \in Nat
  BY OrderedDecoderAssumption DEF IInv, DecoderTypes, OrderInv
<1>1. PICK N, M : N = Len(sent) /\ M = N + 1
  OBVIOUS
<1>2. /\ N \in Nat /\ DOMAIN sent = 1..N /\ (sent # <<>> <=> N > 0)
      /\ \A f \in 1..N : sent[f].gop \in Nat /\ sent[f].poc \in Nat
  BY <1>0, <1>1, StreamIs
<1>3. /\ cur.done = FALSE /\ cur'.done = FALSE
      /\ gop_id' = IF idr THEN gop_id + 1 ELSE gop_id
      /\ \E full \in Seq(EntrySet) : FullIs(full) /\ Emits(full, Released(full, gop_id'))
  BY FrameStarts
<1>4. /\ Len(sent') = M /\ \A f \in 1..N : sent'[f] = sent[f]
      /\ sent'[M].poc = poc /\ cur'.idr = idr
      /\ sent'[M].gop = IF idr \/ sent = <<>> THEN M ELSE sent[N].gop
  BY <1>0, <1>1, FrameAppended DEF Appended
<1>5. StreamOrder' /\ StreamTypes'
  BY <1>0, StreamGrows, FrameSent DEF IInv
<1>6. DOMAIN sent' = 1..M
  BY <1>4, <1>5 DEF StreamTypes
<1>7. PICK full, n :
         full \in Seq(EntrySet) /\ FullIs(full) /\ Emits(full, n) /\ n = Released(full, gop_id')
  BY <1>3
<1>8. n \in 0..Len(full)
  BY <1>7, EmitsDepth
<1>9. /\ Ready(full, gop_id)
      /\ Idle => full = <<>>
      /\ ~Idle => Len(full) <= max_depth + 1 /\ Len(full) > 0
  BY <1>3, <1>7, FrameReady
<1>10. PICK out, left, a : out = shown' /\ left = buffer' /\ a = Len(shown)
  OBVIOUS
<1>11. /\ InOrder(out) /\ Ahead(out, left)
       /\ out \in Seq(ShownSet) /\ left \in Seq(EntrySet)
       /\ Len(out) = a + n /\ Len(left) = Len(full) - n
       /\ \A i \in 1..a : out[i] = shown[i]
       /\ \A i \in DOMAIN out : i > a => \E u \in DOMAIN full : out[i].meta = full[u].meta
       /\ \A j \in DOMAIN left : \E v \in DOMAIN full : left[j] = full[v]
       /\ \A i \in DOMAIN out, j \in DOMAIN left : i > a => left[j].meta \in Above(out[i].meta)
  <2>1. InOrderOut(a, full, n, out, left)
    BY <1>0, <1>7, <1>8, <1>9, <1>10, OrderEmitted
  <2> QED BY ONLY <2>1 DEF InOrderOut
<1>12. ~Idle' /\ Len(sent') - 1 = N
  <2>1. sent' # <<>>
    BY <1>1, <1>2, <1>4
  <2> QED BY <1>1, <1>2, <1>3, <1>4, <2>1 DEF Idle
<1>13. /\ \A i \in DOMAIN out : out[i].meta \in 1..N
       /\ \A j \in DOMAIN left : left[j].meta \in 1..N
  BY <1>10, <1>12 DEF CleanInv, AllWhole, Whole
<1>14. /\ \A f, g \in 1..N : Prec(f, g) => Prec(f, g)'
       /\ \A f \in 1..N : Above(f) \subseteq Above(f)'
  <2>1. 1..N \subseteq DOMAIN sent'
    BY <1>1, <1>2, <1>6
  <2> QED BY <1>2, <1>4, <2>1, OrderKept
<1>15. InOrder(shown)' /\ Ahead(shown, buffer)'
  BY <1>10, <1>11, <1>13, <1>14 DEF InOrder, Ahead
<1>16. M \in Nat /\ M > N
  BY <1>1, <1>2
\* What is left to show: how the new frame stands to the others.
<1>17. ASSUME idr => left = <<>>,
              \A j \in DOMAIN left : /\ left[j].gop = gop_id'
                                     /\ sent'[left[j].meta].gop = sent'[M].gop,
              \A i \in DOMAIN out : Prec(out[i].meta, M)',
              \A i \in DOMAIN out : sent'[out[i].meta].gop = sent'[M].gop =>
                                      Cardinality(Above(out[i].meta)') >= max_depth
       PROVE  OrderInv'
  BY <1>4, <1>5, <1>10, <1>15, <1>17 DEF OrderInv, OneGop, FarBelow
<1>18. CASE idr \/ sent = <<>>
  <2>1. left = <<>>
    <3>1. CASE idr
      <4>1. n = Len(full)
        <5>1. gop_id' = gop_id + 1
          BY <1>3, <3>1
        <5> QED BY <1>0, <1>7, <1>9, <5>1, GopReleased DEF Ready, OneGop
      <4> QED BY <1>7, <1>11, <4>1
    <3>2. CASE sent = <<>>
      <4>1. full = <<>>
        BY <1>9, <3>2 DEF Idle
      <4>2. PICK b : b = Len(full)
        OBVIOUS
      <4>3. b = 0 /\ n \in 0..b /\ Len(left) = b - n
        BY <1>8, <1>11, <4>1, <4>2
      <4> QED BY ONLY <1>11, <4>3
    <3> QED BY <1>18, <3>1, <3>2
  <2>2. sent'[M].gop = M
    BY <1>4, <1>18
  <2>3. \A f \in 1..N : sent'[f].gop < M /\ sent'[f].gop # M
    <3>1. \A f \in 1..N : sent[f].gop <= f
      BY <1>0, <1>2 DEF StreamOrder
    <3> QED BY <1>2, <1>4, <1>16, <3>1
  <2>4. \A i \in DOMAIN out : Prec(out[i].meta, M)'
    BY <1>13, <2>2, <2>3 DEF Prec
  <2> QED BY <1>13, <1>17, <2>1, <2>2, <2>3, <2>4
<1>19. CASE ~idr /\ sent # <<>>
  <2>1. ~Idle /\ N \in 1..N
    BY <1>2, <1>3, <1>19 DEF Idle
  <2>2. sent'[M].gop = sent[N].gop /\ gop_id' = gop_id
    BY <1>3, <1>4, <1>19
  <2>3. /\ \A f \in 1..N : sent[f].gop = sent[N].gop => sent[f].poc # poc
        /\ Cardinality({f \in 1..N : sent[f].gop = sent[N].gop /\ sent[f].poc > poc}) <= max_depth
    <3>1. SendFrame(FALSE, kind, poc)
      <4>1. idr = FALSE
        BY <1>19
      <4> QED BY <4>1
    <3>2. HasRoom(N, poc)
      BY <1>0, <1>1, <3>1, JoinsGop
    <3> QED BY <3>2 DEF HasRoom
  <2>4. n = Excess(full)
    BY <1>0, <1>7, <1>9, <2>2, GopReleased DEF Ready, OneGop
  <2>5. n = 0 \/ Len(left) = max_depth
    <3>1. PICK b : b = Len(full)
      OBVIOUS
    <3>2. n = IF b > max_depth THEN b - max_depth ELSE 0
      BY <2>4, <3>1 DEF Excess
    <3>3. Len(left) = b - n /\ b \in Nat
      BY <1>7, <1>11, <3>1
    <3> QED BY ONLY <1>0, <3>2, <3>3
  <2>6. \A j \in DOMAIN left : left[j].gop = gop_id' /\ sent'[left[j].meta].gop = sent'[M].gop
    <3>1. \A j \in DOMAIN left : left[j].gop = gop_id /\ sent[left[j].meta].gop = sent[N].gop
      BY <1>1, <1>9, <1>11 DEF Ready, OneGop
    <3> QED BY <1>4, <1>13, <2>2, <3>1
  <2>7. DOMAIN out = 1..a + n /\ a \in Nat /\ n \in Nat /\ DOMAIN shown = 1..a
    <3>1. a \in Nat /\ DOMAIN shown = 1..a
      BY <1>0, <1>10
    <3>2. DOMAIN out = 1..Len(out)
      BY ONLY <1>11
    <3> QED BY <1>8, <1>11, <3>1, <3>2
  <2>8. ASSUME NEW i \in DOMAIN out, sent[out[i].meta].gop = sent[N].gop
        PROVE  Cardinality(Above(out[i].meta)) >= max_depth
    <3>1. CASE i <= a
      <4>1. i \in 1..a
        BY ONLY <2>7, <3>1, i \in DOMAIN out
      <4>2. FarBelow(shown, N)
        BY <1>1, <2>1 DEF OrderInv
      <4> QED BY <1>11, <2>7, <2>8, <4>1, <4>2 DEF FarBelow
    <3>2. CASE ~(i <= a)
      <4>1. i > a /\ n # 0
        BY ONLY <2>7, <3>2, i \in DOMAIN out
      <4>2. Len(left) = max_depth
        BY <2>5, <4>1
      <4>3. \A j, k \in DOMAIN left : left[j].meta = left[k].meta => j = k
        BY <1>10 DEF EntriesWhole
      <4>4. \A j \in DOMAIN left : left[j].meta \in Above(out[i].meta)
        BY <1>11, <4>1
      <4>5. Cardinality(Above(out[i].meta)) >= Len(left)
        BY <1>0, <1>11, <4>3, <4>4, ManyAbove
      <4> QED BY <4>2, <4>5
    <3> QED BY <3>1, <3>2
  <2>9. ASSUME NEW i \in DOMAIN out PROVE Prec(out[i].meta, M)'
    <3>1. PICK f : f = out[i].meta
      OBVIOUS
    <3>2. f \in 1..N /\ sent[f].gop <= sent[N].gop
      BY <1>0, <1>2, <1>13, <2>1, <3>1 DEF StreamOrder
    <3>3. CASE sent[f].gop = sent[N].gop
      <4>1. sent[f].poc < poc
        <5>1. Cardinality(Above(f)) >= max_depth
          BY <2>8, <3>1, <3>3
        <5>2. \A g \in 1..N : sent[g].gop = sent[f].gop => sent[g].poc # poc
          BY <2>3, <3>3
        <5>3. {g \in 1..N : sent[g].gop = sent[f].gop /\ sent[g].poc > poc} =
                 {g \in 1..N : sent[g].gop = sent[N].gop /\ sent[g].poc > poc}
          BY <3>3
        <5>4. Cardinality({g \in 1..N : sent[g].gop = sent[f].gop /\ sent[g].poc > poc})
                <= max_depth
          BY <2>3, <5>3
        <5> QED BY <1>0, <1>2, <3>2, <5>1, <5>2, <5>4, ShownPrecedes
      <4> QED BY <1>4, <2>2, <3>1, <3>2, <3>3, <4>1 DEF Prec
    <3>4. CASE sent[f].gop # sent[N].gop
      <4>1. sent[f].gop < sent[N].gop
        BY <1>2, <2>1, <3>2, <3>4
      <4> QED BY <1>4, <2>2, <3>1, <3>2, <4>1 DEF Prec
    <3> QED BY <3>3, <3>4
  <2>10. ASSUME NEW i \in DOMAIN out, sent'[out[i].meta].gop = sent'[M].gop
         PROVE  Cardinality(Above(out[i].meta)') >= max_depth
    <3>1. PICK f : f = out[i].meta
      OBVIOUS
    <3>2. f \in 1..N /\ sent[f].gop = sent[N].gop
      BY <1>4, <1>13, <2>2, <2>10, <3>1
    <3>3. Cardinality(Above(f)) >= max_depth
      BY <2>8, <3>1, <3>2
    <3>4. Above(f) \subseteq Above(f)'
      BY <1>14, <3>2
    <3>5. IsFiniteSet(Above(f)')
      <4>1. Above(f)' \in SUBSET (1..M)
        BY <1>6 DEF Above
      <4>2. IsFiniteSet(1..M)
        BY <1>16, FS_Interval
      <4> QED BY ONLY <4>1, <4>2, FS_Subset
    <3>6. /\ Cardinality(Above(f)) <= Cardinality(Above(f)')
          /\ Cardinality(Above(f)) \in Nat /\ Cardinality(Above(f)') \in Nat
      BY <3>4, <3>5, FS_Subset, FS_CardinalityType
    <3> QED BY <1>0, <3>1, <3>3, <3>6
  <2> QED BY <1>17, <1>19, <2>6, <2>9, <2>10
<1> QED BY <1>18, <1>19

(* A call that finishes no picture and starts no GOP releases nothing: the  *)
(* buffer was drained when it last grew.                                   *)
LEMMA NothingReleased ==
    ASSUME IInv, CleanInv, OrderInv, NEW gop, buffer = <<>> \/ gop = gop_id,
           Emits(buffer, Released(buffer, gop))
    PROVE  /\ shown' = shown
           /\ \A j \in DOMAIN buffer' : \E v \in DOMAIN buffer : buffer'[j] = buffer[v]
           /\ buffer = <<>> => buffer' = <<>>
<1>0. /\ shown \in Seq(ShownSet) /\ buffer \in Seq(EntrySet) /\ gop_id \in Nat
      /\ max_depth \in Nat
  BY OrderedDecoderAssumption DEF IInv, DecoderTypes
<1>1. PICK n, out, left, a, b : /\ n = Released(buffer, gop) /\ out = shown' /\ left = buffer'
                                /\ a = shown /\ b = buffer
  OBVIOUS
<1>2. /\ a \in Seq(ShownSet) /\ b \in Seq(EntrySet) /\ Emits(b, n) /\ n = Released(b, gop)
  BY <1>0, <1>1
<1>3. n \in 0..Len(b)
  BY <1>2, EmitsDepth
<1>4. n = 0
  <2>1. CASE b = <<>>
    <3>1. Len(b) = 0
      BY <2>1
    <3> QED BY ONLY <1>3, <3>1
  <2>2. CASE b # <<>>
    <3>1. ~Idle /\ gop = gop_id
      BY <1>1, <2>2 DEF CleanInv
    <3>2. \A i \in DOMAIN b : b[i].gop = gop
      BY <1>1, <3>1 DEF OrderInv, OneGop
    <3>3. n = Excess(b)
      BY <1>0, <1>2, <3>1, <3>2, GopReleased
    <3>4. PICK l : l = Len(b)
      OBVIOUS
    <3>5. l <= max_depth /\ n = IF l > max_depth THEN l - max_depth ELSE 0
      BY <1>1, <3>3, <3>4 DEF CleanInv, Excess
    <3>6. l \in Nat
      BY <1>2, <3>4
    <3> QED BY ONLY <1>0, <3>5, <3>6
  <2> QED BY <2>1, <2>2
<1>5. out = a \o Received(Lowest(b, n)) /\ left = Without(b, n)
  BY <1>1, <1>2 DEF Emits
<1>6. HandsOut(a, b, n, out, left)
  BY ONLY <1>2, <1>3, <1>5, Handout
<1>7. /\ out \in Seq(ShownSet) /\ left \in Seq(EntrySet)
      /\ Len(out) = Len(a) + n /\ Len(left) = Len(b) - n
      /\ \A i \in DOMAIN left : \E j \in DOMAIN b : left[i] = b[j]
      /\ \A i \in 1..Len(a) : out[i] = a[i]
  BY <1>6, Zenon DEF HandsOut
<1>8. out = a
  <2>1. Len(out) = Len(a)
    BY ONLY <1>2, <1>4, <1>7
  <2> QED BY ONLY <1>2, <1>7, <2>1
<1>9. b = <<>> => left = <<>>
  <2> SUFFICES ASSUME b = <<>> PROVE left = <<>>
    OBVIOUS
  <2>1. \A i \in DOMAIN left : FALSE
    BY <1>7
  <2> QED BY ONLY <1>7, <2>1
<1> QED BY <1>1, <1>7, <1>8, <1>9

(* Such a call keeps the order.                                            *)
LEMMA OrderStays ==
    ASSUME OrderInv, UNCHANGED sent, cur'.idr = cur.idr, Idle' <=> Idle,
           shown' = shown,
           \A j \in DOMAIN buffer' : \E v \in DOMAIN buffer : buffer'[j] = buffer[v],
           buffer = <<>> => buffer' = <<>>,
           buffer = <<>> \/ gop_id' = gop_id
    PROVE  OrderInv'
<1>1. StreamOrder' /\ InOrder(shown)'
  BY DEF OrderInv, StreamOrder, InOrder, Prec
<1>2. ASSUME ~Idle
      PROVE  /\ cur.idr => buffer' = <<>>
             /\ OneGop(buffer, gop_id, Len(sent))'
             /\ Ahead(shown, buffer)'
             /\ \A i \in DOMAIN shown : Prec(shown[i].meta, Len(sent))'
             /\ FarBelow(shown, Len(sent))'
  <2>1. cur.idr => buffer' = <<>>
    BY <1>2 DEF OrderInv
  <2>2. OneGop(buffer, gop_id, Len(sent))'
    <3>1. CASE buffer = <<>>
      <4>1. buffer' = <<>>
        BY <3>1
      <4> QED BY <4>1 DEF OneGop
    <3>2. CASE gop_id' = gop_id
      BY <1>2, <3>2 DEF OrderInv, OneGop
    <3> QED BY <3>1, <3>2
  <2>3. Ahead(shown, buffer)'
    BY <1>2 DEF OrderInv, Ahead, Prec
  <2>4. \A i \in DOMAIN shown : Prec(shown[i].meta, Len(sent))'
    BY <1>2 DEF OrderInv, Prec
  <2>5. FarBelow(shown, Len(sent))'
    BY <1>2 DEF OrderInv, FarBelow, Above
  <2> QED BY <2>1, <2>2, <2>3, <2>4, <2>5
<1> QED BY <1>1, <1>2 DEF OrderInv

(* Another slice of the last frame keeps the order.                        *)
LEMMA OrderSlice ==
    ASSUME Clean, IInv, CleanInv, OrderInv, NEW part \in 0..3, NEW n \in 0..MaxSlices - 1,
           SendSlice(part, n)
    PROVE  OrderInv' /\ shown' = shown /\ sent' = sent
<1>1. PICK slice : slice = Slice(Len(sent), part, n)
  OBVIOUS
<1>2. GoesOn(part, slice) /\ sent # <<>>
  BY <1>1, SliceGoesOn
<1>3. /\ ~cur.done /\ sent' = sent /\ cur' = [cur EXCEPT !.part = part, !.n = n] /\ cur \in CurSet
  BY DEF SendSlice, Going, IInv, StreamTypes
<1>4. cur'.idr = cur.idr /\ cur'.done = cur.done
  BY <1>3 DEF CurSet
<1>5. Idle' <=> Idle
  BY <1>3, <1>4 DEF Idle
<1>6. buffer = <<>> \/ gop_id' = gop_id
  BY <1>2, <1>3 DEF GoesOn, OrderInv, Idle
<1>7. PICK gop : gop = gop_id'
  OBVIOUS
<1>8. Emits(buffer, Released(buffer, gop)) /\ (buffer = <<>> \/ gop = gop_id)
  BY <1>2, <1>6, <1>7 DEF GoesOn
<1>9. /\ shown' = shown
      /\ \A j \in DOMAIN buffer' : \E v \in DOMAIN buffer : buffer'[j] = buffer[v]
      /\ buffer = <<>> => buffer' = <<>>
  BY <1>8, NothingReleased
<1> QED BY <1>3, <1>4, <1>5, <1>6, <1>9, OrderStays

(* A NAL unit that is no slice keeps the order.                            *)
LEMMA OrderOther ==
    ASSUME IInv, CleanInv, OrderInv, Untouched, UNCHANGED sent,
           cur'.idr = cur.idr, cur'.done = cur.done
    PROVE  OrderInv' /\ shown' = shown
<1>1. Idle' <=> Idle
  BY DEF Idle
<1>2. gop_id' = gop_id
  BY DEF Untouched
<1>3. /\ shown' = shown
      /\ \A j \in DOMAIN buffer' : \E v \in DOMAIN buffer : buffer'[j] = buffer[v]
      /\ buffer = <<>> => buffer' = <<>>
  <2>1. CASE UNCHANGED <<shown, buffer>>
    BY <2>1
  <2>2. CASE Emits(buffer, Released(buffer, gop_id))
    <3>1. PICK gop : gop = gop_id
      OBVIOUS
    <3>2. Emits(buffer, Released(buffer, gop)) /\ (buffer = <<>> \/ gop = gop_id)
      BY <2>2, <3>1
    <3> QED BY <3>2, NothingReleased
  <2> QED BY <2>1, <2>2 DEF Untouched
<1> QED BY <1>1, <1>2, <1>3, OrderStays

(* flush_with_meta hands all that waits out in order.                      *)
LEMMA OrderEnd ==
    ASSUME IInv, CleanInv, OrderInv, End
    PROVE  OrderInv'
<1>0. StreamTypes /\ shown \in Seq(ShownSet) /\ StreamOrder /\ InOrder(shown) /\ cur \in CurSet
  BY DEF IInv, DecoderTypes, OrderInv, StreamTypes
<1>1. /\ ~cur.done /\ UNCHANGED sent /\ cur' = [cur EXCEPT !.done = TRUE]
      /\ \E full \in Seq(EntrySet) : FullIs(full) /\ Emits(full, Len(full))
  BY Flushed
<1>2. PICK full, n : full \in Seq(EntrySet) /\ FullIs(full) /\ Emits(full, n) /\ n = Len(full)
  BY <1>1
<1>3. Ready(full, gop_id) /\ n \in 0..Len(full)
  BY <1>1, <1>2, FrameReady
<1>4. PICK out, left : out = shown' /\ left = buffer'
  OBVIOUS
<1>5. InOrder(out)
  BY <1>0, <1>2, <1>3, <1>4, OrderEmitted DEF InOrderOut
<1>6. InOrder(shown)' /\ StreamOrder'
  BY <1>0, <1>1, <1>4, <1>5 DEF InOrder, Prec, StreamOrder
<1>7. Idle'
  BY <1>0, <1>1 DEF Idle, CurSet
<1> QED BY <1>6, <1>7 DEF OrderInv

(* The order is kept by every action.                                      *)
LEMMA OrderStep ==
    Clean /\ IInv /\ CleanInv /\ OrderInv /\ [Next]_vars /\ CleanInv' /\ EntriesWhole' => OrderInv'
<1> SUFFICES ASSUME Clean, IInv, CleanInv, OrderInv, [Next]_vars, CleanInv', EntriesWhole'
             PROVE  OrderInv'
  OBVIOUS
<1>0. cur \in CurSet
  BY DEF IInv, StreamTypes
<1>1. ASSUME NEW size \in Sizes, SendSps(size) PROVE OrderInv'
  <2>1. Untouched /\ UNCHANGED sent /\ cur' = [cur EXCEPT !.resized = sent # <<>>]
    BY <1>1, SpsPut
  <2>2. cur'.idr = cur.idr /\ cur'.done = cur.done
    BY <1>0, <2>1 DEF CurSet
  <2> QED BY <2>1, <2>2, OrderOther
<1>2. ASSUME SendPps PROVE OrderInv'
  <2>1. Untouched /\ UNCHANGED sent /\ cur' = [cur EXCEPT !.pps = TRUE]
    BY <1>2, PpsPut
  <2>2. cur'.idr = cur.idr /\ cur'.done = cur.done
    BY <1>0, <2>1 DEF CurSet
  <2> QED BY <2>1, <2>2, OrderOther
<1>3. ASSUME NEW type \in {"Sei", "Sps", "Pps"}, SendOther(type) PROVE OrderInv'
  <2>1. Untouched /\ UNCHANGED sent /\ cur' = cur
    BY <1>3, OtherSent
  <2> QED BY <2>1, OrderOther
<1>4. ASSUME UNCHANGED vars PROVE OrderInv'
  <2>1. UNCHANGED <<buffer, gop_id, shown>> /\ UNCHANGED <<sent, cur>>
    BY <1>4 DEF vars
  <2>2. Idle' <=> Idle
    BY <2>1 DEF Idle
  <2>3. /\ \A j \in DOMAIN buffer' : \E v \in DOMAIN buffer : buffer'[j] = buffer[v]
        /\ buffer = <<>> => buffer' = <<>>
    BY <2>1
  <2> QED BY <2>1, <2>2, <2>3, OrderStays
<1>5. ASSUME NEW part \in 0..3, NEW n \in 0..MaxSlices - 1, SendSlice(part, n) PROVE OrderInv'
  BY <1>5, OrderSlice
<1> QED BY <1>1, <1>2, <1>3, <1>4, <1>5, OrderFrame, OrderEnd DEF Next

(* At the start.                                                           *)
LEMMA OrderInit == Init => OrderInv
<1> SUFFICES ASSUME Init PROVE OrderInv
  OBVIOUS
<1>1. sent = <<>> /\ shown = <<>>
  BY DEF Init
<1> QED BY <1>1 DEF OrderInv, StreamOrder, InOrder, Idle

(* The order holds in every reachable state of a clean stream.             *)
LEMMA OrderInvariance == Clean /\ Spec => [](IInv /\ CleanInv /\ OrderInv)
<1>1. ASSUME Clean PROVE Spec => [](IInv /\ CleanInv /\ OrderInv)
  <2>1. IInv /\ CleanInv /\ OrderInv /\ [Next]_vars /\ CleanInv' /\ EntriesWhole' => OrderInv'
    BY <1>1, OrderStep
  <2>2. Spec => [](IInv /\ CleanInv)
    BY <1>1, CleanInvariance
  <2> QED BY <2>1, <2>2, OrderInit, WholeApart, PTL DEF Spec
<1> QED BY <1>1

\* What a step adds to the stream and to what is shown comes at the end.
SentGrows ==
    \/ sent' = sent
    \/ Len(sent') = Len(sent) + 1 /\ \A f \in 1..Len(sent) : sent'[f] = sent[f]

ShownGrows == Len(shown) <= Len(shown') /\ \A i \in 1..Len(shown) : shown'[i] = shown[i]

(* A call that releases ready entries appends them to what is shown.       *)
LEMMA EmittedGrows ==
    ASSUME IInv, OrderInv, NEW full \in Seq(EntrySet), NEW n \in 0..Len(full), Emits(full, n),
           Ready(full, gop_id)
    PROVE  ShownGrows
<1>1. StreamTypes /\ shown \in Seq(ShownSet) /\ StreamOrder /\ InOrder(shown)
  BY DEF IInv, DecoderTypes, OrderInv
<1>2. PICK out, left, a : out = shown' /\ left = buffer' /\ a = Len(shown)
  OBVIOUS
<1>3. Len(out) = a + n /\ \A i \in 1..a : out[i] = shown[i]
  BY <1>1, <1>2, OrderEmitted DEF InOrderOut
<1>4. a \in Nat /\ n \in Nat
  BY <1>1, <1>2
<1>5. a <= Len(out)
  BY ONLY <1>3, <1>4
<1> QED BY <1>2, <1>3, <1>5 DEF ShownGrows

(* No step takes a frame back, from the stream or from the caller.         *)
LEMMA StepGrows ==
    ASSUME Clean, IInv, CleanInv, OrderInv, [Next]_vars
    PROVE  SentGrows /\ ShownGrows
<1>0. StreamTypes /\ shown \in Seq(ShownSet) /\ Len(shown) \in Nat
  BY DEF IInv, DecoderTypes
<1>1. ASSUME shown' = shown PROVE ShownGrows
  BY <1>0, <1>1 DEF ShownGrows
<1>2. ASSUME NEW idr \in BOOLEAN, NEW kind \in Kinds, NEW poc \in Pocs \cup {0},
             SendFrame(idr, kind, poc)
      PROVE  SentGrows /\ ShownGrows
  <2>1. SentGrows
    BY <1>0, <1>2, FrameAppended DEF Appended, SentGrows
  <2>2. /\ cur.done = FALSE
        /\ \E full \in Seq(EntrySet) : FullIs(full) /\ Emits(full, Released(full, gop_id'))
    BY <1>2, FrameStarts
  <2>3. PICK full, n :
           full \in Seq(EntrySet) /\ FullIs(full) /\ Emits(full, n) /\ n = Released(full, gop_id')
    BY <2>2
  <2>4. n \in 0..Len(full)
    BY <2>3, EmitsDepth
  <2>5. Ready(full, gop_id)
    BY <2>2, <2>3, FrameReady
  <2> QED BY <2>1, <2>3, <2>4, <2>5, EmittedGrows
<1>3. ASSUME End PROVE SentGrows /\ ShownGrows
  <2>1. /\ ~cur.done /\ UNCHANGED sent
        /\ \E full \in Seq(EntrySet) : FullIs(full) /\ Emits(full, Len(full))
    BY <1>3, Flushed
  <2>2. PICK full, n : full \in Seq(EntrySet) /\ FullIs(full) /\ Emits(full, n) /\ n = Len(full)
    BY <2>1
  <2>3. Ready(full, gop_id) /\ n \in 0..Len(full)
    BY <2>1, <2>2, FrameReady
  <2> QED BY <2>1, <2>2, <2>3, EmittedGrows DEF SentGrows
<1>4. ASSUME NEW part \in 0..3, NEW n \in 0..MaxSlices - 1, SendSlice(part, n)
      PROVE  SentGrows /\ ShownGrows
  BY <1>1, <1>4, OrderSlice DEF SentGrows
<1>5. ASSUME NEW size \in Sizes, SendSps(size) PROVE SentGrows /\ ShownGrows
  <2>1. Untouched /\ UNCHANGED sent /\ cur' = [cur EXCEPT !.resized = sent # <<>>]
    BY <1>5, SpsPut
  <2>2. cur'.idr = cur.idr /\ cur'.done = cur.done
    BY <1>0, <2>1 DEF StreamTypes, CurSet
  <2> QED BY <1>1, <2>1, <2>2, OrderOther DEF SentGrows
<1>6. ASSUME SendPps PROVE SentGrows /\ ShownGrows
  <2>1. Untouched /\ UNCHANGED sent /\ cur' = [cur EXCEPT !.pps = TRUE]
    BY <1>6, PpsPut
  <2>2. cur'.idr = cur.idr /\ cur'.done = cur.done
    BY <1>0, <2>1 DEF StreamTypes, CurSet
  <2> QED BY <1>1, <2>1, <2>2, OrderOther DEF SentGrows
<1>7. ASSUME NEW type \in {"Sei", "Sps", "Pps"}, SendOther(type) PROVE SentGrows /\ ShownGrows
  <2>1. Untouched /\ UNCHANGED sent /\ cur' = cur
    BY <1>7, OtherSent
  <2> QED BY <1>1, <2>1, OrderOther DEF SentGrows
<1>8. ASSUME UNCHANGED vars PROVE SentGrows /\ ShownGrows
  BY <1>1, <1>8 DEF SentGrows, vars
<1> QED BY <1>2, <1>3, <1>4, <1>5, <1>6, <1>7, <1>8 DEF Next

\* The frames shown, as the refinement reads them off their slices.
Displayed ==
    [i \in DOMAIN shown |-> CHOOSE f \in DOMAIN sent : f \in Numbers(shown[i].frame)]

(* A step of a clean stream is one of the display order, or none.          *)
LEMMA DisplayStep ==
    ASSUME IInv, EntriesWhole', OrderInv', StreamTypes', (shown \in Seq(ShownSet))',
           Displayed = Metadata, Displayed' = Metadata', SentGrows, ShownGrows
    PROVE  Order!Next
<1>1. PICK N, a, b : N = Len(sent) /\ a = Len(shown) /\ b = Len(shown')
  OBVIOUS
<1>2. /\ N \in Nat /\ a \in Nat /\ b \in Nat /\ a <= b
      /\ DOMAIN shown = 1..a /\ DOMAIN shown' = 1..b
  BY <1>1 DEF IInv, StreamTypes, DecoderTypes, ShownGrows
<1>3. UNCHANGED sent \/ (Len(sent') = Len(sent) + 1 /\ SubSeq(sent', 1, Len(sent)) = sent)
  <2>1. ASSUME Len(sent') = Len(sent) + 1, \A f \in 1..Len(sent) : sent'[f] = sent[f]
        PROVE  SubSeq(sent', 1, Len(sent)) = sent
    <3> DEFINE P == [gop : Nat, poc : Nat]
    <3>1. sent \in Seq(P) /\ sent' \in Seq(P)
      BY DEF IInv, StreamTypes
    <3> HIDE DEF P
    <3>2. PICK s, t : s = sent /\ t = sent'
      OBVIOUS
    <3>3. /\ s \in Seq(P) /\ t \in Seq(P) /\ Len(t) = Len(s) + 1
          /\ \A f \in 1..Len(s) : t[f] = s[f]
      BY ONLY <2>1, <3>1, <3>2
    <3>4. SubSeq(t, 1, Len(s)) = s
      BY ONLY <3>3
    <3> QED BY ONLY <3>2, <3>4
  <2> QED BY <2>1 DEF SentGrows
<1>4. \A i \in 1..b : Displayed'[i] = shown'[i].meta
  BY <1>2 DEF Metadata
<1>5. DOMAIN Displayed' = 1..b /\ DOMAIN Displayed = 1..a
  BY <1>2 DEF Metadata
<1>6. SubSeq(Displayed', 1, Len(Displayed)) = Displayed
  <2>1. PICK s, t : s = Displayed /\ t = Displayed'
    OBVIOUS
  <2>2. s = [i \in 1..a |-> shown[i].meta] /\ t = [i \in 1..b |-> shown'[i].meta]
    BY <1>2, <2>1 DEF Metadata
  <2>3. \A i \in 1..a : s[i] = t[i]
    BY <1>1, <1>2, <2>2 DEF ShownGrows
  <2>4. Len(s) = a
    BY ONLY <1>2, <2>2
  <2>5. SubSeq(t, 1, a) = [i \in 1..a |-> t[i]]
    BY ONLY <1>2, <2>2
  <2>6. SubSeq(t, 1, Len(s)) = s
    BY ONLY <2>2, <2>3, <2>4, <2>5
  <2> QED BY ONLY <2>1, <2>6
<1>7. \A i \in DOMAIN Displayed' : Displayed'[i] \in DOMAIN sent'
  <2>1. PICK M : M = Len(sent')
    OBVIOUS
  <2>2. DOMAIN sent' = 1..M
    BY <2>1 DEF StreamTypes
  <2>3. \A i \in 1..b : shown'[i].meta \in 1..M
    BY <1>2, <2>1 DEF EntriesWhole, Whole
  <2> QED BY <1>4, <1>5, <2>2, <2>3
<1>8. \A i, j \in 1..b : i < j =>
        LET f == shown'[i].meta
            g == shown'[j].meta
        IN  \/ sent'[f].gop < sent'[g].gop
            \/ sent'[f].gop = sent'[g].gop /\ sent'[f].poc < sent'[g].poc
  BY <1>2 DEF OrderInv, InOrder, Prec
<1>9. Order!Ordered'
  <2>1. \A i, j \in DOMAIN Displayed' : i < j =>
          \/ sent'[Displayed'[i]].gop < sent'[Displayed'[j]].gop
          \/ sent'[Displayed'[i]].gop = sent'[Displayed'[j]].gop
             /\ sent'[Displayed'[i]].poc < sent'[Displayed'[j]].poc
    BY <1>4, <1>5, <1>8
  <2> QED BY <2>1 DEF Order!Ordered, Order!Precedes, Displayed
<1> QED BY <1>3, <1>6, <1>7, <1>9 DEF Order!Next, Displayed

(* OrderedDecoder implements what it promises: on a clean stream the       *)
(* frames come out in display order, each once and none taken back         *)
(* (decoder.rs:1119).                                                      *)
THEOREM DisplayOrderImplemented == ASSUME Clean PROVE Spec => ImplementsDisplayOrder
<1>1. Init => Order!Init
  <2> SUFFICES ASSUME Init PROVE Order!Init
    OBVIOUS
  <2>1. sent = <<>> /\ shown = <<>>
    BY DEF Init
  <2> QED BY <2>1 DEF Order!Init
<1>2. IInv /\ CleanInv /\ OrderInv => /\ EntriesWhole /\ OrderInv /\ StreamTypes
                                      /\ shown \in Seq(ShownSet) /\ Displayed = Metadata
  BY WholeApart, ShownIs DEF IInv, DecoderTypes, Displayed
<1>3. /\ IInv /\ CleanInv /\ OrderInv /\ [Next]_vars
      /\ (EntriesWhole /\ OrderInv /\ StreamTypes
          /\ shown \in Seq(ShownSet) /\ Displayed = Metadata)'
      => Order!Next
  BY <1>2, DisplayStep, StepGrows
<1>4. Spec => [](IInv /\ CleanInv /\ OrderInv)
  BY OrderInvariance
<1> QED BY <1>1, <1>2, <1>3, <1>4, PTL DEF Spec, Order!Spec, ImplementsDisplayOrder
=============================================================================

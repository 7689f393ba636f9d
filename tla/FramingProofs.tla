--------------------------- MODULE FramingProofs ----------------------------
(***************************************************************************)
(* Theorems about module BitInput: parse_annex_b, parse_avcc and           *)
(* parse_avcc_config give back the units of every stream that can be       *)
(* written, whatever the units hold and however they are framed.           *)
(***************************************************************************)
EXTENDS BitInput, NaturalsInduction, WellFoundedInduction, SequenceTheorems, TLAPS

-----------------------------------------------------------------------------
(* Places and loops.                                                       *)

(* A set of numbers has a least one: the first place of a sequence that    *)
(* something holds of.                                                     *)
LEMMA LeastExists ==
    ASSUME NEW S \in SUBSET Nat, S # {}
    PROVE  \E m \in S : \A x \in S : m <= x
<1> DEFINE R == {q \in Nat \X Nat : q[1] < q[2]}
<1>1. IsWellFoundedOn(R, Nat)
  BY NatLessThanWellFounded DEF OpToRel
<1>2. \E m \in S : \A x \in S : ~ (<<x, m>> \in R)
  <2> HIDE DEF R
  <2> QED BY <1>1, WFMin
<1>3. PICK m \in S : \A x \in S : ~ (<<x, m>> \in R)
  BY <1>2
<1>4. \A x \in S : m <= x
  <2> TAKE x \in S
  <2>1. m \in Nat /\ x \in Nat
    OBVIOUS
  <2>2. ~ (x < m)
    BY <1>3, <2>1
  <2> QED BY <2>1, <2>2
<1> QED BY <1>4

(* What holds of 0 and of each successor up to n holds up to n.            *)
LEMMA EveryLength ==
    ASSUME NEW n \in Nat, NEW S, 0 \in S, \A k \in 1..n : k - 1 \in S => k \in S
    PROVE  \A k \in 0..n : k \in S
<1> DEFINE T == {k \in 0..n : k \notin S}
<1>1. SUFFICES ASSUME T # {} PROVE FALSE
  OBVIOUS
<1>2. T \in SUBSET Nat
  OBVIOUS
<1>3. PICK m \in T : \A x \in T : m <= x
  <2> HIDE DEF T
  <2> QED BY <1>1, <1>2, LeastExists
<1>4. m \in 0..n /\ m \notin S /\ m # 0
  OBVIOUS
<1>5. m \in 1..n /\ m - 1 \in 0..n /\ ~ (m <= m - 1)
  BY <1>4
<1>6. m - 1 \in S
  BY <1>3, <1>5
<1> QED BY <1>4, <1>5, <1>6

(* A set of numbers with a bound has a greatest one, which Max finds.      *)
LEMMA GreatestExists ==
    ASSUME NEW n \in Nat, NEW S \in SUBSET (0..n), S # {}
    PROVE  \E m \in S : \A x \in S : x <= m
<1> DEFINE T == {k \in 0..n : n - k \in S}
<1>1. T \in SUBSET Nat
  OBVIOUS
<1>5. T # {}
  <2>1. PICK x \in S : TRUE
    OBVIOUS
  <2>2. n - x \in 0..n /\ n - (n - x) = x
    BY <2>1
  <2>3. n - x \in T
    BY <2>1, <2>2
  <2> HIDE DEF T
  <2> QED BY <2>3
<1>2. PICK m \in T : \A x \in T : m <= x
  <2> HIDE DEF T
  <2> QED BY <1>1, <1>5, LeastExists
<1>3. n - m \in S /\ m \in 0..n
  OBVIOUS
<1>4. \A x \in S : x <= n - m
  <2> TAKE x \in S
  <2>1. n - x \in T /\ x \in 0..n
    <3>1. x \in 0..n /\ n - (n - x) = x
      OBVIOUS
    <3> QED BY <3>1
  <2> QED BY <1>2, <1>3, <2>1
<1> QED BY <1>3, <1>4

(* The greatest element is the one that Max finds.                         *)
LEMMA MaxIs ==
    ASSUME NEW S \in SUBSET Int, NEW m \in S, \A x \in S : x <= m
    PROVE  Max(S) = m /\ Writer!Max(S) = m
<1>1. \A y \in S : (\A x \in S : y >= x) <=> y = m
  OBVIOUS
<1>2. Max(S) = m
  BY <1>1, Zenon DEF Max
<1>3. Writer!Max(S) = m
  BY <1>1, Zenon DEF Writer!Max
<1> QED BY <1>2, <1>3

(* The least element is the one that Min finds.                            *)
LEMMA MinIs ==
    ASSUME NEW S \in SUBSET Int, NEW m \in S, \A x \in S : m <= x
    PROVE  Min(S) = m
<1>1. \A y \in S : (\A x \in S : y <= x) <=> y = m
  OBVIOUS
<1> QED BY <1>1, Zenon DEF Min

\* f has at i what `base` has there and then what f has at next[i], from lo up
\* to the places at which it ends.
Jumps(f, lo, n, stop, base, next) ==
    f = [i \in lo..n |-> IF i \in stop THEN <<>> ELSE base[i] \o f[next[i]]]

Forward(lo, n, stop, next) ==
    /\ n \in Nat /\ lo \in {-1, 0} /\ stop \in SUBSET (lo..n) /\ n \in stop
    /\ -1 \in lo..n => -1 \in stop
    /\ \A i \in 0..n : i \notin stop => /\ next[i] \in lo..n
                                        /\ next[i] > i \/ next[i] \in stop

(* A loop over the bytes of a stream that never goes back is a function.   *)
LEMMA JumpsExist ==
    ASSUME NEW lo, NEW n, NEW stop, NEW base, NEW next, Forward(lo, n, stop, next)
    PROVE  \E f : Jumps(f, lo, n, stop, base, next)
<1>0. /\ n \in Nat /\ lo \in {-1, 0} /\ stop \in SUBSET (lo..n) /\ n \in stop
      /\ -1 \in lo..n => -1 \in stop
      /\ \A i \in 0..n : i \notin stop => /\ next[i] \in lo..n
                                          /\ next[i] > i \/ next[i] \in stop
  BY DEF Forward
<1> DEFINE Way(g, m) == \A i \in n - m..n : g[i] = IF i \in stop THEN <<>>
          ELSE base[i] \o (IF next[i] \in stop THEN <<>> ELSE g[next[i]])
           S == {m \in 0..n : \E g : Way(g, m)}
<1>1. 0 \in S
  <2>1. Way([i \in {n} |-> <<>>], 0)
    <3>1. n - 0 = n /\ n..n = {n}
      BY <1>0
    <3> QED BY <1>0, <3>1
  <2> QED BY <2>1
<1>2. ASSUME NEW m \in 1..n, m - 1 \in S PROVE m \in S
  <2>1. PICK g : Way(g, m - 1)
    BY <1>2
  <2> DEFINE j == n - m
             h == [i \in j..n |-> IF i = j THEN IF j \in stop THEN <<>>
                  ELSE base[j] \o (IF next[j] \in stop THEN <<>> ELSE g[next[j]])
                                  ELSE g[i]]
  <2>2. j \in 0..n - 1 /\ j..n = {j} \cup (n - (m - 1)..n) /\ j \notin n - (m - 1)..n
    BY <1>0
  <2>3. ASSUME NEW i \in j..n PROVE h[i] = IF i \in stop THEN <<>>
                                        ELSE base[i] \o (IF next[i] \in stop THEN <<>>
                                        ELSE h[next[i]])
    <3>0. i \notin stop /\ next[i] \notin stop => next[i] \in n - (m - 1)..n
              /\ next[i] \in j..n /\ next[i] # j
      <4>1. i \in 0..n
        BY <2>2
      <4> QED BY <1>0, <2>2, <2>3, <4>1
    <3>1. i \notin stop /\ next[i] \notin stop => h[next[i]] = g[next[i]]
      BY <3>0
    <3>2. CASE i = j
      BY <3>1, <3>2
    <3>3. CASE i # j
      <4>1. i \in n - (m - 1)..n /\ h[i] = g[i]
        BY <2>2, <3>3
      <4> QED BY <2>1, <3>1, <4>1
    <3> QED BY <3>2, <3>3
  <2>4. Way(h, m)
    BY <2>3
  <2>5. \E q : Way(q, m)
    <3> HIDE DEF h, Way
    <3> QED BY <2>4
  <2> QED BY <2>5
<1>3. n \in S
  <2> HIDE DEF S
  <2> QED BY <1>0, <1>1, <1>2, EveryLength
<1>4. PICK g : Way(g, n)
  BY <1>0, <1>3
<1> DEFINE f == [i \in lo..n |-> IF i \in stop THEN <<>> ELSE g[i]]
<1>5. ASSUME NEW i \in lo..n PROVE f[i] = IF i \in stop THEN <<>> ELSE base[i] \o f[next[i]]
  <2>1. CASE i \in stop
    BY <2>1
  <2>2. CASE i \notin stop
    <3>1. i \in 0..n /\ n - n = 0
      BY <1>0, <2>2
    <3>2. f[i] = base[i] \o (IF next[i] \in stop THEN <<>> ELSE g[next[i]])
      BY <1>4, <2>2, <3>1
    <3>3. next[i] \in lo..n
      BY <1>0, <2>2, <3>1
    <3> QED BY <2>2, <3>2, <3>3
  <2> QED BY <2>1, <2>2
<1>6. f = [i \in lo..n |-> IF i \in stop THEN <<>> ELSE base[i] \o f[next[i]]]
  <2>1. f = [i \in lo..n |-> f[i]]
    OBVIOUS
  <2> HIDE DEF f
  <2>2. [i \in lo..n |-> f[i]] = [i \in lo..n |-> IF i \in stop THEN <<>>
            ELSE base[i] \o f[next[i]]]
    BY <1>5
  <2> QED BY <2>1, <2>2
<1> QED BY <1>6 DEF Jumps

-----------------------------------------------------------------------------
(* Sequences put behind one another, as the bytes of a stream are.         *)

(* Sequences put behind one another *)

Lists(p, T, n) == n \in Nat /\ \A k \in 1..n : p[k] \in Seq(T)
Joined(f, p, T, n) ==
    /\ \A k \in 0..n : f[k] \in Seq(T)
    /\ f[0] = <<>>
    /\ \A k \in 1..n : f[k] = f[k - 1] \o p[k]

(* Sequences can be put behind one another.                                *)
LEMMA JoinedExists ==
    ASSUME NEW T, NEW p, NEW n, Lists(p, T, n)
    PROVE  \E f : Joined(f, p, T, n)
<1>0. n \in Nat /\ \A k \in 1..n : p[k] \in Seq(T)
  BY DEF Lists
<1> DEFINE S == {m \in 0..n : \E f : Joined(f, p, T, m)}
<1>1. 0 \in S
  <2> DEFINE f == [i \in 0..0 |-> <<>>]
  <2>1. f[0] = <<>> /\ (\A k \in 0..0 : f[k] \in Seq(T)) /\ 1..0 = {}
    OBVIOUS
  <2> HIDE DEF f
  <2>2. Joined(f, p, T, 0)
    BY <2>1 DEF Joined
  <2> QED BY <1>0, <2>2
<1>2. ASSUME NEW m \in 1..n, m - 1 \in S PROVE m \in S
  <2>1. PICK f : Joined(f, p, T, m - 1)
    BY <1>2
  <2>2. (\A k \in 0..m - 1 : f[k] \in Seq(T)) /\ f[0] = <<>>
            /\ \A k \in 1..m - 1 : f[k] = f[k - 1] \o p[k]
    BY <2>1 DEF Joined
  <2> DEFINE h == [i \in 0..m |-> IF i = m THEN f[m - 1] \o p[m] ELSE f[i]]
  <2>3. ASSUME NEW i \in 0..m PROVE h[i] \in Seq(T)
    <3>1. CASE i = m
      <4> DEFINE a == f[m - 1]
                 b == p[m]
      <4>0. m - 1 \in 0..m - 1
        BY <1>0
      <4>1. a \in Seq(T) /\ b \in Seq(T)
        BY <1>0, <2>2, <4>0
      <4> HIDE DEF a, b
      <4>2. a \o b \in Seq(T)
        BY ONLY <4>1
      <4> QED BY <3>1, <4>2 DEF a, b
    <3>2. CASE i # m
      <4>1. i \in 0..m - 1
        BY <1>0, <3>2
      <4> QED BY <2>2, <3>2, <4>1
    <3> QED BY <3>1, <3>2
  <2>5. ASSUME NEW k \in 1..m PROVE h[k] = h[k - 1] \o p[k]
    <3>1. k - 1 \in 0..m /\ k - 1 # m /\ k \in 0..m
      BY <1>0
    <3>2. CASE k = m
      BY <3>1, <3>2
    <3>3. CASE k # m
      <4>1. k \in 1..m - 1
        BY <1>0, <3>3
      <4> QED BY <2>2, <3>1, <3>3, <4>1
    <3> QED BY <3>2, <3>3
  <2>6. h[0] = <<>>
    <3>1. 0 \in 0..m /\ 0 # m
      BY <1>0
    <3> QED BY <2>2, <3>1
  <2> HIDE DEF h
  <2>7. Joined(h, p, T, m)
    BY ONLY <2>3, <2>5, <2>6 DEF Joined
  <2>8. m \in 0..n
    BY <1>0
  <2> QED BY <2>7, <2>8
<1>3. n \in S
  <2> HIDE DEF S
  <2>1. \A k \in 1..n : k - 1 \in S => k \in S
    BY <1>2
  <2>2. \A k \in 0..n : k \in S
    BY ONLY <1>0, <1>1, <2>1, EveryLength
  <2> QED BY <1>0, <2>2
<1> QED BY <1>3

(* FlattenSeq puts them behind one another.                                *)
LEMMA FlattenIs ==
    ASSUME NEW T, NEW p, NEW n, Lists(p, T, n), NEW f, Joined(f, p, T, n), n = Len(p),
           n = 0 => p = <<>>
    PROVE  Writer!FlattenSeq(p) = f[n]
<1>0. n \in Nat /\ \A k \in 1..n : p[k] \in Seq(T)
  BY DEF Lists
<1>1. (\A k \in 0..n : f[k] \in Seq(T)) /\ f[0] = <<>> /\ \A k \in 1..n : f[k] = f[k - 1] \o p[k]
  BY DEF Joined
<1>2. CASE n = 0
  <2>1. Writer!FlattenSeq(p) = p
    BY <1>2, Zenon DEF Writer!FlattenSeq
  <2>2. f[n] = <<>>
    BY <1>1, <1>2
  <2> QED BY <1>2, <2>1, <2>2
<1>3. CASE n # 0
  <2> DEFINE Fix(g) == g = [i \in 1..n |-> IF i = 1 THEN p[i] ELSE g[i - 1] \o p[i]]
             h == [i \in 1..n |-> f[i]]
  <2>1. ASSUME NEW i \in 1..n PROVE h[i] = IF i = 1 THEN p[i] ELSE h[i - 1] \o p[i]
    <3>1. f[i] = f[i - 1] \o p[i] /\ p[i] \in Seq(T)
      BY <1>0, <1>1
    <3>2. CASE i = 1
      <4>0. f[i - 1] = <<>>
        BY <1>1, <3>2
      <4>1. f[i] = <<>> \o p[i]
        BY <3>1, <4>0
      <4> DEFINE q == p[i]
      <4>2. q \in Seq(T)
        BY <3>1
      <4> HIDE DEF q
      <4>3. <<>> \o q = q
        BY ONLY <4>2
      <4> QED BY <3>2, <4>1, <4>3 DEF q
    <3>3. CASE i # 1
      <4>1. i - 1 \in 1..n
        BY <3>3, <1>0
      <4> QED BY <3>1, <3>3, <4>1
    <3> QED BY <3>2, <3>3
  <2>2. Fix(h)
    <3>1. h = [i \in 1..n |-> h[i]]
      OBVIOUS
    <3> HIDE DEF h
    <3>2. [i \in 1..n |-> h[i]] = [i \in 1..n |-> IF i = 1 THEN p[i] ELSE h[i - 1] \o p[i]]
      BY <2>1
    <3> QED BY <3>1, <3>2
  <2> DEFINE c == CHOOSE g : Fix(g)
  <2>3. Fix(c)
    <3>1. \E g : Fix(g)
      <4> HIDE DEF h, Fix
      <4> QED BY <2>2
    <3> HIDE DEF Fix
    <3> QED BY <3>1
  <2>4. Writer!FlattenSeq(p) = c[n]
    BY <1>3, Zenon DEF Writer!FlattenSeq
  <2> HIDE DEF c
  <2>5. ASSUME NEW i \in 1..n PROVE c[i] = IF i = 1 THEN p[i] ELSE c[i - 1] \o p[i]
    BY <2>3
  <2> DEFINE S == {k \in 0..n : k = 0 \/ c[k] = f[k]}
  <2>6. 0 \in S
    BY <1>0
  <2>7. ASSUME NEW k \in 1..n, k - 1 \in S PROVE k \in S
    <3>1. CASE k = 1
      <4>1. c[k] = h[k] /\ h[k] = f[k]
        BY <2>1, <2>5, <3>1
      <4> QED BY <1>0, <4>1
    <3>2. CASE k # 1
      <4>1. k - 1 \in 1..n
        BY <1>0, <3>2
      <4>2. c[k - 1] = f[k - 1]
        BY <2>7, <4>1
      <4>5. c[k] = c[k - 1] \o p[k]
        BY <2>5, <3>2
      <4>6. f[k] = f[k - 1] \o p[k]
        BY <1>1
      <4>3. c[k] = f[k]
        BY <4>2, <4>5, <4>6
      <4> QED BY <1>0, <4>3
    <3> QED BY <3>1, <3>2
  <2>8. c[n] = f[n]
    <3> HIDE DEF S
    <3>1. \A k \in 1..n : k - 1 \in S => k \in S
      BY <2>7
    <3>2. \A k \in 0..n : k \in S
      BY ONLY <1>0, <2>6, <3>1, EveryLength
    <3> QED BY <1>0, <1>3, <3>2 DEF S
  <2> QED BY <2>4, <2>8
<1> QED BY <1>2, <1>3

\* s is the sequences of p behind one another; the k-th ends at g[k].
Pieces(s, p, g, n) ==
    /\ (\A k \in 0..n : g[k] \in Nat) /\ g[0] = 0 /\ g[n] = Len(s)
    /\ \A k \in 1..n : g[k] = g[k - 1] + Len(p[k])
    /\ \A k \in 1..n : \A j \in 1..Len(p[k]) : s[g[k - 1] + j] = p[k][j]

(* Each of them is found where those before it end.                        *)
LEMMA JoinedPieces ==
    ASSUME NEW T, NEW p, NEW n, Lists(p, T, n), NEW f, Joined(f, p, T, n)
    PROVE  f[n] \in Seq(T) /\ \E g : Pieces(f[n], p, g, n)
<1>0. n \in Nat /\ \A k \in 1..n : p[k] \in Seq(T)
  BY DEF Lists
<1>2. (\A k \in 0..n : f[k] \in Seq(T)) /\ f[0] = <<>> /\ \A k \in 1..n : f[k] = f[k - 1] \o p[k]
  BY DEF Joined
<1> DEFINE g == [k \in 0..n |-> Len(f[k])]
<1>4. ASSUME NEW k \in 1..n
      PROVE  /\ k - 1 \in 0..n /\ k \in 0..n /\ p[k] \in Seq(T) /\ f[k - 1] \in Seq(T)
                  /\ f[k] \in Seq(T)
             /\ Len(f[k]) = Len(f[k - 1]) + Len(p[k])
             /\ \A j \in 1..Len(f[k - 1]) : f[k][j] = f[k - 1][j]
             /\ \A j \in 1..Len(p[k]) : f[k][Len(f[k - 1]) + j] = p[k][j]
  <2>1. k - 1 \in 0..n /\ k \in 0..n
    BY <1>0
  <2> DEFINE a == f[k - 1]
             b == p[k]
  <2>2. a \in Seq(T) /\ b \in Seq(T) /\ f[k] \in Seq(T)
    BY <1>0, <1>2, <2>1
  <2>3. f[k] = a \o b
    BY <1>2
  <2> HIDE DEF a, b
  <2>4. Len(a \o b) = Len(a) + Len(b) /\ \A j \in 1..Len(a) : (a \o b)[j] = a[j]
    BY ONLY <2>2
  <2>5. \A j \in 1..Len(b) : (a \o b)[Len(a) + j] = b[j]
    BY ONLY <2>2
  <2> QED BY <2>1, <2>2, <2>3, <2>4, <2>5 DEF a, b
<1>5. \A k \in 0..n : g[k] \in Nat /\ g[k] = Len(f[k])
  <2> SUFFICES ASSUME NEW k \in 0..n PROVE g[k] \in Nat /\ g[k] = Len(f[k])
    OBVIOUS
  <2>1. f[k] \in Seq(T)
    BY <1>2
  <2> QED BY <2>1
<1>12. g[0] = 0
  BY <1>0, <1>2
<1> HIDE DEF g
<1>6. \A k \in 1..n : g[k] = g[k - 1] + Len(p[k])
  <2> SUFFICES ASSUME NEW k \in 1..n PROVE g[k] = g[k - 1] + Len(p[k])
    OBVIOUS
  <2>1. g[k] = Len(f[k]) /\ g[k - 1] = Len(f[k - 1])
    BY <1>4, <1>5
  <2> QED BY <1>4, <2>1
<1> DEFINE Good(m) == \A k \in 1..m : \A j \in 1..Len(p[k]) : g[k - 1] + j \in 1..g[m]
          /\ f[m][g[k - 1] + j] = p[k][j]
           S == {m \in 0..n : Good(m)}
<1>7. 0 \in S
  BY <1>0
<1>8. ASSUME NEW m \in 1..n, Good(m - 1) PROVE Good(m)
  <2> SUFFICES ASSUME NEW k \in 1..m, NEW j \in 1..Len(p[k])
               PROVE  g[k - 1] + j \in 1..g[m] /\ f[m][g[k - 1] + j] = p[k][j]
    BY DEF Good
  <2>1. g[m] = g[m - 1] + Len(p[m]) /\ Len(p[m]) \in Nat /\ g[m - 1] \in Nat
            /\ g[m - 1] = Len(f[m - 1]) /\ g[m] \in Nat
    <3>1. p[m] \in Seq(T) /\ m - 1 \in 0..n /\ m \in 0..n
      BY <1>4
    <3>2. Len(p[m]) \in Nat
      BY ONLY <3>1
    <3> QED BY <1>5, <1>6, <3>1, <3>2
  <2>2. CASE k = m
    <3>1. g[k - 1] + j \in 1..g[m]
      <4> DEFINE a == g[m - 1]
                 b == Len(p[m])
                 c == g[m]
      <4>1. j \in 1..b /\ g[k - 1] = a /\ a \in Nat /\ b \in Nat /\ c = a + b
        BY <2>1, <2>2
      <4> HIDE DEF a, b, c
      <4>2. a + j \in 1..c
        BY ONLY <4>1
      <4> QED BY <4>1, <4>2 DEF c
    <3>2. f[m][Len(f[m - 1]) + j] = p[m][j]
      BY <1>4, <2>2
    <3> QED BY <2>1, <2>2, <3>1, <3>2
  <2>3. CASE k # m
    <3>1. k \in 1..m - 1
      BY <1>0, <2>3
    <3>2. g[k - 1] + j \in 1..g[m - 1] /\ f[m - 1][g[k - 1] + j] = p[k][j]
      BY <1>8, <3>1
    <3> DEFINE x == g[k - 1] + j
    <3> HIDE DEF x
    <3>3. x \in 1..g[m - 1] /\ f[m - 1][x] = p[k][j]
      BY <3>2 DEF x
    <3>4. x \in 1..g[m] /\ x \in 1..Len(f[m - 1])
      <4> DEFINE a == g[m - 1]
                 b == Len(p[m])
                 c == g[m]
      <4>1. x \in 1..a /\ a \in Nat /\ b \in Nat /\ c = a + b /\ a = Len(f[m - 1])
        BY <2>1, <3>3
      <4> HIDE DEF a, b, c
      <4>2. x \in 1..c
        BY ONLY <4>1
      <4> QED BY <4>1, <4>2 DEF c
    <3>5. f[m][x] = f[m - 1][x]
      BY <1>4, <3>4
    <3> QED BY <3>3, <3>4, <3>5 DEF x
  <2> QED BY <2>2, <2>3
<1>9. Good(n)
  <2>1. \A k \in 1..n : k - 1 \in S => k \in S
    <3> HIDE DEF Good
    <3> QED BY <1>0, <1>8
  <2> HIDE DEF S
  <2>2. \A k \in 0..n : k \in S
    BY ONLY <1>0, <1>7, <2>1, EveryLength
  <2> HIDE DEF Good
  <2> QED BY <1>0, <2>2 DEF S
<1>10. Pieces(f[n], p, g, n)
  <2>1. \A k \in 1..n : \A j \in 1..Len(p[k]) : f[n][g[k - 1] + j] = p[k][j]
    BY <1>9
  <2>2. g[n] = Len(f[n])
    BY <1>0, <1>5
  <2> HIDE DEF Good, S
  <2> QED BY <1>5, <1>6, <1>12, <2>1, <2>2 DEF Pieces
<1>11. f[n] \in Seq(T)
  BY <1>0, <1>2
<1> QED BY <1>10, <1>11

(* FlattenSeq puts sequences behind one another.                           *)
LEMMA Flattened ==
    ASSUME NEW T, NEW p, NEW n, Lists(p, T, n), n = Len(p), n = 0 => p = <<>>
    PROVE  /\ Writer!FlattenSeq(p) \in Seq(T)
           /\ \E g : Pieces(Writer!FlattenSeq(p), p, g, n)
<1>1. PICK f : Joined(f, p, T, n)
  BY JoinedExists
<1>2. Writer!FlattenSeq(p) = f[n]
  BY <1>1, FlattenIs
<1>3. f[n] \in Seq(T) /\ \E g : Pieces(f[n], p, g, n)
  BY <1>1, JoinedPieces
<1> QED BY <1>2, <1>3

-----------------------------------------------------------------------------
(* Emulation prevention: where the 3s are put.                             *)

(* Emulation prevention *)

Octet == 0..255
Zeros(r, k) == Writer!ZerosBefore(r, k)

(* The zeros in front of a byte, one byte later.                           *)
LEMMA ZerosCount ==
    ASSUME NEW r, NEW k \in Nat \ {0}
    PROVE  /\ Zeros(r, 1) = 0
           /\ Zeros(r, k) \in 0..k - 1
           /\ r[k] # 0 => Zeros(r, k + 1) = 0
           /\ r[k] = 0 => Zeros(r, k + 1) = Zeros(r, k) + 1
<1> DEFINE Z(i) == {0} \cup {j \in 1..i - 1 : r[j] # 0}
<1>0. ASSUME NEW i \in Nat \ {0} PROVE Zeros(r, i) = i - 1 - Writer!Max(Z(i))
  BY DEF Zeros, Writer!ZerosBefore
<1>1. Zeros(r, 1) = 0
  <2>1. Z(1) = {0}
    OBVIOUS
  <2> HIDE DEF Z
  <2>2. Z(1) \in SUBSET Int /\ 0 \in Z(1) /\ \A x \in Z(1) : x <= 0
    BY <2>1
  <2>3. Writer!Max(Z(1)) = 0
    BY <2>2, MaxIs
  <2> QED BY <1>0, <2>3
<1>2. Z(k) \in SUBSET (0..k - 1) /\ 0 \in Z(k) /\ k - 1 \in Nat
  OBVIOUS
<1>3. PICK m \in Z(k) : \A x \in Z(k) : x <= m
  <2> HIDE DEF Z
  <2> DEFINE S == Z(k)
             n == k - 1
  <2>1. n \in Nat /\ S \in SUBSET (0..n) /\ S # {}
    BY <1>2
  <2> HIDE DEF S, n
  <2>2. \E m \in S : \A x \in S : x <= m
    BY <2>1, GreatestExists
  <2> QED BY <2>2 DEF S
<1>4. Writer!Max(Z(k)) = m /\ m \in 0..k - 1
  <2> HIDE DEF Z
  <2> DEFINE S == Z(k)
  <2>1. S \in SUBSET Int /\ m \in S /\ \A x \in S : x <= m
    BY <1>2, <1>3
  <2> HIDE DEF S
  <2>2. Writer!Max(S) = m
    BY <2>1, MaxIs
  <2> QED BY <1>2, <2>2 DEF S
<1>5. Zeros(r, k) = k - 1 - m
  <2> HIDE DEF Z
  <2> QED BY <1>0, <1>4
<1>6. ASSUME r[k] # 0 PROVE Zeros(r, k + 1) = 0
  <2>1. Z(k + 1) \in SUBSET Int /\ k \in Z(k + 1) /\ \A x \in Z(k + 1) : x <= k
    BY <1>6
  <2> HIDE DEF Z
  <2> DEFINE S == Z(k + 1)
  <2>2. S \in SUBSET Int /\ k \in S /\ \A x \in S : x <= k
    BY <2>1
  <2> HIDE DEF S
  <2>3. Writer!Max(S) = k
    BY <2>2, MaxIs
  <2> QED BY <1>0, <2>3 DEF S
<1>7. ASSUME r[k] = 0 PROVE Zeros(r, k + 1) = Zeros(r, k) + 1
  <2>1. Z(k + 1) = Z(k)
    BY <1>7
  <2> HIDE DEF Z
  <2> QED BY <1>0, <1>4, <1>5, <2>1
<1> HIDE DEF Z
<1>8. Zeros(r, k) \in 0..k - 1
  BY <1>4, <1>5
<1> QED BY <1>1, <1>6, <1>7, <1>8

\* The bytes behind which a 3 is put.
Stuffed(r, k) == IF k < Len(r) THEN Writer!Escape(r, k + 1) ELSE r[k] = 0
\* e is r with these; r[k] is the byte behind the first B[k - 1].
Spread(e, r, B) ==
    /\ e \in Seq(Octet) /\ r \in Seq(Octet)
    /\ \A k \in 0..Len(r) : B[k] \in Nat
    /\ B[0] = 0 /\ B[Len(r)] = Len(e)
    /\ \A k \in 1..Len(r) :
         /\ B[k - 1] < Len(e) /\ e[B[k - 1] + 1] = r[k]
         /\ Stuffed(r, k) => B[k] = B[k - 1] + 2 /\ e[B[k - 1] + 2] = 3
         /\ ~Stuffed(r, k) => B[k] = B[k - 1] + 1

(* Escaped puts a 3 where the standard does and keeps each byte of the     *)
(* RBSP.                                                                   *)
LEMMA EscapedSpread ==
    ASSUME NEW r \in Seq(Octet)
    PROVE  \E B : Spread(Writer!Escaped(r), r, B)
<1> DEFINE N == Len(r)
           p == [k \in 1..N |-> IF Writer!Escape(r, k) THEN <<3, r[k]>> ELSE <<r[k]>>]
           e == Writer!FlattenSeq(p)
           z == IF N > 0 /\ r[N] = 0 THEN <<3>> ELSE <<>>
<1>0. N \in Nat /\ (\A k \in 1..N : r[k] \in Octet) /\ (N = 0 <=> r = <<>>)
  OBVIOUS
<1>1. Writer!Escaped(r) = e \o z
  BY DEF Writer!Escaped, Writer!Only, Writer!Last
<1>2. Lists(p, Octet, N) /\ N = Len(p) /\ (N = 0 => p = <<>>)
  <2>1. ASSUME NEW k \in 1..N PROVE p[k] \in Seq(Octet)
    <3>1. r[k] \in Octet /\ 3 \in Octet
      BY <1>0 DEF Octet
    <3> DEFINE x == r[k]
    <3> HIDE DEF x
    <3>2. x \in Octet
      BY <3>1 DEF x
    <3>3. <<3, x>> \in Seq(Octet) /\ <<x>> \in Seq(Octet)
      BY ONLY <3>1, <3>2
    <3> QED BY <3>3 DEF x
  <2>2. N = Len(p) /\ (N = 0 => p = <<>>)
    <3>1. p \in [1..N -> {p[k] : k \in 1..N}]
      OBVIOUS
    <3> HIDE DEF N, p
    <3>2. p \in Seq({p[k] : k \in 1..N}) /\ Len(p) = N
      BY ONLY <1>0, <3>1
    <3> QED BY <3>2
  <2> HIDE DEF p
  <2> QED BY <1>0, <2>1, <2>2 DEF Lists
<1>3. e \in Seq(Octet) /\ \E g : Pieces(e, p, g, N)
  <2> HIDE DEF p, N
  <2> QED BY <1>2, Flattened
<1>4. PICK g : Pieces(e, p, g, N)
  BY <1>3
<1> DEFINE esc(k) == Writer!Escape(r, k)
<1>5. ASSUME NEW k \in 1..N
      PROVE  /\ g[k - 1] \in Nat /\ g[k] \in Nat
             /\ esc(k) => g[k] = g[k - 1] + 2 /\ e[g[k - 1] + 1] = 3 /\ e[g[k - 1] + 2] = r[k]
             /\ ~esc(k) => g[k] = g[k - 1] + 1 /\ e[g[k - 1] + 1] = r[k]
  <2>1. k - 1 \in 0..N /\ k \in 0..N
    BY <1>0
  <2>2. g[k - 1] \in Nat /\ g[k] \in Nat /\ g[k] = g[k - 1] + Len(p[k])
            /\ \A j \in 1..Len(p[k]) : e[g[k - 1] + j] = p[k][j]
    <3> HIDE DEF p, e, N
    <3> QED BY <1>4, <2>1 DEF Pieces
  <2> HIDE DEF e
  <2>3. CASE esc(k)
    <3>1. Len(p[k]) = 2 /\ p[k][1] = 3 /\ p[k][2] = r[k]
      BY <2>3
    <3> HIDE DEF p, N
    <3> QED BY <2>2, <2>3, <3>1
  <2>4. CASE ~esc(k)
    <3>1. Len(p[k]) = 1 /\ p[k][1] = r[k]
      BY <2>4
    <3> HIDE DEF p, N
    <3> QED BY <2>2, <2>4, <3>1
  <2> QED BY <2>3, <2>4
<1>16. ASSUME NEW k \in 1..N
       PROVE  g[k - 1] \in Nat /\ g[k] \in Nat /\ g[k - 1] < g[k]
  <2>1. g[k - 1] \in Nat /\ g[k] \in Nat /\ (g[k] = g[k - 1] + 2 \/ g[k] = g[k - 1] + 1)
    BY <1>5
  <2> DEFINE x == g[k - 1]
             y == g[k]
  <2> HIDE DEF x, y
  <2>2. x \in Nat /\ y \in Nat /\ (y = x + 2 \/ y = x + 1)
    BY <2>1 DEF x, y
  <2>3. x < y
    BY ONLY <2>2
  <2> QED BY <2>2, <2>3 DEF x, y
<1>6. ~esc(1)
  BY ZerosCount DEF Writer!Escape, Zeros
<1> DEFINE E == e \o z
<1>7. /\ E \in Seq(Octet) /\ Len(e) \in Nat /\ Len(E) = Len(e) + Len(z)
      /\ \A j \in 1..Len(e) : E[j] = e[j]
      /\ N > 0 /\ r[N] = 0 => E[Len(e) + 1] = 3 /\ Len(z) = 1
      /\ ~(N > 0 /\ r[N] = 0) => Len(z) = 0
  <2>1. z \in Seq(Octet) /\ e \in Seq(Octet)
    <3>1. 3 \in Octet
      BY DEF Octet
    <3> HIDE DEF e
    <3> QED BY <1>3, <3>1
  <2>2. (Len(z) = 1 => z[1] = 3) /\ (N > 0 /\ r[N] = 0 => Len(z) = 1 /\ z[1] = 3) /\ (~(N > 0
            /\ r[N] = 0) => Len(z) = 0)
    OBVIOUS
  <2> HIDE DEF e, z, N
  <2>3. E \in Seq(Octet) /\ Len(e) \in Nat /\ Len(E) = Len(e) + Len(z)
            /\ \A j \in 1..Len(e) : E[j] = e[j]
    BY ONLY <2>1
  <2>4. \A j \in 1..Len(z) : E[Len(e) + j] = z[j]
    BY ONLY <2>1
  <2> QED BY <2>2, <2>3, <2>4
<1> HIDE DEF p, e, z, N, E
<1> DEFINE B == [k \in 0..N |-> IF k = N THEN Len(E) ELSE IF esc(k + 1) THEN g[k] + 1 ELSE g[k]]
<1>8. g[0] = 0 /\ g[N] = Len(e) /\ (\A k \in 0..N : g[k] \in Nat)
  BY <1>0, <1>4 DEF Pieces
<1>9. ASSUME NEW k \in 1..N PROVE g[k] <= Len(e)
  <2> DEFINE S == {m \in 0..N : g[N - m] <= Len(e)}
  <2>1. 0 \in S
    BY <1>0, <1>7, <1>8
  <2>2. ASSUME NEW m \in 1..N, m - 1 \in S PROVE m \in S
    <3>1. N - (m - 1) \in 1..N /\ (N - (m - 1)) - 1 = N - m /\ m \in 0..N
      BY <1>0
    <3> DEFINE x == N - (m - 1)
    <3>2. x \in 1..N /\ x - 1 = N - m /\ g[x] <= Len(e)
      BY <2>2, <3>1
    <3> HIDE DEF x
    <3>3. g[x - 1] <= Len(e)
      <4> DEFINE y == g[x - 1]
                 q == g[x]
                 L == Len(e)
      <4> HIDE DEF y, q, L
      <4>1. y \in Nat /\ q \in Nat /\ L \in Nat /\ y < q /\ q <= L
        BY <1>7, <1>16, <3>2 DEF y, q, L
      <4>2. y <= L
        BY ONLY <4>1
      <4> QED BY <4>2 DEF y, L
    <3> QED BY <3>1, <3>2, <3>3
  <2> HIDE DEF S
  <2>3. \A m \in 1..N : m - 1 \in S => m \in S
    BY <2>2
  <2>4. \A m \in 0..N : m \in S
    BY ONLY <1>0, <2>1, <2>3, EveryLength
  <2>5. N - k \in S /\ N - (N - k) = k
    BY <1>0, <2>4
  <2> QED BY <2>5 DEF S
<1>10. ASSUME NEW k \in 1..N
       PROVE  /\ k - 1 \in 0..N /\ k - 1 # N /\ k - 1 + 1 = k
              /\ B[k - 1] = IF esc(k) THEN g[k - 1] + 1 ELSE g[k - 1]
  BY <1>0
<1>11. ASSUME NEW k \in 1..N
       PROVE  B[k] = IF k = N THEN Len(E) ELSE IF esc(k + 1) THEN g[k] + 1 ELSE g[k]
  BY <1>0
<1>12. \A k \in 0..N : B[k] \in Nat
  BY <1>7, <1>8
<1>13. B[0] = 0 /\ B[N] = Len(E)
  <2>1. CASE N = 0
    <3>1. Len(E) = 0
      BY <1>7, <1>8, <2>1
    <3> QED BY <2>1, <3>1
  <2>2. CASE N # 0
    <3>1. 0 \in 0..N /\ N \in 0..N /\ 0 # N /\ 0 + 1 = 1
      BY <1>0, <2>2
    <3> QED BY <1>6, <1>8, <3>1
  <2> QED BY <2>1, <2>2
<1> HIDE DEF B
<1>14. ASSUME NEW k \in 1..N
       PROVE  /\ B[k - 1] < Len(E) /\ E[B[k - 1] + 1] = r[k]
              /\ Stuffed(r, k) => B[k] = B[k - 1] + 2 /\ E[B[k - 1] + 2] = 3
              /\ ~Stuffed(r, k) => B[k] = B[k - 1] + 1
  <2> DEFINE b == B[k - 1]
             a == g[k]
  <2>1. b + 1 = a /\ e[a] = r[k] /\ a \in 1..Len(e)
    <3>1. a \in Nat /\ g[k - 1] \in Nat /\ g[k - 1] < a /\ a <= Len(e)
      BY <1>9, <1>16
    <3>2. b + 1 = a /\ e[a] = r[k]
      <4>1. CASE esc(k)
        <5>1. b = g[k - 1] + 1 /\ a = g[k - 1] + 2 /\ e[g[k - 1] + 2] = r[k]
          BY <1>5, <1>10, <4>1
        <5> HIDE DEF a, b
        <5> QED BY <3>1, <5>1
      <4>2. CASE ~esc(k)
        <5>1. b = g[k - 1] /\ a = g[k - 1] + 1 /\ e[g[k - 1] + 1] = r[k]
          BY <1>5, <1>10, <4>2
        <5> HIDE DEF a, b
        <5> QED BY <3>1, <5>1
      <4> QED BY <4>1, <4>2
    <3> DEFINE L == Len(e)
    <3> HIDE DEF a, b, L
    <3>3. L \in Nat /\ a <= L
      BY <1>7, <3>1 DEF L
    <3>4. a \in 1..L
      <4> DEFINE y == g[k - 1]
      <4> HIDE DEF y
      <4>1. y \in Nat /\ y < a /\ a \in Nat
        BY <3>1 DEF y
      <4> QED BY ONLY <3>3, <4>1
    <3> QED BY <3>2, <3>4 DEF L
  <2>5. Len(e) \in Nat /\ Len(E) \in Nat /\ Len(e) <= Len(E) /\ b \in Nat
    <3>1. Len(z) \in Nat
      BY <1>7
    <3>2. b \in Nat
      BY <1>10, <1>12
    <3> QED BY <1>7, <3>1, <3>2
  <2>6. b < Len(E)
    <3> DEFINE L == Len(e)
               M == Len(E)
    <3> HIDE DEF a, b, L, M
    <3>1. L \in Nat /\ M \in Nat /\ L <= M /\ b \in Nat /\ b + 1 = a /\ a <= L
      BY <2>1, <2>5 DEF L, M
    <3>2. b < M
      BY ONLY <3>1
    <3> QED BY <3>2 DEF M
  <2>2. E[a] = r[k] /\ a <= Len(E)
    BY <1>7, <2>1
  <2> HIDE DEF b
  <2>3. CASE k = N
    <3>1. Stuffed(r, k) <=> r[N] = 0
      BY <2>3 DEF Stuffed, N
    <3>2. a = Len(e) /\ B[k] = Len(E) /\ N > 0
      BY <1>0, <1>8, <1>13, <2>3
    <3> HIDE DEF a
    <3>3. b + 2 = Len(e) + 1 /\ b < Len(E)
      BY <2>1, <2>5, <2>6, <3>2
    <3>4. Stuffed(r, k) => B[k] = b + 2 /\ E[b + 2] = 3
      BY <1>7, <2>1, <3>1, <3>2, <3>3
    <3>5. ~Stuffed(r, k) => B[k] = b + 1
      BY <1>7, <2>1, <3>1, <3>2, <3>3
    <3> QED BY <2>1, <2>2, <3>3, <3>4, <3>5 DEF b
  <2>4. CASE k # N
    <3>1. k + 1 \in 1..N /\ k + 1 - 1 = k /\ k < Len(r)
      BY <1>0, <2>4 DEF N
    <3>2. Stuffed(r, k) <=> esc(k + 1)
      BY <3>1 DEF Stuffed
    <3>3. esc(k + 1) => e[a + 1] = 3 /\ g[k + 1] = a + 2
      BY <1>5, <3>1
    <3>4. esc(k + 1) => E[a + 1] = 3
      <4>1. g[k + 1] <= Len(e)
        BY <1>9, <3>1
      <4>2. esc(k + 1) => a + 1 \in 1..Len(e)
        <5> DEFINE L == Len(e)
                   y == g[k + 1]
        <5> HIDE DEF a, L, y
        <5>1. a \in 1..L /\ L \in Nat /\ y <= L /\ (esc(k + 1) => y = a + 2)
          BY <2>1, <2>5, <3>3, <4>1 DEF L, y
        <5>2. esc(k + 1) => a + 1 \in 1..L
          BY ONLY <5>1
        <5> QED BY <5>2 DEF L
      <4> QED BY <1>7, <3>3, <4>2
    <3>5. B[k] = IF esc(k + 1) THEN a + 1 ELSE a
      BY <1>11, <2>4
    <3>6. a + 1 = b + 2 /\ a = b + 1 /\ b < Len(E)
      <4> HIDE DEF a
      <4> QED BY <2>1, <2>5, <2>6
    <3> QED BY <2>1, <2>2, <3>2, <3>4, <3>5, <3>6 DEF b
  <2> QED BY <2>3, <2>4
<1>15. Spread(E, r, B)
  BY <1>7, <1>12, <1>13, <1>14 DEF Spread, N
<1> QED BY <1>1, <1>15 DEF E

-----------------------------------------------------------------------------
(* Reading the bytes of a unit again.                                      *)

\* q without its first k elements.
Beyond(q, k) == [j \in 1..Len(q) - k |-> q[k + j]]
\* s with t zeros behind it.
Padded(s, t) == [j \in 1..Len(s) + t |-> IF j <= Len(s) THEN s[j] ELSE 0]
\* q has a behind its first k elements.
Has(q, T, k, a) ==
    /\ q \in Seq(T) /\ a \in Seq(T) /\ k \in Nat /\ k + Len(a) <= Len(q)
    /\ \A j \in 1..Len(a) : q[k + j] = a[j]

(* The elements that are left.                                             *)
LEMMA RestIs ==
    ASSUME NEW T, NEW q \in Seq(T), NEW k \in 0..Len(q)
    PROVE  /\ Beyond(q, k) \in Seq(T) /\ Len(Beyond(q, k)) = Len(q) - k
           /\ \A j \in 1..Len(q) - k : Beyond(q, k)[j] = q[k + j]
<1> DEFINE n == Len(q) - k
           R == Beyond(q, k)
<1>1. n \in Nat /\ \A j \in 1..n : q[k + j] \in T
  <2>1. Len(q) \in Nat /\ \A j \in 1..Len(q) : q[j] \in T
    OBVIOUS
  <2>2. n \in Nat /\ \A j \in 1..n : k + j \in 1..Len(q)
    BY <2>1
  <2> QED BY <2>1, <2>2
<1>2. R \in [1..n -> T] /\ \A j \in 1..n : R[j] = q[k + j]
  BY <1>1 DEF Beyond
<1> HIDE DEF n, R
<1>3. R \in Seq(T) /\ Len(R) = n
  BY ONLY <1>1, <1>2
<1> QED BY <1>2, <1>3 DEF n, R

(* What is put in front of the rest is the longer rest.                    *)
LEMMA RestPut ==
    ASSUME NEW T, NEW q, NEW k, NEW a, Has(q, T, k, a)
    PROVE  a \o Beyond(q, k + Len(a)) = Beyond(q, k)
<1>0. /\ q \in Seq(T) /\ a \in Seq(T) /\ k \in Nat /\ k + Len(a) <= Len(q)
      /\ \A j \in 1..Len(a) : q[k + j] = a[j]
  BY DEF Has
<1> DEFINE m == Len(a)
           n == Len(q)
           b == Beyond(q, k + m)
           c == Beyond(q, k)
<1>1. m \in Nat /\ n \in Nat /\ k \in 0..n /\ k + m \in 0..n
  <2>1. m \in Nat /\ n \in Nat /\ k \in Nat /\ k + m <= n
    BY <1>0
  <2> HIDE DEF m, n
  <2> QED BY ONLY <2>1
<1>2. b \in Seq(T) /\ Len(b) = n - (k + m) /\ \A j \in 1..n - (k + m) : b[j] = q[k + m + j]
  BY <1>0, <1>1, RestIs
<1>3. c \in Seq(T) /\ Len(c) = n - k /\ \A j \in 1..n - k : c[j] = q[k + j]
  BY <1>0, <1>1, RestIs
<1> HIDE DEF m, n, b, c
<1>10. a \in Seq(T) /\ b \in Seq(T)
  BY <1>0, <1>2
<1>4. a \o b \in Seq(T) /\ Len(a \o b) = Len(a) + Len(b) /\ \A j \in 1..Len(a) : (a \o b)[j] = a[j]
  BY ONLY <1>10
<1>5. \A j \in 1..Len(b) : (a \o b)[Len(a) + j] = b[j]
  BY ONLY <1>10
<1>6. Len(a \o b) = Len(c)
  BY <1>1, <1>2, <1>3, <1>4 DEF m
<1>7. ASSUME NEW j \in 1..Len(c) PROVE (a \o b)[j] = c[j]
  <2>1. CASE j <= m
    <3>1. j \in 1..m /\ j \in 1..n - k
      BY <1>1, <1>3, <2>1
    <3> QED BY <1>0, <1>3, <1>4, <3>1 DEF m
  <2>2. CASE ~(j <= m)
    <3>1. j - m \in 1..n - (k + m) /\ m + (j - m) = j /\ j \in 1..n - k /\ k + m + (j - m) = k + j
      BY <1>1, <1>3, <2>2
    <3> DEFINE i == j - m
    <3> HIDE DEF i
    <3>2. i \in 1..n - (k + m) /\ m + i = j /\ j \in 1..n - k /\ k + m + i = k + j
      BY <3>1 DEF i
    <3>3. (a \o b)[m + i] = b[i] /\ b[i] = q[k + m + i]
      BY <1>2, <1>5, <3>2 DEF m
    <3> QED BY <1>3, <3>2, <3>3
  <2> QED BY <2>1, <2>2
<1> DEFINE s == a \o b
<1> HIDE DEF s
<1>8. s \in Seq(T) /\ c \in Seq(T) /\ Len(s) = Len(c) /\ \A j \in 1..Len(s) : s[j] = c[j]
  BY <1>3, <1>4, <1>6, <1>7 DEF s
<1>9. s = c
  BY ONLY <1>8, SeqEqual
<1> QED BY <1>9 DEF s, m, b, c

(* A unit with zeros behind it, byte by byte.                              *)
LEMMA PaddedIs ==
    ASSUME NEW s \in Seq(Octet), NEW t \in Nat
    PROVE  /\ Padded(s, t) \in Seq(Octet) /\ Len(Padded(s, t)) = Len(s) + t
           /\ \A j \in 1..Len(s) : Padded(s, t)[j] = s[j]
           /\ \A j \in Len(s) + 1..Len(s) + t : Padded(s, t)[j] = 0
<1> DEFINE L == Len(s)
           P == Padded(s, t)
<1>0. 0 \in Octet
  BY DEF Octet
<1>1. L \in Nat /\ (\A j \in 1..L : s[j] \in Octet) /\ 0 \in Octet
  BY <1>0
<1>2. P = [j \in 1..L + t |-> IF j <= L THEN s[j] ELSE 0]
  BY DEF Padded
<1> HIDE DEF L, P
<1>3. P \in [1..L + t -> Octet]
  <2>1. ASSUME NEW j \in 1..L + t PROVE P[j] \in Octet
    <3>1. j <= L => j \in 1..L
      BY <1>1
    <3> QED BY <1>1, <1>2, <3>1
  <2> QED BY <1>2, <2>1
<1>4. P \in Seq(Octet) /\ Len(P) = L + t
  <2> DEFINE n == L + t
  <2>1. n \in Nat /\ P \in [1..n -> Octet]
    BY <1>1, <1>3
  <2> HIDE DEF n
  <2>2. P \in Seq(Octet) /\ Len(P) = n
    BY ONLY <2>1
  <2> QED BY <2>2 DEF n
<1>5. \A j \in 1..L : P[j] = s[j]
  <2> TAKE j \in 1..L
  <2>1. j \in 1..L + t /\ j <= L
    BY <1>1
  <2> QED BY <1>2, <2>1
<1>6. \A j \in L + 1..L + t : P[j] = 0
  <2> TAKE j \in L + 1..L + t
  <2>1. j \in 1..L + t /\ ~(j <= L)
    BY <1>1
  <2> QED BY <1>2, <2>1
<1> QED BY <1>4, <1>5, <1>6 DEF L, P

-----------------------------------------------------------------------------
\* The loop of RemoveEmulationPrevention.
Removal(f, D) ==
    /\ f[Len(D)] = <<>>
    /\ \A i \in 0..Len(D) - 1 :
         /\ Prevents(D, i) => f[i] = <<0, 0>> \o f[i + 3]
         /\ ~Prevents(D, i) => f[i] = <<D[i + 1]>> \o f[i + 1]

(* The loop of remove_emulation_prevention reaches the end of the unit.    *)
LEMMA RemovalExists ==
    ASSUME NEW D, Len(D) \in Nat
    PROVE  \E f : Removal(f, D) /\ RemoveEmulationPrevention(D) = f[0]
<1> DEFINE n == Len(D)
           Fix(g) == g = [i \in 0..n |-> IF i = n THEN <<>>
                                          ELSE IF Prevents(D, i) THEN <<0, 0>> \o g[i + 3]
                                          ELSE <<At0(D, i)>> \o g[i + 1]]
           base == [i \in 0..n |-> IF Prevents(D, i) THEN <<0, 0>> ELSE <<At0(D, i)>>]
           next == [i \in 0..n |-> IF Prevents(D, i) THEN i + 3 ELSE i + 1]
<1>1. Forward(0, n, {n}, next)
  <2>1. ASSUME NEW i \in 0..n, i \notin {n} PROVE next[i] \in 0..n /\ next[i] > i
    BY <2>1 DEF Prevents
  <2> HIDE DEF next
  <2>2. -1 \notin 0..n /\ {n} \in SUBSET (0..n) /\ n \in Nat
    OBVIOUS
  <2> QED BY <2>1, <2>2 DEF Forward
<1>2. PICK f : Jumps(f, 0, n, {n}, base, next)
  <2> HIDE DEF base, next, n
  <2> QED BY <1>1, JumpsExist
<1>3. f = [i \in 0..n |-> IF i \in {n} THEN <<>> ELSE base[i] \o f[next[i]]]
  BY <1>2 DEF Jumps
<1>4. Fix(f)
  <2>1. ASSUME NEW i \in 0..n
        PROVE  (IF i \in {n} THEN <<>> ELSE base[i] \o f[next[i]])
                 = (IF i = n THEN <<>> ELSE IF Prevents(D, i) THEN <<0, 0>> \o f[i + 3]
                     ELSE <<At0(D, i)>> \o f[i + 1])
    OBVIOUS
  <2> HIDE DEF n, base, next
  <2> QED BY <1>3, <2>1
<1> DEFINE c == CHOOSE g : Fix(g)
<1>5. Fix(c)
  <2>1. \E g : Fix(g)
    <3> HIDE DEF Fix
    <3> QED BY <1>4
  <2> HIDE DEF Fix
  <2> QED BY <2>1
<1>6. RemoveEmulationPrevention(D) = c[0]
  BY Zenon DEF RemoveEmulationPrevention
<1> HIDE DEF c
<1>7. c[n] = <<>>
  BY <1>5
<1>8. ASSUME NEW i \in 0..n - 1
      PROVE  /\ Prevents(D, i) => c[i] = <<0, 0>> \o c[i + 3]
             /\ ~Prevents(D, i) => c[i] = <<D[i + 1]>> \o c[i + 1]
  <2>1. i \in 0..n /\ i # n
    OBVIOUS
  <2>2. c[i] = IF Prevents(D, i) THEN <<0, 0>> \o c[i + 3] ELSE <<At0(D, i)>> \o c[i + 1]
    BY <1>5, <2>1
  <2> QED BY <2>2 DEF At0
<1>9. Removal(c, D)
  BY <1>7, <1>8 DEF Removal
<1> QED BY <1>6, <1>9

-----------------------------------------------------------------------------
(* Behind a byte that is not 0 the zeros are counted anew; no 3 follows.   *)
LEMMA NotStuffed ==
    ASSUME NEW r \in Seq(Octet), NEW k \in 1..Len(r), r[k] # 0
    PROVE  Zeros(r, k + 1) = 0 /\ ~Stuffed(r, k)
<1>1. k \in Nat \ {0}
  OBVIOUS
<1>2. Zeros(r, k + 1) = 0
  BY <1>1, ZerosCount
<1>3. ~Writer!Escape(r, k + 1)
  BY <1>2 DEF Zeros, Writer!Escape
<1> QED BY <1>2, <1>3 DEF Stuffed

(* Zeros come in twos, and a 3 comes behind the second.                    *)
LEMMA PairStuffed ==
    ASSUME NEW r \in Seq(Octet), NEW k \in 1..Len(r), r[k] = 0,
           Zeros(r, k) % 2 = 0, Zeros(r, Len(r) + 1) % 2 = 0
    PROVE  /\ k + 1 \in 1..Len(r) /\ ~Stuffed(r, k)
           /\ Zeros(r, k + 2) % 2 = 0
           /\ Stuffed(r, k + 1) <=> r[k + 1] = 0 /\ (k + 1 = Len(r) \/ r[k + 2] <= 3)
<1> DEFINE N == Len(r)
           z == Zeros(r, k)
           y == Zeros(r, k + 1)
           x == Zeros(r, k + 2)
<1>1. N \in Nat /\ k \in Nat \ {0} /\ k + 1 \in Nat \ {0} /\ k + 1 + 1 = k + 2
  OBVIOUS
<1>2. z \in Nat /\ y = z + 1
  <2>1. z \in 0..k - 1 /\ y = z + 1
    BY <1>1, ZerosCount
  <2> HIDE DEF z, y
  <2> QED BY <1>1, <2>1
<1>3. (r[k + 1] # 0 => x = 0) /\ (r[k + 1] = 0 => x = y + 1)
  BY <1>1, ZerosCount
<1>4. ~(y % 2 = 0)
  <2>1. z % 2 = 0
    OBVIOUS
  <2> HIDE DEF z, y
  <2> QED BY <1>2, <2>1
<1>5. k # N
  BY <1>4
<1>6. k + 1 \in 1..N /\ k < N
  BY <1>1, <1>5
<1>7. ~Stuffed(r, k)
  BY <1>4, <1>6 DEF Stuffed, Writer!Escape, Zeros
<1>8. x % 2 = 0 /\ (r[k + 1] = 0 => x >= 2) /\ (r[k + 1] # 0 => ~(x >= 2))
  <2>1. z % 2 = 0
    OBVIOUS
  <2> DEFINE u == r[k + 1]
  <2>2. (u # 0 => x = 0) /\ (u = 0 => x = y + 1)
    BY <1>3
  <2> HIDE DEF z, y, x, u
  <2>3. x % 2 = 0 /\ (u = 0 => x >= 2) /\ (u # 0 => ~(x >= 2))
    BY ONLY <1>2, <2>1, <2>2
  <2> QED BY <2>3 DEF u
<1>9. Stuffed(r, k + 1) <=> r[k + 1] = 0 /\ (k + 1 = N \/ r[k + 2] <= 3)
  <2>1. CASE k + 1 = N
    BY <2>1 DEF Stuffed
  <2>2. CASE k + 1 # N
    <3>1. k + 1 < N
      BY <1>6, <2>2, <1>1
    <3>2. Stuffed(r, k + 1) <=> Writer!Escape(r, k + 2)
      BY <1>1, <3>1 DEF Stuffed
    <3>3. Writer!Escape(r, k + 2) <=> x >= 2 /\ x % 2 = 0 /\ r[k + 2] <= 3
      BY DEF Writer!Escape, Zeros
    <3> HIDE DEF x
    <3> QED BY <1>8, <2>2, <3>2, <3>3
  <2> QED BY <2>1, <2>2
<1> QED BY <1>6, <1>7, <1>8, <1>9

Reading(e, r, B, t, D, Q, f) ==
    /\ Spread(e, r, B) /\ t \in Nat /\ D = Padded(e, t) /\ Q = Padded(r, t)
    /\ Removal(f, D) /\ Zeros(r, Len(r) + 1) % 2 = 0

(* What is read and what there is to read, byte by byte.                   *)
LEMMA ReadingIs ==
    ASSUME NEW e, NEW r, NEW B, NEW t, NEW D, NEW Q, NEW f, Reading(e, r, B, t, D, Q, f)
    PROVE  /\ e \in Seq(Octet) /\ r \in Seq(Octet) /\ Len(e) \in Nat /\ Len(r) \in Nat /\ t \in Nat
           /\ D \in Seq(Octet) /\ Len(D) = Len(e) + t
           /\ \A j \in 1..Len(e) : D[j] = e[j]
           /\ \A j \in Len(e) + 1..Len(e) + t : D[j] = 0
           /\ Q \in Seq(Octet) /\ Len(Q) = Len(r) + t
           /\ \A j \in 1..Len(r) : Q[j] = r[j]
           /\ \A j \in Len(r) + 1..Len(r) + t : Q[j] = 0
<1>1. Spread(e, r, B) /\ t \in Nat /\ D = Padded(e, t) /\ Q = Padded(r, t)
  BY DEF Reading
<1>2. e \in Seq(Octet) /\ r \in Seq(Octet)
  BY <1>1 DEF Spread
<1>3. Len(e) \in Nat /\ Len(r) \in Nat
  BY ONLY <1>2
<1>4. /\ D \in Seq(Octet) /\ Len(D) = Len(e) + t
      /\ \A j \in 1..Len(e) : D[j] = e[j]
      /\ \A j \in Len(e) + 1..Len(e) + t : D[j] = 0
  BY <1>1, <1>2, PaddedIs
<1>5. /\ Q \in Seq(Octet) /\ Len(Q) = Len(r) + t
      /\ \A j \in 1..Len(r) : Q[j] = r[j]
      /\ \A j \in Len(r) + 1..Len(r) + t : Q[j] = 0
  BY <1>1, <1>2, PaddedIs
<1> QED BY <1>1, <1>2, <1>3, <1>4, <1>5

(* A zero is a byte.                                                       *)
LEMMA ZeroByte ==
    0 \in Octet /\ <<0>> \in Seq(Octet) /\ Len(<<0>>) = 1 /\ <<0>>[1] = 0
<1>1. 0 \in Octet
  BY DEF Octet
<1> QED BY <1>1

(* Behind the last element nothing is left.                                *)
LEMMA RestEnd ==
    ASSUME NEW Q, Len(Q) \in Nat
    PROVE  Beyond(Q, Len(Q)) = <<>>
<1>1. 1..Len(Q) - Len(Q) = {}
  OBVIOUS
<1>2. Beyond(Q, Len(Q)) = [j \in {} |-> Q[Len(Q) + j]]
  BY <1>1 DEF Beyond
<1>3. [j \in {} |-> Q[Len(Q) + j]] = <<>>
  OBVIOUS
<1> QED BY <1>2, <1>3

(* The zeros behind the unit stay.                                         *)
LEMMA ReadZeros ==
    ASSUME NEW e, NEW r, NEW B, NEW t, NEW D, NEW Q, NEW f, Reading(e, r, B, t, D, Q, f)
    PROVE  f[Len(e)] = Beyond(Q, Len(r))
<1>0. /\ Len(e) \in Nat /\ Len(r) \in Nat /\ t \in Nat
      /\ D \in Seq(Octet) /\ Len(D) = Len(e) + t
      /\ \A j \in Len(e) + 1..Len(e) + t : D[j] = 0
      /\ Q \in Seq(Octet) /\ Len(Q) = Len(r) + t
      /\ \A j \in Len(r) + 1..Len(r) + t : Q[j] = 0
  BY ReadingIs
<1>1. Removal(f, D)
  BY DEF Reading
<1> DEFINE L == Len(e)
           N == Len(r)
           Good(m) == f[L + t - m] = Beyond(Q, N + t - m)
           S == {m \in 0..t : Good(m)}
<1>2. Good(0)
  <2>1. f[Len(D)] = <<>>
    BY <1>1 DEF Removal
  <2>2. Beyond(Q, Len(Q)) = <<>>
    <3>1. Q \in Seq(Octet)
      BY <1>0
    <3> QED BY ONLY <3>1, RestEnd
  <2>3. L + t - 0 = Len(D) /\ N + t - 0 = Len(Q)
    BY <1>0
  <2> QED BY <2>1, <2>2, <2>3
<1>3. ASSUME NEW m \in 1..t, Good(m - 1) PROVE Good(m)
  <2> DEFINE i == L + t - m
             k == N + t - m
  <2>1. /\ i \in 0..Len(D) - 1 /\ i + 1 = L + t - (m - 1) /\ i + 1 \in L + 1..L + t
        /\ k \in Nat /\ k + 1 = N + t - (m - 1) /\ k + 1 \in N + 1..N + t /\ k + 1 <= Len(Q)
        /\ Len(D) = L + t
    <3>1. L \in Nat /\ N \in Nat /\ t \in Nat /\ m \in 1..t /\ Len(D) = L + t /\ Len(Q) = N + t
      BY <1>0
    <3> HIDE DEF L, N
    <3> QED BY <3>1
  <2>2. D[i + 1] = 0 /\ Q[k + 1] = 0
    <3> HIDE DEF i, k
    <3> QED BY <1>0, <2>1
  <2>3. ~Prevents(D, i)
    <3>1. i + 2 < Len(D) => i + 2 + 1 \in L + 1..L + t
      BY <1>0, <2>1
    <3>2. i + 2 < Len(D) => D[i + 2 + 1] = 0
      <4> HIDE DEF i, k
      <4> QED BY <1>0, <3>1
    <3> HIDE DEF i, k
    <3> QED BY <3>2 DEF Prevents, At0
  <2> HIDE DEF i, k
  <2>4. f[i] = <<0>> \o f[i + 1]
    BY <1>1, <2>1, <2>2, <2>3 DEF Removal
  <2> DEFINE a == <<0>>
  <2>5. a \in Seq(Octet) /\ Len(a) = 1 /\ a[1] = 0
    BY ZeroByte
  <2> HIDE DEF a
  <2>6. Has(Q, Octet, k, a)
    <3>1. \A j \in 1..Len(a) : Q[k + j] = a[j]
      BY <2>2, <2>5
    <3>2. k + Len(a) <= Len(Q)
      BY <2>1, <2>5
    <3> QED BY <1>0, <2>1, <2>5, <3>1, <3>2 DEF Has
  <2>7. a \o Beyond(Q, k + Len(a)) = Beyond(Q, k)
    BY <2>6, RestPut
  <2>8. f[i + 1] = Beyond(Q, k + 1)
    BY <1>3, <2>1
  <2> QED BY <2>4, <2>5, <2>7, <2>8 DEF a, i, k
<1>4. Good(t)
  <2>0. t \in Nat
    BY <1>0
  <2>1. \A m \in 1..t : m - 1 \in S => m \in S
    <3> HIDE DEF Good
    <3> QED BY <1>3, <2>0
  <2>2. 0 \in S
    <3> HIDE DEF Good
    <3> QED BY <1>2, <2>0
  <2> HIDE DEF S
  <2>3. \A m \in 0..t : m \in S
    BY ONLY <2>0, <2>1, <2>2, EveryLength
  <2> HIDE DEF Good
  <2> QED BY <2>0, <2>3 DEF S
<1>5. L + t - t = L /\ N + t - t = N
  BY <1>0
<1> QED BY <1>4, <1>5

Has1(Q, k, x) == Q \in Seq(Octet) /\ k \in Nat /\ k + 1 <= Len(Q) /\ Q[k + 1] = x /\ x \in Octet

(* One element in front of what is left behind it.                         *)
LEMMA RestPut1 ==
    ASSUME NEW Q, NEW k, NEW x, Has1(Q, k, x)
    PROVE  <<x>> \o Beyond(Q, k + 1) = Beyond(Q, k)
<1>0. Q \in Seq(Octet) /\ k \in Nat /\ k + 1 <= Len(Q) /\ Q[k + 1] = x /\ x \in Octet
  BY DEF Has1
<1> DEFINE a == <<x>>
<1>1. a \in Seq(Octet) /\ Len(a) = 1 /\ a[1] = x
  BY <1>0
<1> HIDE DEF a
<1>2. Has(Q, Octet, k, a)
  <2>1. \A j \in 1..Len(a) : Q[k + j] = a[j]
    BY <1>0, <1>1
  <2> QED BY <1>0, <1>1, <2>1 DEF Has
<1>3. a \o Beyond(Q, k + Len(a)) = Beyond(Q, k)
  BY <1>2, RestPut
<1> QED BY <1>1, <1>3 DEF a

(* Two zeros in front of what is left behind them.                         *)
LEMMA RestPut2 ==
    ASSUME NEW Q, NEW k, Has1(Q, k, 0), Has1(Q, k + 1, 0)
    PROVE  <<0, 0>> \o Beyond(Q, k + 2) = Beyond(Q, k)
<1>0. /\ Q \in Seq(Octet) /\ k \in Nat /\ Q[k + 1] = 0 /\ 0 \in Octet
      /\ k + 1 + 1 <= Len(Q) /\ Q[k + 1 + 1] = 0 /\ k + 1 + 1 = k + 2
  BY DEF Has1
<1> DEFINE a == <<0, 0>>
<1>1. a \in Seq(Octet) /\ Len(a) = 2 /\ a[1] = 0 /\ a[2] = 0
  BY <1>0
<1> HIDE DEF a
<1>2. Has(Q, Octet, k, a)
  <2>1. \A j \in 1..Len(a) : Q[k + j] = a[j]
    <3> TAKE j \in 1..Len(a)
    <3>1. j = 1 \/ j = 2
      BY <1>1
    <3> QED BY <1>0, <1>1, <3>1
  <2>2. k + Len(a) <= Len(Q)
    BY <1>0, <1>1
  <2> QED BY <1>0, <1>1, <2>1, <2>2 DEF Has
<1>3. a \o Beyond(Q, k + Len(a)) = Beyond(Q, k)
  BY <1>2, RestPut
<1> QED BY <1>1, <1>3 DEF a

\* What is left of the unit, once k bytes of the RBSP are read.
Left(f, B, Q, k) == f[B[k]] = Beyond(Q, k)

(* Byte k of the RBSP, and where it is in the unit.                        *)
LEMMA SpreadAt ==
    ASSUME NEW e, NEW r, NEW B, NEW t, NEW D, NEW Q, NEW f, Reading(e, r, B, t, D, Q, f),
           NEW k \in 1..Len(r)
    PROVE  /\ k - 1 \in Nat /\ r[k] \in Octet /\ Has1(Q, k - 1, r[k])
           /\ B[k - 1] \in 0..Len(D) - 1 /\ B[k - 1] < Len(e) /\ D[B[k - 1] + 1] = r[k]
                /\ B[k] \in Nat
           /\ B[k - 1] \in Nat /\ B[k] <= Len(e)
           /\ Stuffed(r, k) => B[k] = B[k - 1] + 2 /\ D[B[k - 1] + 2] = 3
           /\ ~Stuffed(r, k) => B[k] = B[k - 1] + 1
<1>0. /\ r \in Seq(Octet) /\ Len(e) \in Nat /\ Len(r) \in Nat /\ t \in Nat /\ Len(D) = Len(e) + t
      /\ \A j \in 1..Len(e) : D[j] = e[j]
      /\ Q \in Seq(Octet) /\ Len(Q) = Len(r) + t
      /\ \A j \in 1..Len(r) : Q[j] = r[j]
  BY ReadingIs
<1>1. Spread(e, r, B)
  BY DEF Reading
<1>2. k - 1 \in Nat /\ k - 1 \in 0..Len(r) /\ k \in 0..Len(r) /\ k - 1 + 1 = k /\ k <= Len(Q)
  BY <1>0
<1>3. r[k] \in Octet
  <2>1. r \in Seq(Octet) /\ k \in 1..Len(r)
    BY <1>0
  <2> QED BY ONLY <2>1
<1>4. Has1(Q, k - 1, r[k])
  BY <1>0, <1>2, <1>3 DEF Has1
<1>5. B[k - 1] \in Nat /\ B[k] \in Nat
  BY <1>1, <1>2 DEF Spread
<1>6. /\ B[k - 1] < Len(e) /\ e[B[k - 1] + 1] = r[k]
      /\ Stuffed(r, k) => B[k] = B[k - 1] + 2 /\ e[B[k - 1] + 2] = 3
      /\ ~Stuffed(r, k) => B[k] = B[k - 1] + 1
  BY <1>1 DEF Spread
<1> DEFINE b == B[k - 1]
           c == B[k]
<1> HIDE DEF b, c
<1>7. B[k] <= Len(e)
  <2>1. CASE k = Len(r)
    <3>1. B[k] = Len(e)
      BY <1>1, <2>1 DEF Spread
    <3> QED BY <1>0, <3>1
  <2>2. CASE k # Len(r)
    <3>1. k + 1 \in 1..Len(r) /\ k + 1 - 1 = k
      BY <1>0, <2>2
    <3>2. B[k + 1 - 1] < Len(e)
      BY <1>1, <3>1 DEF Spread
    <3>3. c < Len(e) /\ c \in Nat
      BY <1>5, <3>1, <3>2 DEF c
    <3>4. c <= Len(e)
      BY <1>0, <3>3
    <3> QED BY <3>4 DEF c
  <2> QED BY <2>1, <2>2
<1>8. b \in Nat /\ b < Len(e) /\ c <= Len(e) /\ (Stuffed(r, k) => c = b + 2) /\ c \in Nat
  BY <1>5, <1>6, <1>7 DEF b, c
<1>9. b \in 0..Len(D) - 1 /\ b + 1 \in 1..Len(e) /\ (Stuffed(r, k) => b + 2 \in 1..Len(e))
  BY <1>0, <1>8
<1>10. D[b + 1] = e[b + 1] /\ (Stuffed(r, k) => D[b + 2] = e[b + 2])
  BY <1>0, <1>9
<1> QED BY <1>2, <1>3, <1>4, <1>5, <1>6, <1>7, <1>9, <1>10 DEF b, c

(* One byte that is not 0, or one and the byte behind it: the loop gives    *)
(* them and is behind them.                                                *)
LEMMA ReadStep ==
    ASSUME NEW e, NEW r, NEW B, NEW t, NEW D, NEW Q, NEW f, Reading(e, r, B, t, D, Q, f),
           NEW k \in 1..Len(r), Zeros(r, k) % 2 = 0,
           r[k] # 0 => Left(f, B, Q, k),
           r[k] = 0 => Left(f, B, Q, k + 1)
    PROVE  Left(f, B, Q, k - 1)
<1>0. Removal(f, D) /\ r \in Seq(Octet) /\ Zeros(r, Len(r) + 1) % 2 = 0 /\ k \in Nat
  <2>1. r \in Seq(Octet)
    BY ReadingIs
  <2> QED BY <2>1 DEF Reading
<1>1. /\ k - 1 \in Nat /\ Has1(Q, k - 1, r[k])
      /\ B[k - 1] \in 0..Len(D) - 1 /\ D[B[k - 1] + 1] = r[k] /\ B[k - 1] \in Nat
      /\ ~Stuffed(r, k) => B[k] = B[k - 1] + 1
  BY SpreadAt
<1> DEFINE b == B[k - 1]
<1> HIDE DEF b
<1>2. CASE r[k] # 0
  <2>1. ~Stuffed(r, k)
    BY <1>0, <1>2, NotStuffed
  <2>2. ~Prevents(D, b)
    BY <1>1, <1>2 DEF Prevents, At0, b
  <2>3. f[b] = <<r[k]>> \o f[b + 1]
    <3>1. f[b] = <<D[b + 1]>> \o f[b + 1]
      BY <1>0, <1>1, <2>2 DEF Removal, b
    <3> QED BY <1>1, <3>1 DEF b
  <2>4. f[b + 1] = Beyond(Q, k)
    BY <1>1, <1>2, <2>1 DEF Left, b
  <2>5. <<r[k]>> \o Beyond(Q, k - 1 + 1) = Beyond(Q, k - 1)
    BY <1>1, RestPut1
  <2>6. k - 1 + 1 = k
    BY <1>0
  <2> QED BY <2>3, <2>4, <2>5, <2>6 DEF Left, b
<1>3. CASE r[k] = 0
  <2>1. /\ k + 1 \in 1..Len(r) /\ ~Stuffed(r, k)
        /\ Stuffed(r, k + 1) <=> r[k + 1] = 0 /\ (k + 1 = Len(r) \/ r[k + 2] <= 3)
    BY <1>0, <1>3, PairStuffed
  <2> DEFINE j == k + 1
  <2>2. j \in 1..Len(r) /\ j - 1 = k /\ k = k - 1 + 1
    BY <1>0, <2>1
  <2> HIDE DEF j
  <2>3. /\ Has1(Q, j - 1, r[j]) /\ r[j] \in Octet
        /\ D[B[j - 1] + 1] = r[j] /\ B[j - 1] \in 0..Len(D) - 1 /\ B[j] \in Nat /\ B[j] <= Len(e)
        /\ Stuffed(r, j) => B[j] = B[j - 1] + 2 /\ D[B[j - 1] + 2] = 3
        /\ ~Stuffed(r, j) => B[j] = B[j - 1] + 1
    BY <2>2, SpreadAt
  <2>4. B[j - 1] = b + 1 /\ b \in Nat
    BY <1>1, <2>1, <2>2 DEF b
  <2>5. b + 1 + 1 = b + 2 /\ b + 1 + 2 = b + 3
    BY <2>4
  <2>6. D[b + 2] = r[j] /\ (Stuffed(r, j) => B[j] = b + 3 /\ D[b + 3] = 3) /\ (~Stuffed(r, j)
            => B[j] = b + 2)
    BY <2>3, <2>4, <2>5
  <2>7. Has1(Q, k - 1, 0) /\ Has1(Q, k - 1 + 1, r[j]) /\ k - 1 + 2 = j /\ k - 1 + 1 + 1 = j
    <3>1. k - 1 + 2 = k + 1 /\ k - 1 + 1 + 1 = k + 1
      BY <1>0
    <3> QED BY <1>1, <1>3, <2>2, <2>3, <3>1 DEF j
  <2>8. f[B[j]] = Beyond(Q, j)
    BY <1>3 DEF Left, j
  <2>9. CASE Stuffed(r, j)
    <3>1. r[j] = 0
      BY <2>1, <2>9 DEF j
    <3>2. Prevents(D, b)
      <4>1. b + 2 < Len(D)
        <5>1. Len(e) <= Len(D) /\ Len(D) \in Nat /\ Len(e) \in Nat
          <6>1. Len(D) = Len(e) + t /\ Len(e) \in Nat /\ t \in Nat
            BY ReadingIs
          <6> QED BY <6>1
        <5>2. b + 3 <= Len(e)
          BY <2>3, <2>6, <2>9
        <5> DEFINE M == Len(D)
                   L == Len(e)
        <5> HIDE DEF M, L
        <5>3. L <= M /\ M \in Nat /\ L \in Nat /\ b + 3 <= L
          BY <5>1, <5>2 DEF M, L
        <5>4. b + 2 < M
          BY <2>4, <5>3
        <5> QED BY <5>4 DEF M
      <4>2. b + 1 + 1 = b + 2 /\ b + 2 + 1 = b + 3
        BY <2>4
      <4> QED BY <1>1, <1>3, <2>6, <2>9, <3>1, <4>1, <4>2 DEF Prevents, At0, b
    <3>3. f[b] = <<0, 0>> \o f[b + 3]
      BY <1>0, <1>1, <3>2 DEF Removal, b
    <3>4. <<0, 0>> \o Beyond(Q, k - 1 + 2) = Beyond(Q, k - 1)
      BY <2>7, <3>1, RestPut2
    <3> QED BY <2>6, <2>7, <2>8, <2>9, <3>3, <3>4 DEF Left, b
  <2>10. CASE ~Stuffed(r, j)
    <3>1. r[j] # 0 \/ D[b + 3] \notin {0, 3}
      <4>1. CASE r[j] = 0
        <5>1. j # Len(r) /\ ~(r[j + 1] <= 3)
          <6>1. k + 2 = j + 1
            BY <1>0 DEF j
          <6> QED BY <2>1, <2>10, <4>1, <6>1 DEF j
        <5> DEFINE i == j + 1
        <5>2. i \in 1..Len(r) /\ i - 1 = j
          BY <2>2, <5>1
        <5> HIDE DEF i
        <5>3. D[B[i - 1] + 1] = r[i]
          BY <5>2, SpreadAt
        <5>4. D[b + 3] = r[i]
          <6>1. b + 2 + 1 = b + 3
            BY <2>4
          <6> QED BY <2>6, <2>10, <5>2, <5>3, <6>1
        <5> QED BY <5>1, <5>4 DEF i
      <4> QED BY <4>1
    <3>2. b + 1 + 1 = b + 2 /\ b + 2 + 1 = b + 3 /\ b + 1 + 1 + 1 = b + 3
      BY <2>4
    <3>3. ~Prevents(D, b) /\ ~Prevents(D, b + 1)
      BY <2>6, <3>1, <3>2 DEF Prevents, At0
    <3>4. f[b] = <<D[b + 1]>> \o f[b + 1]
      BY <1>0, <1>1, <3>3 DEF Removal, b
    <3>5. f[b + 1] = <<D[b + 1 + 1]>> \o f[b + 1 + 1]
      BY <1>0, <2>3, <2>4, <3>3 DEF Removal
    <3>6. D[b + 1] = 0 /\ D[b + 1 + 1] = r[j]
      BY <1>1, <1>3, <2>6, <3>2 DEF b
    <3>7. f[b + 1] = <<r[j]>> \o Beyond(Q, j)
      BY <2>6, <2>8, <2>10, <3>2, <3>5, <3>6
    <3>8. <<r[j]>> \o Beyond(Q, k - 1 + 1 + 1) = Beyond(Q, k - 1 + 1)
      BY <2>7, RestPut1
    <3>9. <<0>> \o Beyond(Q, k - 1 + 1) = Beyond(Q, k - 1)
      BY <2>7, RestPut1
    <3> QED BY <2>7, <3>4, <3>6, <3>7, <3>8, <3>9 DEF Left, b
  <2> QED BY <2>9, <2>10
<1> QED BY <1>2, <1>3

(* All is left before anything is read.                                    *)
LEMMA RestAll ==
    ASSUME NEW T, NEW q \in Seq(T)
    PROVE  Beyond(q, 0) = q
<1> DEFINE R == Beyond(q, 0)
<1>0. Len(q) \in Nat
  OBVIOUS
<1>1. R \in Seq(T) /\ Len(R) = Len(q) /\ \A j \in 1..Len(q) : R[j] = q[j]
  <2>1. 0 \in 0..Len(q) /\ Len(q) - 0 = Len(q)
    BY <1>0
  <2>2. R \in Seq(T) /\ Len(R) = Len(q) - 0 /\ \A j \in 1..Len(q) - 0 : R[j] = q[0 + j]
    BY <2>1, RestIs
  <2> HIDE DEF R
  <2> QED BY <1>0, <2>1, <2>2
<1> HIDE DEF R
<1>2. R = q
  BY <1>1, SeqEqual
<1> QED BY <1>2 DEF R

(* Backwards from the end of the unit: a byte that is not 0 alone, zeros   *)
(* in pairs, as remove_emulation_prevention takes them.                    *)
LEMMA ReadAll ==
    ASSUME NEW e, NEW r, NEW B, NEW t, NEW D, NEW Q, NEW f, Reading(e, r, B, t, D, Q, f)
    PROVE  f[0] = Q
<1>0. r \in Seq(Octet) /\ Len(r) \in Nat /\ Q \in Seq(Octet)
  BY ReadingIs
<1>1. Spread(e, r, B) /\ Zeros(r, Len(r) + 1) % 2 = 0
  BY DEF Reading
<1> DEFINE N == Len(r)
           Good(k) == Zeros(r, k + 1) % 2 = 0 => Left(f, B, Q, k)
           S == {m \in 0..N : Good(N - m) /\ (m > 0 => Good(N - m + 1))}
<1>2. Good(N)
  <2>1. B[N] = Len(e)
    BY <1>1 DEF Spread
  <2> QED BY <2>1, ReadZeros DEF Left
<1>3. ASSUME NEW k \in 1..N, Good(k), k < N => Good(k + 1)
      PROVE  Good(k - 1)
  <2> SUFFICES ASSUME Zeros(r, k) % 2 = 0 PROVE Left(f, B, Q, k - 1)
    <3>1. k - 1 + 1 = k
      BY <1>0
    <3> QED BY <3>1
  <2>1. r[k] # 0 => Left(f, B, Q, k)
    <3> SUFFICES ASSUME r[k] # 0 PROVE Left(f, B, Q, k)
      OBVIOUS
    <3>1. Zeros(r, k + 1) = 0
      BY <1>0, NotStuffed
    <3> QED BY <1>3, <3>1
  <2>2. r[k] = 0 => Left(f, B, Q, k + 1)
    <3> SUFFICES ASSUME r[k] = 0 PROVE Left(f, B, Q, k + 1)
      OBVIOUS
    <3>1. k + 1 \in 1..N /\ Zeros(r, k + 2) % 2 = 0
      BY <1>0, <1>1, PairStuffed
    <3>2. k < N /\ k + 1 + 1 = k + 2
      BY <1>0, <3>1
    <3> QED BY <1>3, <3>1, <3>2
  <2> QED BY <2>1, <2>2, ReadStep
<1>4. Good(0)
  <2>1. 0 \in S
    <3>1. N - 0 = N /\ ~(0 > 0) /\ 0 \in 0..N
      BY <1>0
    <3> HIDE DEF Good
    <3> QED BY <1>2, <3>1
  <2>2. ASSUME NEW m \in 1..N, m - 1 \in S PROVE m \in S
    <3> DEFINE k == N - (m - 1)
    <3> HIDE DEF Good
    <3>1. k \in 1..N /\ k - 1 = N - m /\ N - m + 1 = k /\ m \in 0..N
      BY <1>0
    <3>2. Good(k) /\ (m - 1 > 0 => Good(k + 1))
      BY <2>2
    <3>3. k < N => m - 1 > 0
      BY <1>0
    <3> HIDE DEF k
    <3>4. Good(k - 1)
      BY <1>3, <3>1, <3>2, <3>3
    <3> QED BY <3>1, <3>2, <3>4
  <2> HIDE DEF S, Good
  <2>3. \A m \in 1..N : m - 1 \in S => m \in S
    BY <2>2
  <2>4. \A m \in 0..N : m \in S
    BY ONLY <1>0, <2>1, <2>3, EveryLength
  <2>5. N \in S /\ N - N = 0
    BY <1>0, <2>4
  <2> QED BY <2>5 DEF S
<1>5. Zeros(r, 0 + 1) % 2 = 0
  <2>1. Zeros(r, 1) = 0
    BY ZerosCount
  <2> QED BY <2>1
<1>6. f[B[0]] = Beyond(Q, 0)
  BY <1>4, <1>5 DEF Left
<1>7. B[0] = 0
  BY <1>1 DEF Spread
<1>8. Beyond(Q, 0) = Q
  BY <1>0, RestAll
<1> QED BY <1>6, <1>7, <1>8

(* remove_emulation_prevention undoes emulation prevention and leaves the  *)
(* zeros behind the unit.                                                  *)
LEMMA Unescaped ==
    ASSUME NEW r \in Seq(Octet), Zeros(r, Len(r) + 1) % 2 = 0, NEW t \in Nat
    PROVE  RemoveEmulationPrevention(Padded(Writer!Escaped(r), t)) = Padded(r, t)
<1> DEFINE e == Writer!Escaped(r)
           D == Padded(e, t)
           Q == Padded(r, t)
<1>1. PICK B : Spread(e, r, B)
  BY EscapedSpread
<1>2. Len(D) \in Nat
  <2>1. e \in Seq(Octet)
    BY <1>1 DEF Spread
  <2> HIDE DEF e
  <2>2. D \in Seq(Octet)
    BY <2>1, PaddedIs
  <2> HIDE DEF D
  <2> QED BY ONLY <2>2
<1>3. PICK f : Removal(f, D) /\ RemoveEmulationPrevention(D) = f[0]
  <2> HIDE DEF D
  <2> QED BY <1>2, RemovalExists
<1>4. Reading(e, r, B, t, D, Q, f)
  <2> HIDE DEF e
  <2> QED BY <1>1, <1>3 DEF Reading
<1> HIDE DEF e, D, Q
<1>5. f[0] = Q
  BY <1>4, ReadAll
<1> QED BY <1>3, <1>5 DEF e, D, Q

-----------------------------------------------------------------------------
\* No start code, and none with the zeros and the start code behind it.
Clean(u) ==
    /\ u \in Seq(Octet) /\ Len(u) > 0 /\ u[1] \in 1..127 /\ u[Len(u)] # 0
    /\ \A i \in 1..Len(u) - 2 : ~(u[i] = 0 /\ u[i + 1] = 0 /\ u[i + 2] <= 2)

(* Each byte is one of the RBSP or a 3.                                    *)
LEMMA SpreadPlaces ==
    ASSUME NEW e, NEW r, NEW B, Spread(e, r, B), NEW x \in 1..Len(e)
    PROVE  e[x] = 3 \/ \E k \in 1..Len(r) : x = B[k - 1] + 1
<1>0. /\ e \in Seq(Octet) /\ r \in Seq(Octet)
      /\ \A k \in 0..Len(r) : B[k] \in Nat
      /\ B[0] = 0 /\ B[Len(r)] = Len(e)
      /\ \A k \in 1..Len(r) :
           /\ Stuffed(r, k) => B[k] = B[k - 1] + 2 /\ e[B[k - 1] + 2] = 3
           /\ ~Stuffed(r, k) => B[k] = B[k - 1] + 1
  BY DEF Spread
<1> DEFINE N == Len(r)
           Known(y) == e[y] = 3 \/ \E k \in 1..N : y = B[k - 1] + 1
           S == {m \in 0..N : \A y \in 1..B[m] : Known(y)}
<1>1. N \in Nat
  <2>1. r \in Seq(Octet)
    BY <1>0
  <2> QED BY ONLY <2>1
<1>2. 0 \in S
  BY <1>0, <1>1
<1>3. ASSUME NEW m \in 1..N, m - 1 \in S PROVE m \in S
  <2>1. m \in 0..N /\ m - 1 \in 0..N
    BY <1>1
  <2> DEFINE b == B[m - 1]
             c == B[m]
  <2>2. /\ b \in Nat /\ c \in Nat
        /\ Stuffed(r, m) => c = b + 2 /\ e[b + 2] = 3
        /\ ~Stuffed(r, m) => c = b + 1
    BY <1>0, <2>1
  <2>3. \A y \in 1..b : Known(y)
    BY <1>3
  <2>4. Known(b + 1)
    OBVIOUS
  <2> HIDE DEF b, c, Known
  <2>5. ASSUME NEW y \in 1..c PROVE Known(y)
    <3>1. y \in 1..b \/ y = b + 1 \/ (Stuffed(r, m) /\ y = b + 2)
      BY <2>2
    <3>2. Stuffed(r, m) => Known(b + 2)
      BY <2>2 DEF Known
    <3> QED BY <2>3, <2>4, <3>1, <3>2
  <2> QED BY <2>1, <2>5 DEF c
<1>4. N \in S
  <2> HIDE DEF S
  <2>1. \A m \in 1..N : m - 1 \in S => m \in S
    BY <1>3
  <2>2. \A m \in 0..N : m \in S
    BY ONLY <1>1, <1>2, <2>1, EveryLength
  <2> QED BY <1>1, <2>2
<1>5. Known(x)
  <2> HIDE DEF Known
  <2> QED BY <1>0, <1>4
<1> QED BY <1>5

-----------------------------------------------------------------------------
(* NAL units.                                                              *)

(* Emulation prevention leaves no start code in an RBSP, and no zero at    *)
(* its end.                                                                *)
LEMMA EscapedClean ==
    ASSUME NEW e, NEW r, NEW B, Spread(e, r, B)
    PROVE  /\ \A x \in 1..Len(e) - 2 : ~(e[x] = 0 /\ e[x + 1] = 0 /\ e[x + 2] <= 2)
           /\ Len(e) > 0 => e[Len(e)] # 0
<1>0. /\ e \in Seq(Octet) /\ r \in Seq(Octet)
      /\ \A k \in 0..Len(r) : B[k] \in Nat
      /\ B[0] = 0 /\ B[Len(r)] = Len(e)
      /\ \A k \in 1..Len(r) :
           /\ e[B[k - 1] + 1] = r[k]
           /\ Stuffed(r, k) => B[k] = B[k - 1] + 2 /\ e[B[k - 1] + 2] = 3
           /\ ~Stuffed(r, k) => B[k] = B[k - 1] + 1
  BY DEF Spread
<1> DEFINE N == Len(r)
           L == Len(e)
<1>1. N \in Nat /\ L \in Nat
  <2>1. r \in Seq(Octet) /\ e \in Seq(Octet)
    BY <1>0
  <2> QED BY ONLY <2>1
<1> HIDE DEF L
<1>2. ASSUME NEW k \in 1..N, r[k] = 0, e[B[k - 1] + 2] # 3
      PROVE  ~Stuffed(r, k) /\ k < N /\ B[k] = B[k - 1] + 1
  <2>1. ~Stuffed(r, k) /\ B[k] = B[k - 1] + 1
    BY <1>0, <1>2
  <2>2. k < N
    <3>1. CASE k = N
      BY <1>2, <2>1, <3>1 DEF Stuffed
    <3> QED BY <1>1, <3>1
  <2> QED BY <2>1, <2>2
<1>3. ASSUME NEW x \in 1..L - 2, e[x] = 0, e[x + 1] = 0, e[x + 2] <= 2 PROVE FALSE
  <2>1. x \in 1..Len(e)
    BY <1>1 DEF L
  <2>2. PICK k \in 1..N : x = B[k - 1] + 1
    <3>1. e[x] # 3
      BY <1>3
    <3> QED BY <2>1, <3>1, SpreadPlaces
  <2>3. B[k - 1] \in Nat /\ k \in Nat /\ k \in 1..N
    BY <1>0, <1>1
  <2>4. r[k] = 0 /\ B[k - 1] + 2 = x + 1
    <3>1. e[B[k - 1] + 1] = r[k]
      BY <1>0
    <3>2. B[k - 1] + 2 = B[k - 1] + 1 + 1
      BY <2>3
    <3> QED BY <1>3, <2>2, <3>1, <3>2
  <2>5. ~Stuffed(r, k) /\ k < N /\ B[k] = x
    <3>1. e[B[k - 1] + 2] # 3
      BY <1>3, <2>4
    <3> QED BY <1>2, <2>2, <2>4, <3>1
  <2> DEFINE j == k + 1
  <2>6. j \in 1..N /\ j - 1 = k
    BY <1>1, <2>3, <2>5
  <2> HIDE DEF j
  <2>7. r[j] = 0 /\ e[B[j - 1] + 2] # 3
    <3>1. e[B[j - 1] + 1] = r[j]
      BY <1>0, <2>6
    <3>2. e[x + 2] # 3
      <4> DEFINE y == e[x + 2]
      <4>1. y <= 2
        BY <1>3
      <4> HIDE DEF y
      <4>2. y # 3
        BY <4>1
      <4> QED BY <4>2 DEF y
    <3> QED BY <1>3, <2>5, <2>6, <3>1, <3>2
  <2>8. ~Stuffed(r, j) /\ j < N /\ B[j] = x + 1
    BY <1>2, <2>5, <2>6, <2>7
  <2>9. j + 1 \in 1..N /\ j + 1 - 1 = j /\ j \in Nat
    BY <1>1, <2>6, <2>8
  <2>10. r[j + 1] <= 2
    <3> DEFINE i == j + 1
    <3>1. i \in 1..N /\ i - 1 = j
      BY <2>9
    <3> HIDE DEF i
    <3>2. e[B[i - 1] + 1] = r[i]
      BY <1>0, <3>1
    <3>3. x + 1 + 1 = x + 2
      BY <1>1
    <3>4. e[x + 2] = r[i]
      BY <2>8, <3>1, <3>2, <3>3
    <3> QED BY <1>3, <3>4 DEF i
  <2> DEFINE z == Zeros(r, k)
             y == Zeros(r, j)
             w == Zeros(r, j + 1)
  <2>11. z \in Nat /\ y = z + 1 /\ w = y + 1
    <3>1. k \in Nat \ {0} /\ j \in Nat \ {0}
      BY <2>3, <2>9, <2>6
    <3>2. z \in 0..k - 1 /\ Zeros(r, k + 1) = z + 1
      BY <2>4, <3>1, ZerosCount
    <3>3. w = y + 1
      BY <2>7, <3>1, ZerosCount
    <3> QED BY <2>3, <3>2, <3>3 DEF j
  <2>12. ~(y >= 2 /\ y % 2 = 0)
    <3>1. ~Writer!Escape(r, k + 1)
      BY <2>5 DEF Stuffed
    <3>2. r[k + 1] <= 3
      BY <2>7 DEF j
    <3> QED BY <3>1, <3>2 DEF Writer!Escape, Zeros, j
  <2>13. ~(w >= 2 /\ w % 2 = 0)
    <3>1. ~Writer!Escape(r, j + 1)
      BY <2>8 DEF Stuffed
    <3> DEFINE v == r[j + 1]
    <3>2. v \in Nat /\ v <= 2
      <4>1. v \in Octet
        <5>1. r \in Seq(Octet) /\ j + 1 \in 1..Len(r)
          BY <1>0, <2>9
        <5> QED BY ONLY <5>1
      <4> HIDE DEF v
      <4>2. v \in Nat
        BY <4>1 DEF Octet
      <4> QED BY <2>10, <4>2 DEF v
    <3> HIDE DEF v
    <3>3. v <= 3
      BY <3>2
    <3> QED BY <3>1, <3>3 DEF Writer!Escape, Zeros, v
  <2> HIDE DEF z, y, w
  <2> QED BY <2>11, <2>12, <2>13
<1>4. ASSUME L > 0 PROVE e[L] # 0
  <2>1. N # 0
    BY <1>0, <1>1, <1>4 DEF L
  <2>2. N \in 1..N /\ N - 1 \in 0..N
    BY <1>1, <2>1
  <2>3. B[N] = L /\ B[N - 1] \in Nat
    BY <1>0, <2>2 DEF L
  <2>4. CASE Stuffed(r, N)
    <3>1. B[N] = B[N - 1] + 2 /\ e[B[N - 1] + 2] = 3
      BY <1>0, <2>2, <2>4
    <3> QED BY <2>3, <3>1
  <2>5. CASE ~Stuffed(r, N)
    <3>1. B[N] = B[N - 1] + 1 /\ e[B[N - 1] + 1] = r[N]
      BY <1>0, <2>2, <2>5
    <3>2. r[N] # 0
      BY <2>5 DEF Stuffed
    <3> QED BY <2>3, <3>1, <3>2
  <2> QED BY <2>4, <2>5
<1> QED BY <1>3, <1>4 DEF L

\* A unit that was read, with t zeros behind its RBSP.
AsRead(n, t) == [ref |-> n.ref, type |-> n.type, rbsp |-> Padded(n.rbsp, t)]

(* A unit is its header and the escaped RBSP.                              *)
LEMMA NalIs ==
    ASSUME NEW n, LegalUnit(n)
    PROVE  /\ Writer!nal_unit(n) \in Seq(Octet)
           /\ Len(Writer!nal_unit(n)) = Len(Writer!Escaped(n.rbsp)) + 1
           /\ Writer!Escaped(n.rbsp) \in Seq(Octet)
           /\ Writer!nal_unit(n)[1] = (32 * n.ref) + n.type
           /\ \A x \in 1..Len(Writer!Escaped(n.rbsp)) :
                Writer!nal_unit(n)[x + 1] = Writer!Escaped(n.rbsp)[x]
<1> DEFINE e == Writer!Escaped(n.rbsp)
           h == (32 * n.ref) + n.type
           a == <<h>>
<1>1. n.rbsp \in Seq(Octet)
  BY DEF LegalUnit, Octet
<1>2. e \in Seq(Octet)
  <2>1. \E B : Spread(e, n.rbsp, B)
    BY <1>1, EscapedSpread
  <2> HIDE DEF e
  <2> QED BY <2>1 DEF Spread
<1>3. Writer!nal_unit(n) = a \o e
  BY DEF Writer!nal_unit
<1>4. h \in Octet
  <2>1. n.ref \in 0..3 /\ n.type \in 1..31
    BY DEF LegalUnit
  <2> DEFINE x == n.ref
             y == n.type
  <2>2. x \in 0..3 /\ y \in 1..31
    BY <2>1
  <2> HIDE DEF x, y
  <2>3. (32 * x) + y \in 0..255
    BY ONLY <2>2
  <2> QED BY <2>3 DEF x, y, Octet
<1> HIDE DEF e, h
<1>5. a \in Seq(Octet) /\ Len(a) = 1 /\ a[1] = h
  BY <1>4
<1> HIDE DEF a
<1>6. a \in Seq(Octet) /\ e \in Seq(Octet)
  BY <1>2, <1>5
<1>7. a \o e \in Seq(Octet) /\ Len(a \o e) = Len(a) + Len(e)
          /\ \A j \in 1..Len(a) : (a \o e)[j] = a[j]
  BY ONLY <1>6
<1>8. \A j \in 1..Len(e) : (a \o e)[Len(a) + j] = e[j]
  BY ONLY <1>6
<1>9. \A j \in 1..Len(e) : (a \o e)[j + 1] = e[j]
  <2> TAKE j \in 1..Len(e)
  <2>0. Len(e) \in Nat
    BY ONLY <1>6
  <2>1. Len(a) + j = j + 1
    BY <1>5, <2>0
  <2> QED BY <1>8, <2>1
<1>10. Len(a \o e) = Len(e) + 1
  <2>0. Len(e) \in Nat
    BY ONLY <1>6
  <2> QED BY <1>5, <1>7, <2>0
<1> QED BY <1>3, <1>5, <1>6, <1>7, <1>9, <1>10 DEF e, h

(* parse_nal_bytes finds nal_ref_idc and nal_unit_type in the first byte.  *)
LEMMA NalHeader ==
    ASSUME NEW n, LegalUnit(n)
    PROVE  /\ (32 * n.ref) + n.type \in 1..127
           /\ ((32 * n.ref) + n.type) \div 32 = n.ref
           /\ ((32 * n.ref) + n.type) % 32 = n.type
<1>1. n.ref \in 0..3 /\ n.type \in 1..31
  BY DEF LegalUnit
<1> DEFINE x == n.ref
           y == n.type
<1>2. x \in 0..3 /\ y \in 1..31
  BY <1>1
<1> HIDE DEF x, y
<1>3. (32 * x) + y \in 1..127
  BY ONLY <1>2
<1>4. ((32 * x) + y) \div 32 = x /\ ((32 * x) + y) % 32 = y
  BY ONLY <1>2
<1> QED BY <1>3, <1>4 DEF x, y

(* A unit holds no start code and does not end in a zero.                  *)
LEMMA NalClean ==
    ASSUME NEW n, LegalUnit(n)
    PROVE  Clean(Writer!nal_unit(n))
<1> DEFINE e == Writer!Escaped(n.rbsp)
           u == Writer!nal_unit(n)
<1>1. /\ u \in Seq(Octet) /\ Len(u) = Len(e) + 1 /\ e \in Seq(Octet)
      /\ u[1] = (32 * n.ref) + n.type
      /\ \A x \in 1..Len(e) : u[x + 1] = e[x]
  BY NalIs
<1>2. u[1] \in 1..127
  BY <1>1, NalHeader
<1>3. /\ \A x \in 1..Len(e) - 2 : ~(e[x] = 0 /\ e[x + 1] = 0 /\ e[x + 2] <= 2)
      /\ Len(e) > 0 => e[Len(e)] # 0
  <2>1. n.rbsp \in Seq(Octet)
    BY DEF LegalUnit, Octet
  <2>2. \E B : Spread(e, n.rbsp, B)
    BY <2>1, EscapedSpread
  <2> HIDE DEF e
  <2> QED BY <2>2, EscapedClean
<1> HIDE DEF e, u
<1>4. Len(e) \in Nat
  <2>1. e \in Seq(Octet)
    BY <1>1
  <2> QED BY ONLY <2>1
<1>8. u[1] # 0
  <2> DEFINE x == u[1]
  <2>1. x \in 1..127
    BY <1>2
  <2> HIDE DEF x
  <2>2. x # 0
    BY ONLY <2>1
  <2> QED BY <2>2 DEF x
<1>5. u[Len(u)] # 0
  <2>1. CASE Len(e) = 0
    <3>1. Len(u) = 1
      BY <1>1, <2>1
    <3> QED BY <1>8, <3>1
  <2>2. CASE Len(e) # 0
    <3>1. Len(e) \in 1..Len(e) /\ Len(e) > 0
      BY <1>4, <2>2
    <3> QED BY <1>1, <1>3, <3>1
  <2> QED BY <2>1, <2>2
<1>6. ASSUME NEW i \in 1..Len(u) - 2 PROVE ~(u[i] = 0 /\ u[i + 1] = 0 /\ u[i + 2] <= 2)
  <2>1. CASE i = 1
    BY <1>8, <2>1
  <2>2. CASE i # 1
    <3> DEFINE x == i - 1
    <3>1. /\ x \in 1..Len(e) - 2 /\ x + 1 = i /\ x + 1 + 1 = i + 1 /\ x + 2 + 1 = i + 2
          /\ x \in 1..Len(e) /\ x + 1 \in 1..Len(e) /\ x + 2 \in 1..Len(e)
      BY <1>1, <1>4, <2>2
    <3> HIDE DEF x
    <3>2. u[i] = e[x] /\ u[i + 1] = e[x + 1] /\ u[i + 2] = e[x + 2]
      BY <1>1, <3>1
    <3> QED BY <1>3, <3>1, <3>2
  <2> QED BY <2>1, <2>2
<1>7. Len(u) > 0
  BY <1>1, <1>4
<1> QED BY <1>1, <1>2, <1>5, <1>6, <1>7 DEF Clean, u

(* parse_nal_bytes gives back the unit.                                    *)
LEMMA NalParsed ==
    ASSUME NEW n, LegalUnit(n), NEW t \in Nat
    PROVE  ParseNalBytes(Padded(Writer!nal_unit(n), t)) = <<AsRead(n, t)>>
<1> DEFINE e == Writer!Escaped(n.rbsp)
           u == Writer!nal_unit(n)
           h == (32 * n.ref) + n.type
           P == Padded(u, t)
           E == Padded(e, t)
<1>1. /\ u \in Seq(Octet) /\ Len(u) = Len(e) + 1 /\ e \in Seq(Octet) /\ u[1] = h
      /\ \A x \in 1..Len(e) : u[x + 1] = e[x]
  BY NalIs
<1>2. h \in 1..127 /\ h \div 32 = n.ref /\ h % 32 = n.type
  BY NalHeader
<1>3. RemoveEmulationPrevention(E) = Padded(n.rbsp, t)
  <2>1. n.rbsp \in Seq(Octet) /\ Zeros(n.rbsp, Len(n.rbsp) + 1) % 2 = 0
    BY DEF LegalUnit, Octet, Zeros
  <2> DEFINE r == n.rbsp
  <2>2. r \in Seq(Octet) /\ Zeros(r, Len(r) + 1) % 2 = 0
    BY <2>1
  <2> HIDE DEF r
  <2>3. RemoveEmulationPrevention(Padded(Writer!Escaped(r), t)) = Padded(r, t)
    BY <2>2, Unescaped
  <2> QED BY <2>3 DEF r
<1> HIDE DEF e, u, h
<1>4. Len(e) \in Nat
  <2>1. e \in Seq(Octet)
    BY <1>1
  <2> QED BY ONLY <2>1
<1>5. /\ P \in Seq(Octet) /\ Len(P) = Len(u) + t
      /\ \A j \in 1..Len(u) : P[j] = u[j]
      /\ \A j \in Len(u) + 1..Len(u) + t : P[j] = 0
  BY <1>1, PaddedIs
<1>6. /\ E \in Seq(Octet) /\ Len(E) = Len(e) + t
      /\ \A j \in 1..Len(e) : E[j] = e[j]
      /\ \A j \in Len(e) + 1..Len(e) + t : E[j] = 0
  BY <1>1, PaddedIs
<1> HIDE DEF P, E
<1>7. P[1] = h /\ P # <<>> /\ ~(h >= 128)
  <2>1. 1 \in 1..Len(u) /\ Len(P) # 0
    BY <1>1, <1>4, <1>5
  <2>2. P # <<>>
    BY <2>1
  <2> QED BY <1>1, <1>2, <1>5, <2>1, <2>2
<1>8. Tail(P) = E
  <2>1. P \in Seq(Octet) /\ P # <<>>
    BY <1>5, <1>7
  <2>2. Tail(P) \in Seq(Octet) /\ Len(Tail(P)) = Len(P) - 1
            /\ \A j \in 1..Len(Tail(P)) : Tail(P)[j] = P[j + 1]
    BY ONLY <2>1
  <2>3. Len(Tail(P)) = Len(E)
    BY <1>1, <1>4, <1>5, <1>6, <2>2
  <2>4. ASSUME NEW j \in 1..Len(E) PROVE P[j + 1] = E[j]
    <3>1. CASE j <= Len(e)
      <4>1. j \in 1..Len(e) /\ j + 1 \in 1..Len(u)
        BY <1>1, <1>4, <1>6, <3>1
      <4> QED BY <1>1, <1>5, <1>6, <4>1
    <3>2. CASE ~(j <= Len(e))
      <4>1. j \in Len(e) + 1..Len(e) + t /\ j + 1 \in Len(u) + 1..Len(u) + t
        BY <1>1, <1>4, <1>6, <3>2
      <4> QED BY <1>5, <1>6, <4>1
    <3> QED BY <3>1, <3>2
  <2> DEFINE s == Tail(P)
  <2> HIDE DEF s
  <2>5. s \in Seq(Octet) /\ Len(s) = Len(E) /\ \A j \in 1..Len(s) : s[j] = E[j]
    BY <2>2, <2>3, <2>4 DEF s
  <2>6. s = E
    BY <1>6, <2>5, SeqEqual
  <2> QED BY <2>6 DEF s
<1>9. ParseNalBytes(P) = <<[ref |-> h \div 32, type |-> h % 32,
          rbsp |-> RemoveEmulationPrevention(Tail(P))]>>
  BY <1>7 DEF ParseNalBytes
<1> QED BY <1>2, <1>3, <1>8, <1>9 DEF AsRead, P, E, u, e

-----------------------------------------------------------------------------
(* Start codes.                                                            *)

\* Between the offsets i and z no start code begins; then come zeros and a 1.
CodeAhead(D, i, z, p) ==
    /\ Len(D) \in Nat /\ i \in Nat /\ z \in Nat /\ p \in Nat
    /\ i <= z /\ z + 3 <= p /\ p <= Len(D)
    /\ \A x \in i..z - 1 : ~StartCodeAt(D, x)
    /\ D[p] = 1 /\ \A j \in z + 1..p - 1 : D[j] = 0

(* find_start_code finds the place behind the next start code, and of the  *)
(* zeros before it at least the three or two that belong to it.            *)
LEMMA StartCodeFound ==
    ASSUME NEW D, NEW i, NEW z, NEW p, CodeAhead(D, i, z, p)
    PROVE  /\ FindStartCode(D, i).after = p
           /\ FindStartCode(D, i).start \in z..p - 3
           /\ FindStartCode(D, i) # NoStartCode
<1>0. /\ Len(D) \in Nat /\ i \in Nat /\ z \in Nat /\ p \in Nat
      /\ i <= z /\ z + 3 <= p /\ p <= Len(D)
      /\ \A x \in i..z - 1 : ~StartCodeAt(D, x)
      /\ D[p] = 1 /\ \A j \in z + 1..p - 1 : D[j] = 0
  BY DEF CodeAhead
<1> DEFINE found == {x \in i..Len(D) - 3 : StartCodeAt(D, x)}
<1>1. p - 3 \in found
  <2>1. p - 3 \in i..Len(D) - 3 /\ p - 3 + 1 = p - 2 /\ p - 3 + 1 + 1 = p - 1 /\ p - 3 + 2 + 1 = p
    BY <1>0
  <2>2. p - 2 \in z + 1..p - 1 /\ p - 1 \in z + 1..p - 1
    BY <1>0
  <2>3. D[p - 2] = 0 /\ D[p - 1] = 0
    BY <1>0, <2>2
  <2>4. StartCodeAt(D, p - 3)
    BY <1>0, <2>1, <2>3 DEF StartCodeAt, At0
  <2> QED BY <2>1, <2>4
<1>2. found \in SUBSET Nat
  BY <1>0
<1>3. PICK s \in found : \A x \in found : s <= x
  <2> HIDE DEF found
  <2> QED BY <1>1, <1>2, LeastExists
<1>4. Min(found) = s
  <2>1. found \in SUBSET Int
    BY <1>2
  <2> HIDE DEF found
  <2> QED BY <1>3, <2>1, MinIs
<1>5. s \in i..Len(D) - 3 /\ StartCodeAt(D, s) /\ s <= p - 3
  BY <1>1, <1>3
<1>6. s \in z..p - 3
  <2>1. s \notin i..z - 1
    BY <1>0, <1>5
  <2> QED BY <1>0, <1>5, <2>1
<1>7. FindStartCode(D, i) = [start |-> s, after |-> IF D[s + 3] = 1 THEN s + 3 ELSE s + 4]
  <2>1. found # {} /\ s + 2 + 1 = s + 3
    BY <1>1, <1>6, <1>0
  <2> HIDE DEF found
  <2>2. FindStartCode(D, i) = [start |-> Min(found), after |-> IF At0(D,
            Min(found) + 2) = 1 THEN Min(found) + 3 ELSE Min(found) + 4]
    BY <2>1, Zenon DEF FindStartCode, found
  <2> QED BY <1>4, <2>1, <2>2 DEF At0
<1>8. (IF D[s + 3] = 1 THEN s + 3 ELSE s + 4) = p
  <2>1. CASE s = p - 3
    <3>1. s + 3 = p
      BY <1>0, <2>1
    <3> QED BY <1>0, <3>1
  <2>2. CASE s # p - 3
    <3>1. s + 3 \in z + 1..p - 1 /\ s + 2 + 1 = s + 3 /\ s + 3 + 1 = s + 4
      BY <1>0, <1>6, <2>2
    <3>2. D[s + 3] = 0
      BY <1>0, <3>1
    <3>3. D[s + 4] = 1
      BY <1>5, <3>1, <3>2 DEF StartCodeAt, At0
    <3>4. s + 4 \notin z + 1..p - 1
      BY <1>0, <3>3
    <3>5. s + 4 = p
      BY <1>0, <1>6, <3>1, <3>4
    <3> QED BY <3>2, <3>5
  <2> QED BY <2>1, <2>2
<1>9. FindStartCode(D, i).after = p /\ FindStartCode(D, i).start = s
  BY <1>7, <1>8
<1>10. NoStartCode.start = -1
  BY DEF NoStartCode
<1>11. s # -1
  BY <1>0, <1>6
<1> QED BY <1>6, <1>9, <1>10, <1>11

(* Wherever it looks, the scan goes forward.                               *)
LEMMA ScanForward ==
    ASSUME NEW D, Len(D) \in Nat, NEW i \in 0..Len(D)
    PROVE  /\ FindStartCode(D, i).after \in -1..Len(D)
           /\ FindStartCode(D, i).after > i \/ FindStartCode(D, i).after = -1
<1> DEFINE found == {x \in i..Len(D) - 3 : StartCodeAt(D, x)}
<1>1. CASE found = {}
  <2>1. FindStartCode(D, i) = NoStartCode
    <3> HIDE DEF found
    <3> QED BY <1>1, Zenon DEF FindStartCode, found
  <2>2. FindStartCode(D, i).after = -1
    BY <2>1 DEF NoStartCode
  <2> QED BY <2>2
<1>2. CASE found # {}
  <2>1. found \in SUBSET Nat
    OBVIOUS
  <2>2. PICK s \in found : \A x \in found : s <= x
    <3> HIDE DEF found
    <3> QED BY <1>2, <2>1, LeastExists
  <2>3. Min(found) = s
    <3>1. found \in SUBSET Int
      BY <2>1
    <3> HIDE DEF found
    <3> QED BY <2>2, <3>1, MinIs
  <2>4. s \in i..Len(D) - 3 /\ StartCodeAt(D, s)
    OBVIOUS
  <2>5. FindStartCode(D, i) = [start |-> s, after |-> IF At0(D, s + 2) = 1 THEN s + 3 ELSE s + 4]
    <3> HIDE DEF found
    <3>1. FindStartCode(D, i) = [start |-> Min(found), after |-> IF At0(D,
              Min(found) + 2) = 1 THEN Min(found) + 3 ELSE Min(found) + 4]
      BY <1>2, Zenon DEF FindStartCode, found
    <3> QED BY <2>3, <3>1
  <2>6. At0(D, s + 2) = 1 \/ s + 3 < Len(D)
    BY <2>4 DEF StartCodeAt
  <2>7. FindStartCode(D, i).after = s + 3 \/ (FindStartCode(D, i).after = s + 4 /\ s + 3 < Len(D))
    BY <2>5, <2>6
  <2> QED BY <2>4, <2>7
<1> QED BY <1>1, <1>2

(* No start code begins within a unit.                                     *)
LEMMA NoneWithin ==
    ASSUME NEW D, NEW u, Clean(u), NEW b \in Nat, \A j \in 1..Len(u) : D[b + j] = u[j],
           NEW x \in b..b + Len(u) - 1
    PROVE  ~StartCodeAt(D, x)
<1>0. /\ u \in Seq(Octet) /\ u[Len(u)] # 0
      /\ \A i \in 1..Len(u) - 2 : ~(u[i] = 0 /\ u[i + 1] = 0 /\ u[i + 2] <= 2)
  BY DEF Clean
<1>1. Len(u) \in Nat
  BY ONLY <1>0
<1> DEFINE L == Len(u)
           i == x - b + 1
<1>2. i \in 1..L /\ x + 1 = b + i /\ x + 1 + 1 = b + (i + 1) /\ x + 2 + 1 = b + (i + 2)
  BY <1>1
<1> HIDE DEF i, L
<1>3. D[x + 1] = u[i]
  BY <1>2 DEF L
<1>4. CASE i = L
  BY <1>0, <1>3, <1>4 DEF StartCodeAt, At0, L
<1>5. CASE i # L
  <2>1. i + 1 \in 1..L
    BY <1>1, <1>2, <1>5 DEF L
  <2>2. D[x + 1 + 1] = u[i + 1]
    BY <1>2, <2>1 DEF L
  <2>3. CASE i + 1 = L
    BY <1>0, <2>2, <2>3 DEF StartCodeAt, At0, L
  <2>4. CASE i + 1 # L
    <3>1. i + 2 \in 1..L /\ i \in 1..L - 2
      BY <1>1, <1>2, <2>1, <2>4 DEF L
    <3>2. D[x + 2 + 1] = u[i + 2]
      BY <1>2, <3>1 DEF L
    <3>3. ~(u[i] = 0 /\ u[i + 1] = 0 /\ u[i + 2] <= 2)
      BY <1>0, <3>1 DEF L
    <3>4. u[i] = 0 /\ u[i + 1] = 0 => u[i + 2] # 0 /\ u[i + 2] # 1
      BY <3>3
    <3> QED BY <1>3, <2>2, <3>2, <3>4 DEF StartCodeAt, At0
  <2> QED BY <2>3, <2>4
<1> QED BY <1>4, <1>5

(* The zeros in front of the next start code are not part of the unit.     *)
LEMMA StrippedIs ==
    ASSUME NEW D, NEW i \in Nat, NEW e \in Nat, NEW s \in Nat, i < e, e <= s, D[e] # 0,
           \A j \in e + 1..s : D[j] = 0
    PROVE  Stripped(D, i, s) = e
<1> DEFINE M == {i} \cup {x \in i + 1..s : At0(D, x - 1) # 0}
<1>1. \A x \in i + 1..s : At0(D, x - 1) = D[x]
  <2> TAKE x \in i + 1..s
  <2>1. x - 1 + 1 = x
    OBVIOUS
  <2> QED BY <2>1 DEF At0
<1>2. e \in M
  BY <1>1
<1>3. M \in SUBSET Int
  OBVIOUS
<1>4. \A x \in M : x <= e
  <2> TAKE x \in M
  <2>1. x = i \/ (x \in i + 1..s /\ D[x] # 0)
    BY <1>1
  <2>2. x \in i + 1..s /\ D[x] # 0 => x \notin e + 1..s
    OBVIOUS
  <2> QED BY <2>1, <2>2
<1> HIDE DEF M
<1>5. Max(M) = e
  BY <1>2, <1>3, <1>4, MaxIs
<1> QED BY <1>5 DEF Stripped, M

-----------------------------------------------------------------------------
(* Annex B streams, read.                                                  *)

\* D holds the units n[1], ..., n[m]: the k-th from b[k] to e[k], start codes
\* and zeros between them.
Laid(D, n, b, e, m) ==
    /\ D \in Seq(Octet) /\ m \in Nat /\ b[0] = 0 /\ e[0] = 0
    /\ \A k \in 0..m : b[k] \in Nat /\ e[k] \in Nat /\ e[k] <= Len(D)
    /\ \A k \in 1..m :
         /\ LegalUnit(n[k])
         /\ e[k - 1] + 3 <= b[k] /\ D[b[k]] = 1
         /\ \A j \in e[k - 1] + 1..b[k] - 1 : D[j] = 0
         /\ e[k] = b[k] + Len(Writer!nal_unit(n[k]))
         /\ \A j \in 1..Len(Writer!nal_unit(n[k])) : D[b[k] + j] = Writer!nal_unit(n[k])[j]
    /\ \A j \in e[m] + 1..Len(D) : D[j] = 0

(* The slice at a unit is the unit and the zeros behind it.                *)
LEMMA SlicePadded ==
    ASSUME NEW D \in Seq(Octet), NEW u \in Seq(Octet), NEW b \in Nat, NEW t \in Nat,
           b + Len(u) + t <= Len(D),
           \A j \in 1..Len(u) : D[b + j] = u[j],
           \A j \in b + Len(u) + 1..b + Len(u) + t : D[j] = 0
    PROVE  Slice0(D, b, b + Len(u) + t) = Padded(u, t)
<1> DEFINE L == Len(u)
           c == b + L + t
           s == SubSeq(D, b + 1, c)
           P == Padded(u, t)
<1>0. L \in Nat /\ Len(D) \in Nat
  OBVIOUS
<1>1. c \in Nat /\ c <= Len(D) /\ b + 1 \in Nat /\ c - b = L + t
  BY <1>0
<1>2. s \in Seq(Octet) /\ Len(s) = L + t /\ \A j \in 1..L + t : s[j] = D[b + j]
  <2> HIDE DEF c
  <2>1. D \in Seq(Octet) /\ c \in Nat /\ c <= Len(D) /\ b \in Nat /\ b + 1 <= c + 1
    BY <1>0, <1>1 DEF c
  <2>2. s \in Seq(Octet)
    BY ONLY <2>1
  <2>3. Len(s) = c - b
    BY ONLY <2>1
  <2>4. \A j \in 1..c - b : s[j] = D[b + j]
    BY ONLY <2>1
  <2> QED BY <1>1, <2>2, <2>3, <2>4
<1> HIDE DEF s
<1>3. /\ P \in Seq(Octet) /\ Len(P) = L + t
      /\ \A j \in 1..L : P[j] = u[j]
      /\ \A j \in L + 1..L + t : P[j] = 0
  BY PaddedIs
<1> HIDE DEF P
<1>4. ASSUME NEW j \in 1..L + t PROVE s[j] = P[j]
  <2>1. CASE j <= L
    <3>1. j \in 1..L
      BY <1>0, <2>1
    <3>2. P[j] = u[j] /\ D[b + j] = u[j]
      BY <1>3, <3>1
    <3> QED BY <1>2, <3>2
  <2>2. CASE ~(j <= L)
    <3>1. j \in L + 1..L + t /\ b + j \in b + L + 1..b + L + t
      BY <1>0, <2>2
    <3>2. P[j] = 0 /\ D[b + j] = 0
      <4> DEFINE x == b + j
      <4> HIDE DEF x
      <4>1. x \in b + L + 1..b + L + t
        BY <3>1 DEF x
      <4>2. D[x] = 0
        BY <4>1
      <4> QED BY <1>3, <3>1, <4>2 DEF x
    <3> QED BY <1>2, <3>2
  <2> QED BY <2>1, <2>2
<1>5. s = P
  <2>1. s \in Seq(Octet) /\ P \in Seq(Octet) /\ Len(s) = Len(P) /\ \A j \in 1..Len(s) : s[j] = P[j]
    BY <1>2, <1>3, <1>4
  <2> QED BY ONLY <2>1, SeqEqual
<1> QED BY <1>5 DEF Slice0, s, P

\* The loop of parse_annex_b.
UnitAt(D, i) ==
    ParseNalBytes(Slice0(D, i, IF FindStartCode(D, i) = NoStartCode THEN Len(D)
                               ELSE Stripped(D, i, FindStartCode(D, i).start)))

Cutting(c, D) ==
    /\ c[-1] = <<>>
    /\ \A i \in 0..Len(D) - 1 : c[i] = UnitAt(D, i) \o c[FindStartCode(D, i).after]

(* The loop of parse_annex_b reaches the end of the stream.                *)
LEMMA CuttingExists ==
    ASSUME NEW D, Len(D) \in Nat
    PROVE  \E c : Cutting(c, D) /\ ParseAnnexB(D) = c[FindStartCode(D, 0).after]
<1> DEFINE n == Len(D)
           Fix(g) == g = [i \in -1..n |-> IF i = -1 \/ i = n THEN <<>>
                                          ELSE UnitAt(D, i) \o g[FindStartCode(D, i).after]]
           base == [i \in 0..n |-> UnitAt(D, i)]
           next == [i \in 0..n |-> FindStartCode(D, i).after]
<1>1. Forward(-1, n, {-1, n}, next)
  <2>1. ASSUME NEW i \in 0..n PROVE next[i] \in -1..n /\ (next[i] > i \/ next[i] \in {-1, n})
    <3>1. next[i] = FindStartCode(D, i).after
      OBVIOUS
    <3> HIDE DEF next
    <3> QED BY <3>1, ScanForward
  <2> HIDE DEF next
  <2>2. {-1, n} \in SUBSET (-1..n) /\ n \in Nat
    OBVIOUS
  <2> QED BY <2>1, <2>2 DEF Forward
<1>2. PICK f : Jumps(f, -1, n, {-1, n}, base, next)
  <2> HIDE DEF base, next, n
  <2> QED BY <1>1, JumpsExist
<1>3. f = [i \in -1..n |-> IF i \in {-1, n} THEN <<>> ELSE base[i] \o f[next[i]]]
  BY <1>2 DEF Jumps
<1>4. Fix(f)
  <2>1. ASSUME NEW i \in -1..n
        PROVE  (IF i \in {-1, n} THEN <<>> ELSE base[i] \o f[next[i]])
                 = (IF i = -1 \/ i = n THEN <<>> ELSE UnitAt(D, i) \o f[FindStartCode(D, i).after])
    <3>1. i \notin {-1, n} => i \in 0..n
      OBVIOUS
    <3>2. i \notin {-1, n} => base[i] = UnitAt(D, i) /\ next[i] = FindStartCode(D, i).after
      BY <3>1
    <3> HIDE DEF base, next
    <3> QED BY <3>2
  <2> HIDE DEF n, base, next
  <2> QED BY <1>3, <2>1
<1> DEFINE c == CHOOSE g : Fix(g)
<1>5. Fix(c)
  <2>1. \E g : Fix(g)
    <3> HIDE DEF Fix
    <3> QED BY <1>4
  <2> HIDE DEF Fix
  <2> QED BY <2>1
<1>6. ParseAnnexB(D) = c[FindStartCode(D, 0).after]
  BY Zenon DEF ParseAnnexB, UnitAt
<1> HIDE DEF c
<1>7. c[-1] = <<>>
  BY <1>5
<1>8. ASSUME NEW i \in 0..n - 1
      PROVE  c[i] = UnitAt(D, i) \o c[FindStartCode(D, i).after]
  <2>1. i \in -1..n /\ i # n /\ i # -1
    OBVIOUS
  <2> QED BY <1>5, <2>1
<1>9. Cutting(c, D)
  BY <1>7, <1>8 DEF Cutting
<1> QED BY <1>6, <1>9

(* Between the beginning of a unit and its end no start code begins.       *)
LEMMA LaidAt ==
    ASSUME NEW D, NEW n, NEW b, NEW e, NEW m, Laid(D, n, b, e, m), NEW k \in 0..m
    PROVE  /\ Len(D) \in Nat /\ b[k] \in Nat /\ e[k] \in Nat /\ b[k] <= e[k] /\ e[k] <= Len(D)
           /\ \A x \in b[k]..e[k] - 1 : ~StartCodeAt(D, x)
<1>0. /\ D \in Seq(Octet) /\ m \in Nat /\ b[0] = 0 /\ e[0] = 0
      /\ \A i \in 0..m : b[i] \in Nat /\ e[i] \in Nat /\ e[i] <= Len(D)
      /\ \A i \in 1..m :
           /\ LegalUnit(n[i])
           /\ e[i] = b[i] + Len(Writer!nal_unit(n[i]))
           /\ \A j \in 1..Len(Writer!nal_unit(n[i])) : D[b[i] + j] = Writer!nal_unit(n[i])[j]
  BY DEF Laid
<1>1. Len(D) \in Nat
  <2>1. D \in Seq(Octet)
    BY <1>0
  <2> QED BY ONLY <2>1
<1>2. CASE k = 0
  <2>1. b[k] = 0 /\ e[k] = 0 /\ b[k]..e[k] - 1 = {}
    BY <1>0, <1>2
  <2> QED BY <1>1, <2>1
<1>3. CASE k # 0
  <2> DEFINE u == Writer!nal_unit(n[k])
             c == b[k]
  <2>1. k \in 1..m /\ k \in 0..m
    BY <1>0, <1>3
  <2>2. Clean(u)
    <3>1. LegalUnit(n[k])
      BY <1>0, <2>1
    <3> QED BY <3>1, NalClean
  <2>3. e[k] = c + Len(u) /\ c \in Nat /\ e[k] <= Len(D) /\ \A j \in 1..Len(u) : D[c + j] = u[j]
    BY <1>0, <2>1
  <2>4. Len(u) \in Nat
    <3>1. u \in Seq(Octet)
      BY <2>2 DEF Clean
    <3> HIDE DEF u
    <3> QED BY ONLY <3>1
  <2> HIDE DEF u, c
  <2>5. \A x \in c..c + Len(u) - 1 : ~StartCodeAt(D, x)
    BY <2>2, <2>3, NoneWithin
  <2>6. c <= e[k] /\ e[k] \in Nat /\ e[k] - 1 = c + Len(u) - 1
    BY <2>3, <2>4
  <2> QED BY <1>1, <2>3, <2>5, <2>6 DEF c
<1> QED BY <1>2, <1>3

(* From one unit the scan goes to the next.                                *)
LEMMA LaidNext ==
    ASSUME NEW D, NEW n, NEW b, NEW e, NEW m, Laid(D, n, b, e, m), NEW k \in 0..m, k < m
    PROVE  /\ FindStartCode(D, b[k]).after = b[k + 1]
           /\ FindStartCode(D, b[k]) # NoStartCode
           /\ FindStartCode(D, b[k]).start \in Nat /\ e[k] <= FindStartCode(D, b[k]).start
           /\ \A j \in e[k] + 1..FindStartCode(D, b[k]).start : D[j] = 0
<1>1. /\ Len(D) \in Nat /\ b[k] \in Nat /\ e[k] \in Nat /\ b[k] <= e[k] /\ e[k] <= Len(D)
      /\ \A x \in b[k]..e[k] - 1 : ~StartCodeAt(D, x)
  BY LaidAt
<1> DEFINE j == k + 1
<1>2. j \in 1..m /\ j - 1 = k /\ j \in 0..m
  BY DEF Laid
<1> HIDE DEF j
<1>3. /\ e[k] + 3 <= b[j] /\ D[b[j]] = 1
      /\ \A i \in e[k] + 1..b[j] - 1 : D[i] = 0
  BY <1>2 DEF Laid
<1>4. b[j] \in Nat /\ b[j] <= Len(D)
  <2>1. b[j] \in Nat /\ b[j] <= e[j] /\ e[j] <= Len(D) /\ e[j] \in Nat
    BY <1>2, LaidAt
  <2> QED BY <1>1, <2>1
<1>5. CodeAhead(D, b[k], e[k], b[j])
  BY <1>1, <1>3, <1>4 DEF CodeAhead
<1>6. /\ FindStartCode(D, b[k]).after = b[j]
      /\ FindStartCode(D, b[k]).start \in e[k]..b[j] - 3
      /\ FindStartCode(D, b[k]) # NoStartCode
  BY <1>5, StartCodeFound
<1> DEFINE s == FindStartCode(D, b[k]).start
<1> HIDE DEF s
<1>7. s \in e[k]..b[j] - 3
  BY <1>6 DEF s
<1>8. s \in Nat /\ e[k] <= s
  BY <1>1, <1>4, <1>7
<1>9. \A i \in e[k] + 1..s : D[i] = 0
  <2> TAKE i \in e[k] + 1..s
  <2>1. i \in e[k] + 1..b[j] - 1
    BY <1>1, <1>4, <1>7, <1>8
  <2> QED BY <1>3, <2>1
<1> QED BY <1>6, <1>8, <1>9 DEF s, j

(* Behind the last unit there is no start code.                            *)
LEMMA LaidEnd ==
    ASSUME NEW D, NEW n, NEW b, NEW e, NEW m, Laid(D, n, b, e, m)
    PROVE  FindStartCode(D, b[m]) = NoStartCode
<1>0. m \in Nat /\ m \in 0..m /\ \A j \in e[m] + 1..Len(D) : D[j] = 0
  BY DEF Laid
<1>1. /\ Len(D) \in Nat /\ b[m] \in Nat /\ e[m] \in Nat /\ b[m] <= e[m] /\ e[m] <= Len(D)
      /\ \A x \in b[m]..e[m] - 1 : ~StartCodeAt(D, x)
  BY <1>0, LaidAt
<1> DEFINE found == {x \in b[m]..Len(D) - 3 : StartCodeAt(D, x)}
<1>2. ASSUME NEW x \in b[m]..Len(D) - 3, StartCodeAt(D, x) PROVE FALSE
  <2>1. x \notin b[m]..e[m] - 1
    BY <1>1, <1>2
  <2>2. x + 3 \in e[m] + 1..Len(D) /\ x + 2 + 1 = x + 3 /\ x + 3 + 1 = x + 4
    BY <1>1, <2>1
  <2>3. D[x + 3] = 0
    BY <1>0, <2>2
  <2>4. x + 3 < Len(D) => x + 4 \in e[m] + 1..Len(D)
    BY <1>1, <2>1
  <2>5. x + 3 < Len(D) => D[x + 4] = 0
    BY <1>0, <2>4
  <2> QED BY <1>2, <2>2, <2>3, <2>5 DEF StartCodeAt, At0
<1>3. found = {}
  BY <1>2
<1> HIDE DEF found
<1> QED BY <1>3, Zenon DEF FindStartCode, found

\* The units as they are read.
ReadUnits(D, n, e, m) == [k \in 1..m |-> AsRead(n[k], IF k = m THEN Len(D) - e[m] ELSE 0)]

(* parse_annex_b gives unit k; only zeros behind the last one stay.        *)
LEMMA LaidUnit ==
    ASSUME NEW D, NEW n, NEW b, NEW e, NEW m, Laid(D, n, b, e, m), NEW k \in 1..m
    PROVE  UnitAt(D, b[k]) = <<ReadUnits(D, n, e, m)[k]>>
<1>0. /\ D \in Seq(Octet) /\ m \in Nat /\ LegalUnit(n[k])
      /\ e[k] = b[k] + Len(Writer!nal_unit(n[k]))
      /\ \A j \in 1..Len(Writer!nal_unit(n[k])) : D[b[k] + j] = Writer!nal_unit(n[k])[j]
      /\ \A j \in e[m] + 1..Len(D) : D[j] = 0
  BY DEF Laid
<1>1. /\ Len(D) \in Nat /\ b[k] \in Nat /\ e[k] \in Nat /\ b[k] <= e[k] /\ e[k] <= Len(D)
  <2>1. k \in 0..m
    BY <1>0
  <2> QED BY <2>1, LaidAt
<1> DEFINE u == Writer!nal_unit(n[k])
           c == b[k]
           t == IF k = m THEN Len(D) - e[m] ELSE 0
           to == IF FindStartCode(D, c) = NoStartCode THEN Len(D)
                ELSE Stripped(D, c, FindStartCode(D, c).start)
<1>2. Clean(u)
  BY <1>0, NalClean
<1>3. u \in Seq(Octet) /\ Len(u) \in Nat /\ Len(u) > 0 /\ u[Len(u)] # 0
  <2>1. u \in Seq(Octet) /\ Len(u) > 0 /\ u[Len(u)] # 0
    BY <1>2 DEF Clean
  <2> HIDE DEF u
  <2>2. Len(u) \in Nat
    <3>1. u \in Seq(Octet)
      BY <2>1
    <3> QED BY ONLY <3>1
  <2> QED BY <2>1, <2>2
<1>4. \A j \in 1..Len(u) : D[c + j] = u[j]
  BY <1>0
<1> HIDE DEF u
<1>5. D[e[k]] # 0 /\ c < e[k]
  <2>1. Len(u) \in 1..Len(u) /\ e[k] = c + Len(u)
    BY <1>0, <1>3 DEF u
  <2>2. D[c + Len(u)] = u[Len(u)]
    BY <1>4, <2>1
  <2>3. c < c + Len(u)
    BY <1>1, <1>3
  <2> QED BY <1>3, <2>1, <2>2, <2>3
<1>6. t \in Nat /\ to = c + Len(u) + t /\ to <= Len(D)
          /\ \A j \in c + Len(u) + 1..c + Len(u) + t : D[j] = 0
  <2>0. e[k] = c + Len(u)
    BY <1>0 DEF u
  <2>1. CASE k = m
    <3>1. FindStartCode(D, c) = NoStartCode
      BY <2>1, LaidEnd
    <3>2. to = Len(D) /\ t = Len(D) - e[k]
      BY <2>1, <3>1
    <3> HIDE DEF t, to
    <3>3. c + Len(u) + t = Len(D)
      BY <1>1, <1>3, <2>0, <3>2
    <3>5. Len(D) <= Len(D)
      BY <1>1
    <3>6. t \in Nat
      <4> DEFINE M == Len(D)
                 x == e[k]
      <4>1. M \in Nat /\ x \in Nat /\ x <= M /\ t = M - x
        BY <1>1, <3>2
      <4> HIDE DEF M, x
      <4> QED BY ONLY <4>1
    <3>4. t \in Nat /\ to = c + Len(u) + t /\ to <= Len(D)
      BY <3>2, <3>3, <3>5, <3>6
    <3> QED BY <1>0, <2>0, <2>1, <3>3, <3>4
  <2>2. CASE k # m
    <3>1. k \in 0..m /\ k < m
      BY <1>0, <2>2
    <3> DEFINE s == FindStartCode(D, c).start
    <3>2. /\ FindStartCode(D, c) # NoStartCode /\ s \in Nat /\ e[k] <= s
          /\ \A j \in e[k] + 1..s : D[j] = 0
      BY <3>1, LaidNext
    <3> HIDE DEF s
    <3>3. Stripped(D, c, s) = e[k]
      BY <1>1, <1>5, <3>2, StrippedIs
    <3>4. to = e[k] /\ t = 0
      BY <2>2, <3>2, <3>3 DEF s
    <3> HIDE DEF to, t
    <3>5. c + Len(u) + t = e[k] /\ t \in Nat /\ c + Len(u) + 1..c + Len(u) + t = {}
      BY <1>1, <1>3, <2>0, <3>4
    <3> QED BY <1>1, <3>4, <3>5
  <2> QED BY <2>1, <2>2
<1> HIDE DEF t, to, c
<1>7. Slice0(D, c, c + Len(u) + t) = Padded(u, t)
  <2>1. c \in Nat
    BY <1>1 DEF c
  <2> QED BY <1>0, <1>3, <1>4, <1>6, <2>1, SlicePadded
<1>8. ParseNalBytes(Padded(u, t)) = <<AsRead(n[k], t)>>
  BY <1>0, <1>6, NalParsed DEF u
<1>9. UnitAt(D, c) = ParseNalBytes(Slice0(D, c, to))
  BY DEF UnitAt, to
<1>10. ReadUnits(D, n, e, m)[k] = AsRead(n[k], t)
  BY DEF ReadUnits, t
<1> QED BY <1>6, <1>7, <1>8, <1>9, <1>10 DEF c

(* parse_annex_b gives the units of the stream.                            *)
LEMMA AnnexBRead ==
    ASSUME NEW D, NEW n, NEW b, NEW e, NEW m, Laid(D, n, b, e, m)
    PROVE  ParseAnnexB(D) = ReadUnits(D, n, e, m)
<1>0. D \in Seq(Octet) /\ m \in Nat /\ b[0] = 0
  BY DEF Laid
<1>1. Len(D) \in Nat
  <2>1. D \in Seq(Octet)
    BY <1>0
  <2> QED BY ONLY <2>1
<1>2. PICK c : Cutting(c, D) /\ ParseAnnexB(D) = c[FindStartCode(D, 0).after]
  BY <1>1, CuttingExists
<1> DEFINE R == ReadUnits(D, n, e, m)
           T == {R[k] : k \in 1..m}
           FromUnit(k) == c[FindStartCode(D, b[k]).after]
           Good(i) == FromUnit(m - i) = Beyond(R, m - i)
           S == {i \in 0..m : Good(i)}
<1>3. R \in Seq(T) /\ Len(R) = m
  <2>1. R \in [1..m -> T]
    BY DEF ReadUnits
  <2> HIDE DEF R, T
  <2> QED BY ONLY <1>0, <2>1
<1>4. \A k \in 1..m : R[k] \in T
  OBVIOUS
<1> HIDE DEF R, T
<1>5. Good(0)
  <2>1. FindStartCode(D, b[m]).after = -1
    BY LaidEnd DEF NoStartCode
  <2>2. FromUnit(m) = <<>>
    BY <1>2, <2>1 DEF Cutting
  <2>3. Beyond(R, m) = <<>>
    BY <1>0, <1>3, RestEnd
  <2>4. m - 0 = m
    BY <1>0
  <2> QED BY <2>2, <2>3, <2>4
<1>6. ASSUME NEW k \in 1..m, FromUnit(k) = Beyond(R, k) PROVE FromUnit(k - 1) = Beyond(R, k - 1)
  <2> DEFINE i == k - 1
  <2>1. i \in 0..m /\ i < m /\ i + 1 = k /\ i \in Nat /\ k \in 0..m
    BY <1>0
  <2> HIDE DEF i
  <2>2. FindStartCode(D, b[i]).after = b[k]
    BY <2>1, LaidNext
  <2>3. b[k] \in 0..Len(D) - 1
    <3>1. b[k] \in Nat /\ e[k] \in Nat /\ e[k] <= Len(D)
      BY <2>1, LaidAt
    <3>2. LegalUnit(n[k]) /\ e[k] = b[k] + Len(Writer!nal_unit(n[k]))
      BY DEF Laid
    <3>3. Clean(Writer!nal_unit(n[k]))
      BY <3>2, NalClean
    <3> DEFINE u == Writer!nal_unit(n[k])
    <3>4. u \in Seq(Octet) /\ Len(u) > 0
      BY <3>3 DEF Clean
    <3> HIDE DEF u
    <3>5. Len(u) \in Nat
      <4>1. u \in Seq(Octet)
        BY <3>4
      <4> QED BY ONLY <4>1
    <3>6. e[k] = b[k] + Len(u)
      BY <3>2 DEF u
    <3> QED BY <1>1, <3>1, <3>4, <3>5, <3>6
  <2>4. c[b[k]] = UnitAt(D, b[k]) \o FromUnit(k)
    BY <1>2, <2>3 DEF Cutting
  <2>5. UnitAt(D, b[k]) = <<R[k]>>
    BY LaidUnit DEF R
  <2> DEFINE x == R[k]
             a == <<x>>
  <2>6. x \in T
    BY <1>4
  <2>7. a \in Seq(T) /\ Len(a) = 1 /\ a[1] = x
    <3> HIDE DEF x
    <3> QED BY ONLY <2>6
  <2> HIDE DEF a
  <2>8. Has(R, T, i, a)
    <3>1. \A j \in 1..Len(a) : R[i + j] = a[j]
      BY <2>1, <2>7
    <3>2. i + Len(a) <= Len(R)
      BY <1>0, <1>3, <2>1, <2>7
    <3> QED BY <1>3, <2>1, <2>7, <3>1, <3>2 DEF Has
  <2>9. a \o Beyond(R, i + Len(a)) = Beyond(R, i)
    BY <2>8, RestPut
  <2>10. i + Len(a) = k
    BY <2>1, <2>7
  <2>11. FromUnit(i) = a \o Beyond(R, k)
    BY <1>6, <2>2, <2>4, <2>5 DEF a
  <2> QED BY <2>9, <2>10, <2>11 DEF i
<1> HIDE DEF FromUnit
<1>7. ASSUME NEW i \in 1..m, i - 1 \in S PROVE i \in S
  <2> DEFINE k == m - (i - 1)
  <2>1. k \in 1..m /\ k - 1 = m - i /\ i \in 0..m
    BY <1>0
  <2>2. FromUnit(k) = Beyond(R, k)
    BY <1>7
  <2> HIDE DEF k
  <2>3. FromUnit(k - 1) = Beyond(R, k - 1)
    BY <1>6, <2>1, <2>2
  <2> QED BY <2>1, <2>3
<1>8. Good(m)
  <2>1. 0 \in S
    <3> HIDE DEF Good
    <3> QED BY <1>0, <1>5
  <2> HIDE DEF S
  <2>2. \A i \in 1..m : i - 1 \in S => i \in S
    BY <1>7
  <2>3. \A i \in 0..m : i \in S
    BY ONLY <1>0, <2>1, <2>2, EveryLength
  <2> HIDE DEF Good
  <2> QED BY <1>0, <2>3 DEF S
<1>9. FromUnit(0) = Beyond(R, 0)
  <2>1. m - m = 0
    BY <1>0
  <2> QED BY <1>8, <2>1
<1>10. Beyond(R, 0) = R
  BY <1>3, RestAll
<1> QED BY <1>0, <1>2, <1>9, <1>10 DEF FromUnit, R

-----------------------------------------------------------------------------
(* Annex B streams, written.                                               *)

(* No piece ends behind the end.                                           *)
LEMMA PieceEnds ==
    ASSUME NEW T, NEW p, NEW m, Lists(p, T, m), NEW s, NEW g, Pieces(s, p, g, m), NEW k \in 0..m
    PROVE  g[k] \in Nat /\ g[k] <= Len(s) /\ Len(s) \in Nat
<1>0. /\ m \in Nat /\ \A i \in 1..m : p[i] \in Seq(T)
      /\ (\A i \in 0..m : g[i] \in Nat) /\ g[m] = Len(s)
      /\ \A i \in 1..m : g[i] = g[i - 1] + Len(p[i])
  BY DEF Lists, Pieces
<1>1. Len(s) \in Nat
  BY <1>0
<1> DEFINE L == Len(s)
           S == {i \in 0..m : g[m - i] <= L}
<1>2. 0 \in S
  BY <1>0, <1>1
<1>3. ASSUME NEW i \in 1..m, i - 1 \in S PROVE i \in S
  <2> DEFINE x == m - (i - 1)
  <2>1. x \in 1..m /\ x - 1 = m - i /\ i \in 0..m /\ x \in 0..m /\ x - 1 \in 0..m
    BY <1>0
  <2>2. g[x] <= L
    BY <1>3
  <2> HIDE DEF x
  <2> DEFINE a == g[x]
             b == g[x - 1]
             c == Len(p[x])
  <2>3. a \in Nat /\ b \in Nat /\ a = b + c /\ a <= L
    BY <1>0, <2>1, <2>2
  <2>4. c \in Nat
    <3> DEFINE q == p[x]
    <3>1. q \in Seq(T)
      BY <1>0, <2>1
    <3> HIDE DEF q
    <3>2. Len(q) \in Nat
      BY ONLY <3>1
    <3> QED BY <3>2 DEF q
  <2> HIDE DEF a, b, c, L, S
  <2>5. b <= L
    <3>1. L \in Nat
      BY <1>1 DEF L
    <3> QED BY ONLY <2>3, <2>4, <3>1
  <2> QED BY <2>1, <2>5 DEF b, S
<1> HIDE DEF S
<1>4. \A i \in 1..m : i - 1 \in S => i \in S
  BY <1>3
<1>5. \A i \in 0..m : i \in S
  BY ONLY <1>0, <1>2, <1>4, EveryLength
<1>6. m - k \in S /\ m - (m - k) = k
  BY <1>0, <1>5
<1>7. g[k] <= L
  BY <1>6 DEF S
<1> QED BY <1>0, <1>1, <1>7 DEF L

(* Two sequences behind one another.                                       *)
LEMMA Concat ==
    ASSUME NEW T, NEW a \in Seq(T), NEW b \in Seq(T)
    PROVE  /\ a \o b \in Seq(T) /\ Len(a) \in Nat /\ Len(b) \in Nat /\ Len(a \o b) = Len(a) + Len(b)
           /\ \A j \in 1..Len(a) : (a \o b)[j] = a[j]
           /\ \A j \in 1..Len(b) : (a \o b)[Len(a) + j] = b[j]
  OBVIOUS

\* Three sequences behind one another.
Three(q, a, b, c) ==
    /\ q \in Seq(Octet)
    /\ Len(a) \in Nat /\ Len(b) \in Nat /\ Len(c) \in Nat /\ Len(q) = Len(a) + Len(b) + Len(c)
    /\ \A j \in 1..Len(a) : q[j] = a[j]
    /\ \A j \in 1..Len(b) : q[Len(a) + j] = b[j]
    /\ \A j \in 1..Len(c) : q[Len(a) + Len(b) + j] = c[j]

(* Three sequences behind one another.                                     *)
LEMMA ThreeIs ==
    ASSUME NEW a \in Seq(Octet), NEW b \in Seq(Octet), NEW c \in Seq(Octet)
    PROVE  Three(a \o b \o c, a, b, c)
<1> DEFINE d == a \o b
           q == d \o c
<1>1. /\ d \in Seq(Octet) /\ Len(a) \in Nat /\ Len(b) \in Nat /\ Len(d) = Len(a) + Len(b)
      /\ \A j \in 1..Len(a) : d[j] = a[j]
      /\ \A j \in 1..Len(b) : d[Len(a) + j] = b[j]
  BY Concat
<1> HIDE DEF d
<1>2. /\ q \in Seq(Octet) /\ Len(c) \in Nat /\ Len(q) = Len(d) + Len(c)
      /\ \A j \in 1..Len(d) : q[j] = d[j]
      /\ \A j \in 1..Len(c) : q[Len(d) + j] = c[j]
  <2>1. d \in Seq(Octet) /\ c \in Seq(Octet)
    BY <1>1
  <2> QED BY ONLY <2>1, Concat
<1> HIDE DEF q
<1>3. \A j \in 1..Len(a) : q[j] = a[j]
  <2> TAKE j \in 1..Len(a)
  <2>1. j \in 1..Len(d)
    BY <1>1
  <2> QED BY <1>1, <1>2, <2>1
<1>4. \A j \in 1..Len(b) : q[Len(a) + j] = b[j]
  <2> TAKE j \in 1..Len(b)
  <2> DEFINE x == Len(a) + j
  <2>1. x \in 1..Len(d)
    BY <1>1
  <2>2. d[x] = b[j]
    BY <1>1
  <2> HIDE DEF x
  <2>3. q[x] = d[x]
    BY <1>2, <2>1
  <2> QED BY <2>2, <2>3 DEF x
<1> QED BY <1>1, <1>2, <1>3, <1>4 DEF Three, q, d

IsZeros(s) == s \in Seq(Octet) /\ Len(s) \in Nat /\ \A j \in 1..Len(s) : s[j] = 0
IsStart(c) ==
    /\ c \in Seq(Octet) /\ Len(c) \in Nat /\ Len(c) >= 3 /\ c[Len(c)] = 1
    /\ \A j \in 1..Len(c) - 1 : c[j] = 0

(* leading_zero_8bits and trailing_zero_8bits are zeros.                   *)
LEMMA ZerosAre ==
    ASSUME NEW s \in Seq({0})
    PROVE  IsZeros(s)
<1>1. Len(s) \in Nat /\ \A j \in 1..Len(s) : s[j] = 0
  OBVIOUS
<1>2. s \in Seq(Octet)
  <2>1. 0 \in Octet
    BY DEF Octet
  <2>2. s \in [1..Len(s) -> Octet]
    BY <1>1, <2>1
  <2> QED BY <1>1, <2>2
<1> QED BY <1>1, <1>2 DEF IsZeros

(* A start code is zeros and a 1.                                          *)
LEMMA StartsAre ==
    ASSUME NEW c \in {<<0, 0, 1>>, <<0, 0, 0, 1>>}
    PROVE  IsStart(c)
<1>1. 0 \in Octet /\ 1 \in Octet
  BY DEF Octet
<1>2. CASE c = <<0, 0, 1>>
  <2>1. Len(c) = 3 /\ c[1] = 0 /\ c[2] = 0 /\ c[3] = 1
    BY <1>2
  <2>2. c \in Seq(Octet)
    BY <1>1, <1>2
  <2>3. \A j \in 1..3 - 1 : j = 1 \/ j = 2
    OBVIOUS
  <2> HIDE <1>2
  <2> QED BY <2>1, <2>2, <2>3 DEF IsStart
<1>3. CASE c = <<0, 0, 0, 1>>
  <2>1. Len(c) = 4 /\ c[1] = 0 /\ c[2] = 0 /\ c[3] = 0 /\ c[4] = 1
    BY <1>3
  <2>2. c \in Seq(Octet)
    BY <1>1, <1>3
  <2>3. \A j \in 1..4 - 1 : j = 1 \/ j = 2 \/ j = 3
    OBVIOUS
  <2> HIDE <1>3
  <2> QED BY <2>1, <2>2, <2>3 DEF IsStart
<1> QED BY <1>2, <1>3

Units(n, m) == m \in Nat /\ Len(n) = m /\ \A k \in 1..m : LegalUnit(n[k])
AnnexBFraming(f) == IsStart(f.start) /\ IsZeros(f.leading) /\ IsZeros(f.trailing)

(* The bytes of an Annex B stream.                                         *)
LEMMA ByteStreamLaid ==
    ASSUME NEW n, NEW m, Units(n, m), NEW f, AnnexBFraming(f)
    PROVE  \E b, e : Laid(Writer!ByteStream(n, f), n, b, e, m)
<1>0. /\ m \in Nat /\ Len(n) = m /\ \A k \in 1..m : LegalUnit(n[k])
      /\ IsStart(f.start) /\ IsZeros(f.leading) /\ IsZeros(f.trailing)
  BY DEF Units, AnnexBFraming
<1> DEFINE u(k) == Writer!nal_unit(n[k])
           start == f.start
           lead == f.leading
           trail == f.trailing
           p == [k \in 1..m |-> start \o u(k) \o trail]
           F == Writer!FlattenSeq(p)
           D == lead \o F
           ll == Len(lead)
           ls == Len(start)
           lt == Len(trail)
<1>1. D = Writer!ByteStream(n, f)
  BY <1>0 DEF Writer!ByteStream, Writer!Each
<1>2. /\ start \in Seq(Octet) /\ ls \in Nat /\ ls >= 3 /\ start[ls] = 1
           /\ \A j \in 1..ls - 1 : start[j] = 0
      /\ lead \in Seq(Octet) /\ ll \in Nat /\ \A j \in 1..ll : lead[j] = 0
      /\ trail \in Seq(Octet) /\ lt \in Nat /\ \A j \in 1..lt : trail[j] = 0
  BY <1>0 DEF IsStart, IsZeros
<1> HIDE DEF start, lead, trail
<1>3. ASSUME NEW k \in 1..m PROVE Three(p[k], start, u(k), trail) /\ u(k) \in Seq(Octet)
                                      /\ p[k] = start \o u(k) \o trail
  <2>1. u(k) \in Seq(Octet)
    <3>1. LegalUnit(n[k])
      BY <1>0
    <3> QED BY <3>1, NalIs
  <2> DEFINE v == u(k)
  <2> HIDE DEF v
  <2>2. Three(start \o v \o trail, start, v, trail)
    BY <1>2, <2>1, ThreeIs DEF v
  <2> QED BY <2>1, <2>2 DEF v
<1>4. Lists(p, Octet, m) /\ m = Len(p) /\ (m = 0 => p = <<>>)
  <2>1. \A k \in 1..m : p[k] \in Seq(Octet)
    BY <1>3 DEF Three
  <2>2. p \in [1..m -> Seq(Octet)]
    <3>1. p = [k \in 1..m |-> p[k]]
      OBVIOUS
    <3> HIDE DEF p
    <3> QED BY <2>1, <3>1
  <2> HIDE DEF p
  <2>3. Len(p) = m /\ (m = 0 => p = <<>>)
    BY ONLY <1>0, <2>2
  <2> QED BY <1>0, <2>1, <2>3 DEF Lists
<1> HIDE DEF p
<1>5. PICK g : F \in Seq(Octet) /\ Pieces(F, p, g, m)
  BY <1>4, Flattened
<1> HIDE DEF F
<1>6. /\ \A k \in 0..m : g[k] \in Nat /\ g[k] <= Len(F)
      /\ Len(F) \in Nat /\ g[0] = 0 /\ g[m] = Len(F)
      /\ \A k \in 1..m : g[k] = g[k - 1] + Len(p[k])
      /\ \A k \in 1..m : \A j \in 1..Len(p[k]) : F[g[k - 1] + j] = p[k][j]
  <2>1. \A k \in 0..m : g[k] \in Nat /\ g[k] <= Len(F) /\ Len(F) \in Nat
    BY <1>4, <1>5, PieceEnds
  <2>2. 0 \in 0..m
    BY <1>0
  <2> QED BY <1>5, <2>1, <2>2 DEF Pieces
<1>7. /\ D \in Seq(Octet) /\ Len(D) = ll + Len(F)
      /\ \A j \in 1..ll : D[j] = lead[j]
      /\ \A j \in 1..Len(F) : D[ll + j] = F[j]
  BY <1>2, <1>5, Concat
<1> HIDE DEF D
<1> DEFINE b == [k \in 0..m |-> IF k = 0 THEN 0 ELSE ll + g[k - 1] + ls]
           e == [k \in 0..m |-> IF k = 0 THEN 0 ELSE ll + g[k - 1] + ls + Len(u(k))]
<1>8. ASSUME NEW k \in 1..m
      PROVE  /\ b[k] = ll + g[k - 1] + ls /\ e[k] = b[k] + Len(u(k))
                  /\ g[k] = g[k - 1] + ls + Len(u(k)) + lt
             /\ g[k - 1] \in Nat /\ g[k] \in Nat /\ Len(u(k)) \in Nat /\ g[k] <= Len(F)
  <2>1. k \in 0..m /\ k # 0 /\ k - 1 \in 0..m
    BY <1>0
  <2>2. Len(p[k]) = ls + Len(u(k)) + lt /\ Len(u(k)) \in Nat
    BY <1>3 DEF Three
  <2>3. g[k - 1] \in Nat /\ g[k] \in Nat /\ g[k] = g[k - 1] + Len(p[k]) /\ g[k] <= Len(F)
    BY <1>6, <2>1
  <2>4. g[k] = g[k - 1] + ls + Len(u(k)) + lt
    BY <1>2, <2>2, <2>3
  <2> QED BY <2>1, <2>2, <2>3, <2>4
<1>9. b[0] = 0 /\ e[0] = 0
  BY <1>0
<1> HIDE DEF b, e, u, ll, ls, lt
\* The byte of D that is byte j of the k-th piece.
<1>10. ASSUME NEW k \in 1..m, NEW j \in 1..Len(p[k]) PROVE D[ll + g[k - 1] + j] = p[k][j]
  <2>1. g[k - 1] \in Nat /\ g[k] = g[k - 1] + Len(p[k]) /\ g[k] <= Len(F) /\ Len(p[k]) \in Nat
    <3>1. Len(p[k]) \in Nat
      <4>1. Len(p[k]) = ls + Len(u(k)) + lt
        BY <1>3 DEF Three, ls, lt
      <4> QED BY <1>2, <1>8, <4>1
    <3> QED BY <1>6, <1>8, <3>1
  <2> DEFINE x == g[k - 1] + j
  <2>2. x \in 1..Len(F) /\ ll + g[k - 1] + j = ll + x
    <3> DEFINE q == Len(p[k])
               y == g[k - 1]
               w == g[k]
    <3>1. q \in Nat /\ y \in Nat /\ w = y + q /\ w <= Len(F) /\ j \in 1..q /\ ll \in Nat
              /\ Len(F) \in Nat
      BY <1>2, <1>6, <2>1
    <3> HIDE DEF q, y, w
    <3>2. y + j \in 1..Len(F) /\ ll + y + j = ll + (y + j)
      BY ONLY <3>1
    <3> QED BY <3>2 DEF y
  <2>3. F[x] = p[k][j]
    BY <1>6
  <2> HIDE DEF x
  <2>4. D[ll + x] = F[x]
    BY <1>7, <2>2
  <2> QED BY <2>2, <2>3, <2>4
<1>11. ASSUME NEW k \in 1..m
       PROVE  /\ \A j \in 1..ls : D[ll + g[k - 1] + j] = start[j]
              /\ \A j \in 1..Len(u(k)) : D[b[k] + j] = u(k)[j]
              /\ \A j \in e[k] + 1..ll + g[k] : D[j] = 0
  <2> DEFINE y == g[k - 1]
             v == u(k)
             lu == Len(v)
             q == p[k]
  <2>1. /\ y \in Nat /\ lu \in Nat /\ ls \in Nat /\ lt \in Nat /\ ll \in Nat
        /\ b[k] = ll + y + ls /\ e[k] = ll + y + ls + lu /\ ll + g[k] = ll + y + ls + lu + lt
    <3> DEFINE x == b[k]
               w == e[k]
               z == g[k]
    <3>1. y \in Nat /\ lu \in Nat /\ x = ll + y + ls /\ w = x + lu /\ z = y + ls + lu + lt
      BY <1>8
    <3>2. ls \in Nat /\ lt \in Nat /\ ll \in Nat
      BY <1>2 DEF ls, lt, ll
    <3> HIDE DEF x, w, z, y, lu
    <3>3. w = ll + y + ls + lu /\ ll + z = ll + y + ls + lu + lt
      BY ONLY <3>1, <3>2
    <3> QED BY <3>1, <3>2, <3>3 DEF x, w, z
  <2>2. /\ Len(q) = ls + lu + lt
        /\ \A j \in 1..ls : q[j] = start[j]
        /\ \A j \in 1..lu : q[ls + j] = v[j]
        /\ \A j \in 1..lt : q[ls + lu + j] = trail[j]
    BY <1>3 DEF Three, ls, lt
  <2>3. \A j \in 1..Len(q) : D[ll + y + j] = q[j]
    BY <1>10
  <2> HIDE DEF y, v, lu, q
  <2>4. \A j \in 1..ls : D[ll + y + j] = start[j]
    <3> TAKE j \in 1..ls
    <3>1. j \in 1..Len(q)
      BY <2>1, <2>2
    <3> QED BY <2>2, <2>3, <3>1
  <2>5. \A j \in 1..lu : D[b[k] + j] = v[j]
    <3> TAKE j \in 1..lu
    <3> DEFINE i == ls + j
    <3>1. i \in 1..Len(q) /\ ll + y + i = b[k] + j
      BY <2>1, <2>2
    <3>2. q[i] = v[j]
      BY <2>2
    <3> HIDE DEF i
    <3>3. D[ll + y + i] = q[i]
      BY <2>3, <3>1
    <3> QED BY <3>1, <3>2, <3>3
  <2>6. \A j \in e[k] + 1..ll + g[k] : D[j] = 0
    <3> TAKE j \in e[k] + 1..ll + g[k]
    <3> DEFINE h == j - e[k]
               i == ls + lu + h
    <3>1. h \in 1..lt /\ i \in 1..Len(q) /\ ll + y + i = j
      BY <2>1, <2>2
    <3> HIDE DEF h
    <3>2. q[i] = trail[h] /\ trail[h] = 0
      BY <1>2, <2>2, <3>1 DEF lt
    <3> HIDE DEF i
    <3>3. D[ll + y + i] = q[i]
      BY <2>3, <3>1
    <3> QED BY <3>1, <3>2, <3>3
  <2> QED BY <2>4, <2>5, <2>6 DEF y, v, lu
<1>12. ASSUME NEW k \in 1..m
       PROVE  /\ e[k - 1] + 3 <= b[k] /\ D[b[k]] = 1
              /\ \A j \in e[k - 1] + 1..b[k] - 1 : D[j] = 0
  <2> DEFINE y == g[k - 1]
  <2>1. y \in Nat /\ ls \in Nat /\ ls >= 3 /\ ll \in Nat /\ lt \in Nat /\ b[k] = ll + y + ls
    BY <1>2, <1>8
  <2>2. \A j \in 1..ls : D[ll + y + j] = start[j]
    BY <1>11
  <2>3. e[k - 1] <= ll + y /\ e[k - 1] \in Nat /\ \A j \in e[k - 1] + 1..ll + y : D[j] = 0
    <3>1. CASE k = 1
      <4>1. k - 1 = 0 /\ y = 0 /\ e[k - 1] = 0
        BY <1>6, <1>9, <3>1
      <4>2. \A j \in 1..ll : D[j] = 0
        BY <1>2, <1>7 DEF ll
      <4> HIDE DEF y
      <4>3. ll + y = ll /\ 0 + 1 = 1
        BY <2>1, <4>1
      <4> QED BY <2>1, <4>1, <4>2, <4>3
    <3>2. CASE k # 1
      <4> DEFINE i == k - 1
      <4>1. i \in 1..m
        BY <1>0, <3>2
      <4> HIDE DEF i
      <4>2. \A j \in e[i] + 1..ll + g[i] : D[j] = 0
        BY <1>11, <4>1
      <4>3. /\ b[i] = ll + g[i - 1] + ls /\ e[i] = b[i] + Len(u(i))
                 /\ g[i] = g[i - 1] + ls + Len(u(i)) + lt
            /\ g[i - 1] \in Nat /\ g[i] \in Nat /\ Len(u(i)) \in Nat
        BY <1>8, <4>1
      <4>4. e[i] <= ll + g[i] /\ e[i] \in Nat
        <5> DEFINE x == b[i]
                   w == e[i]
                   z == g[i]
                   h == g[i - 1]
                   lu == Len(u(i))
        <5>1. /\ h \in Nat /\ lu \in Nat /\ x = ll + h + ls /\ w = x + lu /\ z = h + ls + lu + lt
              /\ ls \in Nat /\ lt \in Nat /\ ll \in Nat
          BY <2>1, <4>3
        <5> HIDE DEF x, w, z, h, lu
        <5>2. w <= ll + z /\ w \in Nat
          BY ONLY <5>1
        <5> QED BY <5>2 DEF w, z
      <4> QED BY <4>2, <4>4 DEF i
    <3> QED BY <3>1, <3>2
  <2> HIDE DEF y
  <2>4. D[b[k]] = 1
    <3>1. ls \in 1..ls /\ start[ls] = 1
      BY <1>2, <2>1 DEF ls
    <3> QED BY <2>1, <2>2, <3>1
  <2>5. \A j \in e[k - 1] + 1..b[k] - 1 : D[j] = 0
    <3> TAKE j \in e[k - 1] + 1..b[k] - 1
    <3>1. CASE j <= ll + y
      <4>1. j \in e[k - 1] + 1..ll + y
        BY <2>1, <2>3, <3>1
      <4> QED BY <2>3, <4>1
    <3>2. CASE ~(j <= ll + y)
      <4> DEFINE i == j - (ll + y)
      <4>1. i \in 1..ls - 1 /\ i \in 1..ls /\ ll + y + i = j
        BY <2>1, <2>3, <3>2
      <4> HIDE DEF i
      <4>2. D[ll + y + i] = start[i] /\ start[i] = 0
        BY <1>2, <2>2, <4>1 DEF ls
      <4> QED BY <4>1, <4>2
    <3> QED BY <3>1, <3>2
  <2>6. e[k - 1] + 3 <= b[k]
    <3> DEFINE x == e[k - 1]
               w == b[k]
    <3>1. x \in Nat /\ x <= ll + y /\ w = ll + y + ls
      BY <2>1, <2>3
    <3> HIDE DEF x, w
    <3>2. x + 3 <= w
      BY <2>1, <3>1
    <3> QED BY <3>2 DEF x, w
  <2> QED BY <2>4, <2>5, <2>6
<1>13. ASSUME NEW k \in 0..m PROVE b[k] \in Nat /\ e[k] \in Nat /\ e[k] <= Len(D)
  <2>1. Len(D) \in Nat /\ Len(D) = ll + Len(F) /\ ll \in Nat /\ ls \in Nat /\ lt \in Nat
            /\ Len(F) \in Nat
    BY <1>2, <1>6, <1>7
  <2>2. CASE k = 0
    BY <1>9, <2>1, <2>2
  <2>3. CASE k # 0
    <3>1. k \in 1..m
      BY <1>0, <2>3
    <3>2. /\ b[k] = ll + g[k - 1] + ls /\ e[k] = b[k] + Len(u(k))
               /\ g[k] = g[k - 1] + ls + Len(u(k)) + lt
          /\ g[k - 1] \in Nat /\ g[k] \in Nat /\ Len(u(k)) \in Nat /\ g[k] <= Len(F)
      BY <1>8, <3>1
    <3> DEFINE x == b[k]
               w == e[k]
               y == g[k - 1]
               z == g[k]
               h == Len(u(k))
               M == Len(D)
               G == Len(F)
    <3>3. /\ x = ll + y + ls /\ w = x + h /\ z = y + ls + h + lt /\ y \in Nat /\ z \in Nat
               /\ h \in Nat
          /\ z <= G /\ M = ll + G /\ G \in Nat /\ ll \in Nat /\ ls \in Nat /\ lt \in Nat
      BY <2>1, <3>2
    <3> HIDE DEF x, w, y, z, h, M, G
    <3>4. x \in Nat /\ w \in Nat /\ w <= M
      BY ONLY <3>3
    <3> QED BY <3>4 DEF x, w, M
  <2> QED BY <2>2, <2>3
<1>14. \A j \in e[m] + 1..Len(D) : D[j] = 0
  <2>1. Len(D) = ll + g[m] /\ ll \in Nat /\ g[m] \in Nat
    BY <1>2, <1>6, <1>7
  <2>2. CASE m = 0
    <3>1. e[m] = 0 /\ g[m] = 0
      BY ONLY <1>6, <1>9, <2>2
    <3>3. ll + g[m] = ll
      BY <2>1, <3>1
    <3>2. \A j \in 1..ll : D[j] = 0
      BY <1>2, <1>7 DEF ll
    <3> QED BY <2>1, <3>1, <3>2, <3>3
  <2>3. CASE m # 0
    <3>1. m \in 1..m
      BY <1>0, <2>3
    <3> QED BY <1>11, <2>1, <3>1
  <2> QED BY <2>2, <2>3
<1>15. Laid(D, n, b, e, m)
  <2>1. \A k \in 1..m :
         /\ LegalUnit(n[k])
         /\ e[k - 1] + 3 <= b[k] /\ D[b[k]] = 1
         /\ \A j \in e[k - 1] + 1..b[k] - 1 : D[j] = 0
         /\ e[k] = b[k] + Len(Writer!nal_unit(n[k]))
         /\ \A j \in 1..Len(Writer!nal_unit(n[k])) : D[b[k] + j] = Writer!nal_unit(n[k])[j]
    BY <1>0, <1>8, <1>11, <1>12 DEF u
  <2>2. \A k \in 0..m : b[k] \in Nat /\ e[k] \in Nat /\ e[k] <= Len(D)
    BY <1>13
  <2>3. D \in Seq(Octet) /\ m \in Nat
    BY <1>0, <1>7
  <2> QED BY ONLY <1>9, <1>14, <2>1, <2>2, <2>3 DEF Laid
<1> QED BY <1>1, <1>15

-----------------------------------------------------------------------------
(* Lengths.                                                                *)

Number(D, i, size) ==
    CASE size = 1 -> D[i + 1]
      [] size = 2 -> (256 * D[i + 1]) + D[i + 2]
      [] size = 4 -> (256 * ((256 * ((256 * D[i + 1]) + D[i + 2])) + D[i + 3])) + D[i + 4]

(* The length read from one, two or four bytes.                            *)
LEMMA BigEndianIs ==
    ASSUME NEW D \in Seq(Octet), NEW size \in LengthSizes, NEW i \in Nat, i + size <= Len(D)
    PROVE  BigEndian(D, i, size) = Number(D, i, size) /\ Number(D, i, size) \in Nat
<1> DEFINE d(k) == D[i + k]
           Fix(v) == v = [k \in 0..size |-> IF k = 0 THEN 0
                ELSE (256 * v[k - 1]) + At0(D, i + k - 1)]
           v1 == d(1)
           v2 == (256 * v1) + d(2)
           v3 == (256 * v2) + d(3)
           v4 == (256 * v3) + d(4)
           w == [k \in 0..size |-> IF k = 0 THEN 0 ELSE IF k = 1 THEN v1
                ELSE IF k = 2 THEN v2 ELSE IF k = 3 THEN v3 ELSE v4]
<1>0. size = 1 \/ size = 2 \/ size = 4
  BY DEF LengthSizes
<1>1. ASSUME NEW k \in 1..size PROVE d(k) \in Nat /\ At0(D, i + k - 1) = d(k)
  <2>1. i + k - 1 + 1 = i + k /\ i + k \in 1..Len(D)
    BY <1>0
  <2> DEFINE x == i + k
  <2> HIDE DEF x
  <2>2. D[x] \in Octet
    <3>1. D \in Seq(Octet) /\ x \in 1..Len(D)
      BY <2>1 DEF x
    <3> QED BY ONLY <3>1
  <2>3. D[x] \in Nat
    <3> DEFINE y == D[x]
    <3>1. y \in Octet
      BY <2>2
    <3> HIDE DEF y
    <3>2. y \in Nat
      BY <3>1 DEF Octet
    <3> QED BY <3>2 DEF y
  <2> QED BY <2>1, <2>3 DEF At0, x
<1> HIDE DEF d
<1>2. /\ v1 \in Nat
      /\ size >= 2 => v2 \in Nat
      /\ size = 4 => v3 \in Nat /\ v4 \in Nat
  <2>1. 1 \in 1..size /\ (size >= 2 => 2 \in 1..size) /\ (size = 4 => 3 \in 1..size
            /\ 4 \in 1..size)
    BY <1>0
  <2>2. d(1) \in Nat /\ (size >= 2 => d(2) \in Nat) /\ (size = 4 => d(3) \in Nat /\ d(4) \in Nat)
    BY <1>1, <2>1
  <2> DEFINE a == d(1)
             b == d(2)
             c == d(3)
             e == d(4)
  <2> HIDE DEF a, b, c, e
  <2>3. a \in Nat /\ (size >= 2 => b \in Nat) /\ (size = 4 => c \in Nat /\ e \in Nat)
    BY <2>2 DEF a, b, c, e
  <2>4. size = 4 => size >= 2
    OBVIOUS
  <2>5. /\ a \in Nat
        /\ size >= 2 => (256 * a) + b \in Nat
        /\ size = 4 => /\ (256 * ((256 * a) + b)) + c \in Nat
                       /\ (256 * ((256 * ((256 * a) + b)) + c)) + e \in Nat
    <3> DEFINE x == (256 * a) + b
               y == (256 * x) + c
    <3>1. size >= 2 => x \in Nat
      BY ONLY <2>3
    <3> HIDE DEF x
    <3>2. size = 4 => y \in Nat
      BY ONLY <2>3, <2>4, <3>1 DEF y
    <3> HIDE DEF y
    <3>3. size = 4 => (256 * y) + e \in Nat
      BY ONLY <2>3, <3>2
    <3> QED BY <2>3, <3>1, <3>2, <3>3 DEF x, y
  <2> QED BY <2>5 DEF a, b, c, e
<1>3. ASSUME NEW k \in 0..size PROVE w[k] = IF k = 0 THEN 0
                                         ELSE (256 * w[k - 1]) + At0(D, i + k - 1)
  <2>1. CASE k = 0
    BY <2>1
  <2>2. CASE k # 0
    <3>1. k \in 1..size /\ k - 1 \in 0..size /\ (k = 1 \/ k = 2 \/ (size = 4 /\ (k = 3 \/ k = 4)))
      BY <1>0, <2>2
    <3>2. At0(D, i + k - 1) = d(k)
      BY <1>1, <3>1
    <3>3. CASE k = 1
      <4>1. w[k] = v1 /\ w[k - 1] = 0
        BY <3>1, <3>3
      <4>2. v1 = (256 * 0) + d(1)
        BY <1>2
      <4> HIDE DEF w, v1
      <4> QED BY <3>2, <3>3, <4>1, <4>2
    <3>4. CASE k = 2
      <4>1. w[k] = v2 /\ w[k - 1] = v1
        BY <3>1, <3>4
      <4> HIDE DEF w, v1
      <4> QED BY <2>2, <3>2, <3>4, <4>1
    <3>5. CASE k = 3
      <4>1. w[k] = v3 /\ w[k - 1] = v2
        BY <3>1, <3>5
      <4> HIDE DEF w, v2
      <4> QED BY <2>2, <3>2, <3>5, <4>1
    <3>6. CASE k = 4
      <4>1. w[k] = v4 /\ w[k - 1] = v3
        BY <3>1, <3>6
      <4> HIDE DEF w, v3
      <4> QED BY <2>2, <3>2, <3>6, <4>1
    <3> QED BY <3>1, <3>3, <3>4, <3>5, <3>6
  <2> QED BY <2>1, <2>2
<1>4. Fix(w)
  <2>1. w = [k \in 0..size |-> w[k]]
    OBVIOUS
  <2> HIDE DEF w
  <2>2. [k \in 0..size |-> w[k]] = [k \in 0..size |-> IF k = 0 THEN 0
            ELSE (256 * w[k - 1]) + At0(D, i + k - 1)]
    BY <1>3
  <2> QED BY <2>1, <2>2
<1> HIDE DEF w
<1> DEFINE c == CHOOSE v : Fix(v)
<1>5. Fix(c)
  <2>1. \E v : Fix(v)
    <3> HIDE DEF Fix
    <3> QED BY <1>4
  <2> HIDE DEF Fix
  <2> QED BY <2>1
<1>6. BigEndian(D, i, size) = c[size]
  BY Zenon DEF BigEndian
<1> HIDE DEF c
<1>7. ASSUME NEW k \in 1..size PROVE c[k] = (256 * c[k - 1]) + d(k)
  <2>1. k \in 0..size /\ k # 0
    BY <1>0
  <2>2. c[k] = (256 * c[k - 1]) + At0(D, i + k - 1)
    BY <1>5, <2>1
  <2> QED BY <1>1, <2>2
<1>8. c[0] = 0
  BY <1>0, <1>5
<1>9. c[1] = v1
  <2>1. c[1] = (256 * c[1 - 1]) + d(1) /\ 1 - 1 = 0
    BY <1>0, <1>7
  <2>2. v1 = (256 * 0) + d(1)
    BY <1>2
  <2> HIDE DEF v1
  <2> QED BY <1>8, <2>1, <2>2
<1>10. size >= 2 => c[2] = v2
  <2>1. size >= 2 => c[2] = (256 * c[2 - 1]) + d(2) /\ 2 - 1 = 1
    BY <1>0, <1>7
  <2> HIDE DEF v1
  <2> QED BY <1>9, <2>1
<1>11. size = 4 => c[3] = v3
  <2>1. size = 4 => c[3] = (256 * c[3 - 1]) + d(3) /\ 3 - 1 = 2
    BY <1>0, <1>7
  <2> HIDE DEF v2
  <2> QED BY <1>10, <2>1
<1>12. size = 4 => c[4] = v4
  <2>1. size = 4 => c[4] = (256 * c[4 - 1]) + d(4) /\ 4 - 1 = 3
    BY <1>0, <1>7
  <2> HIDE DEF v3
  <2> QED BY <1>11, <2>1
<1>13. CASE size = 1
  <2>1. Number(D, i, size) = v1
    BY <1>13 DEF Number, d
  <2> HIDE DEF v1
  <2> QED BY <1>2, <1>6, <1>9, <1>13, <2>1
<1>14. CASE size = 2
  <2>1. Number(D, i, size) = v2
    BY <1>14 DEF Number, d
  <2> HIDE DEF v2
  <2> QED BY <1>2, <1>6, <1>10, <1>14, <2>1
<1>15. CASE size = 4
  <2>1. Number(D, i, size) = v4
    BY <1>15 DEF Number, d
  <2> HIDE DEF v4
  <2> QED BY <1>2, <1>6, <1>12, <1>15, <2>1
<1> QED BY <1>0, <1>13, <1>14, <1>15

\* Byte j of a length that is sent in size bytes.
Digit(length, size, j) == (length \div (256 ^ (size - j))) % 256

(* The length is the one whose bytes were sent.                            *)
LEMMA DigitsAre ==
    ASSUME NEW D, NEW i, NEW size \in LengthSizes, NEW length \in Nat, length < 256 ^ size,
           \A j \in 1..size : D[i + j] = Digit(length, size, j)
    PROVE  Number(D, i, size) = length
<1>0. size = 1 \/ size = 2 \/ size = 4
  BY DEF LengthSizes
<1>1. CASE size = 1
  <2>1. D[i + 1] = Digit(length, 1, 1)
    BY <1>1
  <2>2. 256 ^ (1 - 1) = 1 /\ 256 ^ 1 = 256
    OBVIOUS
  <2>3. length < 256
    BY <1>1, <2>2
  <2>4. Digit(length, 1, 1) = length
    BY <2>2, <2>3 DEF Digit
  <2> QED BY <1>1, <2>1, <2>4 DEF Number
<1>2. CASE size = 2
  <2>1. D[i + 1] = Digit(length, 2, 1) /\ D[i + 2] = Digit(length, 2, 2)
    BY <1>2
  <2>2. 256 ^ (2 - 1) = 256 /\ 256 ^ (2 - 2) = 1 /\ 256 ^ 2 = 65536
    OBVIOUS
  <2>3. length < 65536
    BY <1>2, <2>2
  <2>4. Digit(length, 2, 1) = (length \div 256) % 256 /\ Digit(length, 2, 2) = (length \div 1) % 256
    BY <2>2 DEF Digit
  <2>5. (256 * ((length \div 256) % 256)) + ((length \div 1) % 256) = length
    BY <2>3
  <2>6. Number(D, i, size) = (256 * D[i + 1]) + D[i + 2]
    BY <1>2 DEF Number
  <2> QED BY <2>1, <2>4, <2>5, <2>6
<1>3. CASE size = 4
  <2>1. /\ D[i + 1] = Digit(length, 4, 1) /\ D[i + 2] = Digit(length, 4, 2)
        /\ D[i + 3] = Digit(length, 4, 3) /\ D[i + 4] = Digit(length, 4, 4)
    BY SMT, <1>3
  <2>2. 256 ^ (4 - 1) = 16777216 /\ 256 ^ (4 - 2) = 65536 /\ 256 ^ (4 - 3) = 256
            /\ 256 ^ (4 - 4) = 1 /\ 256 ^ 4 = 4294967296
    BY SMT
  <2>3. length < 4294967296
    BY SMT, <1>3, <2>2
  <2>4. /\ Digit(length, 4, 1) = (length \div 16777216) % 256
             /\ Digit(length, 4, 2) = (length \div 65536) % 256
        /\ Digit(length, 4, 3) = (length \div 256) % 256
             /\ Digit(length, 4, 4) = (length \div 1) % 256
    BY SMT, <2>2 DEF Digit
  <2> DEFINE x1 == D[i + 1]
             x2 == D[i + 2]
             x3 == D[i + 3]
             x4 == D[i + 4]
             y1 == (length \div 16777216) % 256
             y2 == (length \div 65536) % 256
             y3 == (length \div 256) % 256
             y4 == (length \div 1) % 256
  <2>5. (256 * ((256 * ((256 * y1) + y2)) + y3)) + y4 = length
    BY SMT, <2>3
  <2>6. Number(D, i, size) = (256 * ((256 * ((256 * x1) + x2)) + x3)) + x4
    BY SMT, <1>3 DEF Number
  <2>7. x1 = y1 /\ x2 = y2 /\ x3 = y3 /\ x4 = y4
    BY SMT, <2>1, <2>4
  <2> HIDE DEF x1, x2, x3, x4, y1, y2, y3, y4
  <2> QED BY SMT, <2>5, <2>6, <2>7
<1> QED BY <1>0, <1>1, <1>2, <1>3

(* What is sent of a length is a byte.                                     *)
LEMMA DigitOctet ==
    ASSUME NEW length \in Nat, NEW size \in LengthSizes, NEW j \in 1..size
    PROVE  Digit(length, size, j) \in Octet
<1> DEFINE k == size - j
<1>0. k = 0 \/ k = 1 \/ k = 2 \/ k = 3
  BY DEF LengthSizes
<1> HIDE DEF k
<1>1. 256 ^ 0 = 1 /\ 256 ^ 1 = 256 /\ 256 ^ 2 = 65536 /\ 256 ^ 3 = 16777216
  OBVIOUS
<1> DEFINE x == 256 ^ k
<1>2. x = 1 \/ x = 256 \/ x = 65536 \/ x = 16777216
  <2>1. CASE k = 0
    BY SMT, <1>1, <2>1
  <2>2. CASE k = 1
    BY SMT, <1>1, <2>2
  <2>3. CASE k = 2
    BY SMT, <1>1, <2>3
  <2>4. CASE k = 3
    BY SMT, <1>1, <2>4
  <2> QED BY <1>0, <2>1, <2>2, <2>3, <2>4
<1> HIDE DEF x
<1>3. (length \div x) % 256 \in 0..255
  BY SMT, <1>2
<1> QED BY <1>3 DEF Digit, Octet, x, k

-----------------------------------------------------------------------------
(* Samples, read.                                                          *)

\* D holds the units n[1], ..., n[m], each behind its length: the k-th from
\* a[k - 1] to a[k].
Sampled(D, n, a, m, size) ==
    /\ D \in Seq(Octet) /\ m \in Nat /\ size \in LengthSizes /\ a[0] = 0
    /\ \A k \in 0..m : a[k] \in Nat /\ a[k] <= Len(D)
    /\ \A k \in 1..m :
         /\ LegalUnit(n[k]) /\ Len(Writer!nal_unit(n[k])) < 256 ^ size
         /\ a[k] = a[k - 1] + size + Len(Writer!nal_unit(n[k]))
         /\ \A j \in 1..size : D[a[k - 1] + j] = Digit(Len(Writer!nal_unit(n[k])), size, j)
         /\ \A j \in 1..Len(Writer!nal_unit(n[k])) :
              D[a[k - 1] + size + j] = Writer!nal_unit(n[k])[j]

\* What parse_avcc does at byte i.
UnitEnd(D, i, size) == i + size + BigEndian(D, i, size)
SampleEnds(D, i, size) == i + size > Len(D) \/ UnitEnd(D, i, size) > Len(D)
Sampling(c, D, size) ==
    \A i \in 0..Len(D) :
      /\ SampleEnds(D, i, size) => c[i] = <<>>
      /\ ~SampleEnds(D, i, size) =>
           c[i] = ParseNalBytes(Slice0(D, i + size, UnitEnd(D, i, size))) \o c[UnitEnd(D, i, size)]

(* The length in front of a unit is read back.                             *)
LEMMA NumberRead ==
    ASSUME NEW D \in Seq(Octet), NEW size \in LengthSizes, NEW i \in Nat, i + size <= Len(D),
           NEW length \in Nat, length < 256 ^ size,
           \A j \in 1..size : D[i + j] = Digit(length, size, j)
    PROVE  BigEndian(D, i, size) = length
<1>1. BigEndian(D, i, size) = Number(D, i, size)
  BY BigEndianIs
<1>2. Number(D, i, size) = length
  BY DigitsAre
<1> QED BY <1>1, <1>2

(* The loop of parse_avcc goes forward, so that it ends.                   *)
LEMMA SamplingExists ==
    ASSUME NEW D \in Seq(Octet), NEW size \in LengthSizes
    PROVE  \E c : Sampling(c, D, size) /\ ParseAvcc(D, size) = c[0]
<1> DEFINE n == Len(D)
           End(i) == i + size + BigEndian(D, i, size)
           Unit0(i) == ParseNalBytes(Slice0(D, i + size, End(i)))
           Fix(g) == g = [i \in 0..n |-> IF i + size > n THEN <<>>
                                         ELSE IF End(i) > n THEN <<>> ELSE Unit0(i) \o g[End(i)]]
           base == [i \in 0..n |-> Unit0(i)]
           next == [i \in 0..n |-> End(i)]
           stop == {i \in 0..n : SampleEnds(D, i, size)}
<1>0. n \in Nat /\ size \in Nat /\ size >= 1
  <2>1. n \in Nat
    OBVIOUS
  <2> QED BY <2>1 DEF LengthSizes
<1>1. Forward(0, n, stop, next)
  <2>1. ASSUME NEW i \in 0..n, i \notin stop
        PROVE  next[i] \in 0..n /\ next[i] > i
    <3>1. next[i] = End(i) /\ ~ (i + size > n) /\ ~ (End(i) > n)
      BY <2>1 DEF SampleEnds, UnitEnd
    <3>2. i \in Nat /\ i + size <= Len(D)
      BY <1>0, <3>1
    <3>3. BigEndian(D, i, size) \in Nat
      BY <3>2, BigEndianIs
    <3> HIDE DEF next, n
    <3>4. End(i) \in 0..n /\ End(i) > i
      BY <1>0, <3>1, <3>2, <3>3
    <3> HIDE DEF End
    <3> QED BY <3>1, <3>4
  <2>2. n \in stop
    BY <1>0 DEF SampleEnds
  <2>3. stop \in SUBSET (0..n) /\ ~ (-1 \in 0..n)
    BY <1>0
  <2> HIDE DEF next, stop, n
  <2> QED BY <1>0, <2>1, <2>2, <2>3 DEF Forward
<1>2. PICK f : Jumps(f, 0, n, stop, base, next)
  <2> HIDE DEF base, next, n, stop
  <2> QED BY <1>1, JumpsExist
<1>3. f = [i \in 0..n |-> IF i \in stop THEN <<>> ELSE base[i] \o f[next[i]]]
  BY <1>2 DEF Jumps
<1>4. Fix(f)
  <2>1. ASSUME NEW i \in 0..n
        PROVE  (IF i \in stop THEN <<>> ELSE base[i] \o f[next[i]])
                 = (IF i + size > n THEN <<>> ELSE IF End(i) > n THEN <<>>
                     ELSE Unit0(i) \o f[End(i)])
    <3>1. i \in stop <=> (i + size > n \/ End(i) > n)
      BY DEF SampleEnds, UnitEnd
    <3>2. base[i] = Unit0(i) /\ next[i] = End(i)
      OBVIOUS
    <3> HIDE DEF base, next, stop, Unit0, End, n
    <3> QED BY <3>1, <3>2
  <2> HIDE DEF n, base, next, stop, End, Unit0
  <2> QED BY <1>3, <2>1
<1> DEFINE c == CHOOSE g : Fix(g)
<1>5. Fix(c)
  <2>1. \E g : Fix(g)
    <3> HIDE DEF Fix
    <3> QED BY <1>4
  <2> HIDE DEF Fix
  <2> QED BY <2>1
<1>6. ParseAvcc(D, size) = c[0]
  BY Zenon DEF ParseAvcc
<1> HIDE DEF c
<1>7. ASSUME NEW i \in 0..n
      PROVE  /\ SampleEnds(D, i, size) => c[i] = <<>>
             /\ ~SampleEnds(D, i, size) =>
                  c[i] = ParseNalBytes(Slice0(D, i + size, UnitEnd(D, i, size))) \o c[UnitEnd(D,
                      i, size)]
  <2>1. c[i] = IF i + size > n THEN <<>> ELSE IF End(i) > n THEN <<>> ELSE Unit0(i) \o c[End(i)]
    <3> HIDE DEF n, End, Unit0
    <3> QED BY <1>5
  <2>2. SampleEnds(D, i, size) <=> (i + size > n \/ End(i) > n)
    BY DEF SampleEnds, UnitEnd
  <2>3. ~ SampleEnds(D, i, size) => c[i] = Unit0(i) \o c[End(i)]
    BY <2>1, <2>2
  <2>4. SampleEnds(D, i, size) => c[i] = <<>>
    BY <2>1, <2>2
  <2> QED BY <2>3, <2>4 DEF UnitEnd
<1> QED BY <1>6, <1>7 DEF Sampling

(* The slice behind a length is the unit that was written, and parses.     *)
LEMMA SampleAt ==
    ASSUME NEW D, NEW n, NEW a, NEW m, NEW size, Sampled(D, n, a, m, size), NEW k \in 1..m
    PROVE  /\ a[k - 1] \in 0..Len(D) /\ ~SampleEnds(D, a[k - 1], size)
           /\ UnitEnd(D, a[k - 1], size) = a[k]
           /\ ParseNalBytes(Slice0(D, a[k - 1] + size, a[k])) = <<AsRead(n[k], 0)>>
<1> DEFINE u == Writer!nal_unit(n[k])
           L == Len(u)
           i == a[k - 1]
           N == Len(D)
           from == i + size
<1>0. /\ D \in Seq(Octet) /\ m \in Nat /\ size \in LengthSizes /\ LegalUnit(n[k])
      /\ k \in 0..m /\ k - 1 \in 0..m
  BY DEF Sampled
<1>1. size \in Nat
  BY <1>0 DEF LengthSizes
<1>2. N \in Nat
  BY ONLY <1>0
<1>3. u \in Seq(Octet) /\ L \in Nat
  <2>1. u \in Seq(Octet)
    BY <1>0, NalIs
  <2> HIDE DEF u
  <2> QED BY ONLY <2>1
<1>4. i \in Nat /\ i <= N /\ a[k] \in Nat /\ a[k] <= N /\ a[k] = i + size + L /\ L < 256 ^ size
  BY <1>0 DEF Sampled
<1>5. /\ \A j \in 1..size : D[i + j] = Digit(L, size, j)
      /\ \A j \in 1..L : D[from + j] = u[j]
  BY DEF Sampled
<1> HIDE DEF u, i, N
<1>6. from + L + 0 = a[k] /\ from \in Nat /\ from <= N /\ from + L + 0 <= N /\ i \in 0..N
  <2> HIDE DEF L
  <2> DEFINE e == a[k]
  <2>1. i \in Nat /\ e \in Nat /\ e <= N /\ e = i + size + L /\ L \in Nat /\ size \in Nat
            /\ N \in Nat
    BY <1>1, <1>2, <1>3, <1>4
  <2> HIDE DEF e
  <2>2. from + L + 0 = e /\ from \in Nat /\ from <= N /\ from + L + 0 <= N /\ i \in 0..N
    BY ONLY <2>1 DEF from
  <2> QED BY <2>2 DEF e
<1> HIDE DEF L
<1>7. BigEndian(D, i, size) = L
  <2>1. i + size <= Len(D)
    BY <1>6 DEF N
  <2> QED BY <1>0, <1>3, <1>4, <1>5, <2>1, NumberRead
<1>8. UnitEnd(D, i, size) = a[k]
  BY <1>4, <1>7 DEF UnitEnd
<1>9. ~SampleEnds(D, i, size)
  BY <1>1, <1>2, <1>4, <1>6, <1>8 DEF SampleEnds, N
<1> HIDE DEF from
<1>10. Slice0(D, from, from + L + 0) = Padded(u, 0)
  <2>1. \A j \in from + L + 1..from + L + 0 : D[j] = 0
    BY <1>3, <1>6
  <2>2. 0 \in Nat
    OBVIOUS
  <2> QED BY <1>0, <1>3, <1>5, <1>6, <2>1, <2>2, SlicePadded DEF L, N
<1>11. ParseNalBytes(Padded(u, 0)) = <<AsRead(n[k], 0)>>
  <2>2. 0 \in Nat
    OBVIOUS
  <2> QED BY <1>0, <2>2, NalParsed DEF u
<1> QED BY <1>6, <1>8, <1>9, <1>10, <1>11 DEF i, N, from

ReadSample(n, m) == [k \in 1..m |-> AsRead(n[k], 0)]

(* parse_avcc gives the units up to where the sample ends.                 *)
LEMMA AvccRead ==
    ASSUME NEW D, NEW n, NEW a, NEW m, NEW size, Sampled(D, n, a, m, size),
           SampleEnds(D, a[m], size)
    PROVE  ParseAvcc(D, size) = ReadSample(n, m)
<1>0. D \in Seq(Octet) /\ m \in Nat /\ size \in LengthSizes /\ a[0] = 0 /\ m \in 0..m
  BY DEF Sampled
<1>1. a[m] \in 0..Len(D)
  <2>1. Len(D) \in Nat
    BY ONLY <1>0
  <2> QED BY <1>0, <2>1 DEF Sampled
<1>2. PICK c : Sampling(c, D, size) /\ ParseAvcc(D, size) = c[0]
  BY <1>0, SamplingExists
<1> DEFINE R == ReadSample(n, m)
           T == {R[k] : k \in 1..m}
           Good(i) == c[a[m - i]] = Beyond(R, m - i)
           S == {i \in 0..m : Good(i)}
<1>3. R \in Seq(T) /\ Len(R) = m
  <2>1. R \in [1..m -> T]
    BY DEF ReadSample
  <2> HIDE DEF R, T
  <2> QED BY ONLY <1>0, <2>1
<1>4. \A k \in 1..m : R[k] \in T
  OBVIOUS
<1>4a. \A k \in 1..m : R[k] = AsRead(n[k], 0)
  BY DEF ReadSample
<1> HIDE DEF R, T
<1>5. Good(0)
  <2>1. c[a[m]] = <<>>
    BY <1>1, <1>2 DEF Sampling
  <2>2. Beyond(R, m) = <<>>
    BY <1>0, <1>3, RestEnd
  <2>3. m - 0 = m
    BY <1>0
  <2> QED BY <2>1, <2>2, <2>3
<1>6. ASSUME NEW k \in 1..m, c[a[k]] = Beyond(R, k) PROVE c[a[k - 1]] = Beyond(R, k - 1)
  <2> DEFINE i == k - 1
  <2>1. i \in 0..m /\ i < m /\ i + 1 = k /\ i \in Nat
    BY <1>0
  <2>2. /\ a[i] \in 0..Len(D) /\ ~SampleEnds(D, a[i], size) /\ UnitEnd(D, a[i], size) = a[k]
        /\ ParseNalBytes(Slice0(D, a[i] + size, a[k])) = <<AsRead(n[k], 0)>>
    BY SampleAt
  <2> HIDE DEF i
  <2>3. c[a[i]] = <<R[k]>> \o c[a[k]]
    BY <1>2, <1>4a, <2>2 DEF Sampling
  <2> DEFINE x == R[k]
             b == <<x>>
  <2>4. x \in T
    BY <1>4
  <2>5. b \in Seq(T) /\ Len(b) = 1 /\ b[1] = x
    <3> HIDE DEF x
    <3> QED BY ONLY <2>4
  <2> HIDE DEF b
  <2>6. Has(R, T, i, b)
    <3>1. \A j \in 1..Len(b) : R[i + j] = b[j]
      BY <2>1, <2>5
    <3>2. i + Len(b) <= Len(R)
      BY <1>0, <1>3, <2>1, <2>5
    <3> QED BY <1>3, <2>1, <2>5, <3>1, <3>2 DEF Has
  <2>7. b \o Beyond(R, i + Len(b)) = Beyond(R, i)
    BY <2>6, RestPut
  <2>8. i + Len(b) = k
    BY <2>1, <2>5
  <2>9. c[a[i]] = b \o Beyond(R, k)
    BY <1>6, <2>3 DEF b
  <2> QED BY <2>7, <2>8, <2>9 DEF i
<1>7. ASSUME NEW i \in 1..m, i - 1 \in S PROVE i \in S
  <2> DEFINE k == m - (i - 1)
  <2>1. k \in 1..m /\ k - 1 = m - i /\ i \in 0..m
    BY <1>0
  <2>2. c[a[k]] = Beyond(R, k)
    BY <1>7
  <2> HIDE DEF k
  <2>3. c[a[k - 1]] = Beyond(R, k - 1)
    BY <1>6, <2>1, <2>2
  <2> QED BY <2>1, <2>3
<1>8. Good(m)
  <2>1. 0 \in S
    <3> HIDE DEF Good
    <3> QED BY <1>0, <1>5
  <2> HIDE DEF S
  <2>2. \A i \in 1..m : i - 1 \in S => i \in S
    BY <1>7
  <2>3. \A i \in 0..m : i \in S
    BY ONLY <1>0, <2>1, <2>2, EveryLength
  <2> HIDE DEF Good
  <2> QED BY <1>0, <2>3 DEF S
<1>9. c[0] = Beyond(R, 0)
  <2>1. m - m = 0
    BY <1>0
  <2> QED BY <1>0, <1>8, <2>1
<1>10. Beyond(R, 0) = R
  BY <1>3, RestAll
<1> QED BY <1>2, <1>9, <1>10 DEF R

-----------------------------------------------------------------------------
(* Samples, written and cut off.                                           *)

Prefix(u, size) == [j \in 1..size |-> Digit(Len(u), size, j)]
AllFit(n, m, size) ==
    size \in LengthSizes /\ \A k \in 1..m : Len(Writer!nal_unit(n[k])) < 256 ^ size

(* The bytes of a length.                                                  *)
LEMMA PrefixIs ==
    ASSUME NEW u \in Seq(Octet), NEW size \in LengthSizes
    PROVE  /\ Prefix(u, size) \in Seq(Octet) /\ Len(Prefix(u, size)) = size
           /\ \A j \in 1..size : Prefix(u, size)[j] = Digit(Len(u), size, j)
<1> DEFINE L == Len(u)
           P == Prefix(u, size)
<1>1. L \in Nat /\ size \in Nat
  <2>1. L \in Nat
    OBVIOUS
  <2> QED BY <2>1 DEF LengthSizes
<1> HIDE DEF L
<1>2. P = [j \in 1..size |-> Digit(L, size, j)]
  BY DEF Prefix, L
<1> HIDE DEF P
<1>3. P \in [1..size -> Octet]
  BY <1>1, <1>2, DigitOctet
<1>4. P \in Seq(Octet) /\ Len(P) = size
  BY ONLY <1>1, <1>3
<1> QED BY <1>2, <1>4 DEF P, L

(* The bytes of a sample.                                                  *)
LEMMA SampleLaid ==
    ASSUME NEW n, NEW m, Units(n, m), NEW size, AllFit(n, m, size)
    PROVE  \E a : /\ Sampled(Writer!Sample(n, size), n, a, m, size)
                  /\ a[m] = Len(Writer!Sample(n, size))
<1>0. /\ m \in Nat /\ Len(n) = m /\ (\A k \in 1..m : LegalUnit(n[k]))
      /\ size \in LengthSizes /\ \A k \in 1..m : Len(Writer!nal_unit(n[k])) < 256 ^ size
  BY DEF Units, AllFit
<1>1. size \in Nat
  BY <1>0 DEF LengthSizes
<1> DEFINE u(k) == Writer!nal_unit(n[k])
           p == [k \in 1..m |-> Prefix(u(k), size) \o u(k)]
           D == Writer!FlattenSeq(p)
<1>2. D = Writer!Sample(n, size)
  BY <1>0 DEF Writer!Sample, Writer!Each, Prefix, Digit
<1>3. ASSUME NEW k \in 1..m
      PROVE  /\ p[k] \in Seq(Octet) /\ Len(u(k)) \in Nat /\ Len(p[k]) = size + Len(u(k))
             /\ \A j \in 1..size : p[k][j] = Digit(Len(u(k)), size, j)
             /\ \A j \in 1..Len(u(k)) : p[k][size + j] = u(k)[j]
  <2> DEFINE v == u(k)
             q == Prefix(v, size)
  <2>1. v \in Seq(Octet)
    <3>1. LegalUnit(n[k])
      BY <1>0
    <3> QED BY <3>1, NalIs
  <2>2. p[k] = q \o v
    OBVIOUS
  <2> HIDE DEF v, p
  <2>3. q \in Seq(Octet) /\ Len(q) = size /\ \A j \in 1..size : q[j] = Digit(Len(v), size, j)
    BY <1>0, <2>1, PrefixIs
  <2> HIDE DEF q
  <2>4. /\ q \o v \in Seq(Octet) /\ Len(q) \in Nat /\ Len(v) \in Nat
             /\ Len(q \o v) = Len(q) + Len(v)
        /\ \A j \in 1..Len(q) : (q \o v)[j] = q[j]
        /\ \A j \in 1..Len(v) : (q \o v)[Len(q) + j] = v[j]
    <3>1. q \in Seq(Octet) /\ v \in Seq(Octet)
      BY <2>1, <2>3
    <3> QED BY ONLY <3>1, Concat
  <2> QED BY <2>2, <2>3, <2>4 DEF v
<1>4. Lists(p, Octet, m) /\ m = Len(p) /\ (m = 0 => p = <<>>)
  <2>1. \A k \in 1..m : p[k] \in Seq(Octet)
    BY <1>3
  <2>2. p \in [1..m -> Seq(Octet)]
    <3>1. p = [k \in 1..m |-> p[k]]
      OBVIOUS
    <3> HIDE DEF p
    <3> QED BY <2>1, <3>1
  <2> HIDE DEF p
  <2>3. Len(p) = m /\ (m = 0 => p = <<>>)
    BY ONLY <1>0, <2>2
  <2> QED BY <1>0, <2>1, <2>3 DEF Lists
<1> HIDE DEF p
<1>5. PICK a : D \in Seq(Octet) /\ Pieces(D, p, a, m)
  BY <1>4, Flattened
<1> HIDE DEF D
<1>6. /\ \A k \in 0..m : a[k] \in Nat /\ a[k] <= Len(D)
      /\ a[0] = 0 /\ a[m] = Len(D)
      /\ \A k \in 1..m : a[k] = a[k - 1] + Len(p[k])
      /\ \A k \in 1..m : \A j \in 1..Len(p[k]) : D[a[k - 1] + j] = p[k][j]
  <2>1. \A k \in 0..m : a[k] \in Nat /\ a[k] <= Len(D)
    BY <1>4, <1>5, PieceEnds
  <2> QED BY <1>5, <2>1 DEF Pieces
<1> HIDE DEF u
<1>7. ASSUME NEW k \in 1..m
      PROVE  /\ a[k] = a[k - 1] + size + Len(u(k))
             /\ \A j \in 1..size : D[a[k - 1] + j] = Digit(Len(u(k)), size, j)
             /\ \A j \in 1..Len(u(k)) : D[a[k - 1] + size + j] = u(k)[j]
  <2> DEFINE v == u(k)
             L == Len(v)
             x == a[k - 1]
             q == p[k]
             e == a[k]
  <2>1. k - 1 \in 0..m
    BY <1>0
  <2>2. /\ L \in Nat /\ Len(q) = size + L /\ x \in Nat /\ e = x + Len(q)
        /\ \A j \in 1..size : q[j] = Digit(L, size, j)
        /\ \A j \in 1..L : q[size + j] = v[j]
        /\ \A j \in 1..Len(q) : D[x + j] = q[j]
    BY <1>3, <1>6, <2>1
  <2> HIDE DEF v, L, x, q, e
  <2>3. e = x + size + L
    BY <1>1, <2>2
  <2>4. \A j \in 1..size : D[x + j] = Digit(L, size, j)
    <3> TAKE j \in 1..size
    <3>1. j \in 1..Len(q)
      BY <1>1, <2>2
    <3> QED BY <2>2, <3>1
  <2>5. \A j \in 1..L : D[x + size + j] = v[j]
    <3> TAKE j \in 1..L
    <3> DEFINE i == size + j
    <3>1. i \in 1..Len(q) /\ x + i = x + size + j
      BY <1>1, <2>2
    <3>2. q[i] = v[j]
      BY <2>2
    <3> HIDE DEF i
    <3>3. D[x + i] = q[i]
      BY <2>2, <3>1
    <3> QED BY <3>1, <3>2, <3>3
  <2> QED BY <2>3, <2>4, <2>5 DEF v, L, x, e
<1>8. Sampled(D, n, a, m, size)
  <2>1. D \in Seq(Octet)
    BY <1>5
  <2> QED BY <1>0, <1>6, <1>7, <2>1 DEF Sampled, u
<1> QED BY <1>2, <1>6, <1>8

(* A sample of which the last bytes are cut off, from its last unit.       *)
LEMMA CutSample ==
    ASSUME NEW D, NEW n, NEW a, NEW m, NEW size, Sampled(D, n, a, m, size), a[m] = Len(D), m > 0,
           NEW cut \in 1..size + Len(Writer!nal_unit(n[m]))
    PROVE  /\ Sampled(Uncut(D, cut), n, a, m - 1, size)
           /\ SampleEnds(Uncut(D, cut), a[m - 1], size)
<1> DEFINE u(k) == Writer!nal_unit(n[k])
           N == Len(D)
           L == Len(u(m))
           w == m - 1
           x == a[w]
           z == N - cut
           C == Uncut(D, cut)
<1>0. /\ D \in Seq(Octet) /\ m \in Nat /\ size \in LengthSizes /\ a[0] = 0
      /\ \A k \in 0..m : a[k] \in Nat /\ a[k] <= Len(D)
      /\ \A k \in 1..m :
           /\ LegalUnit(n[k]) /\ Len(u(k)) < 256 ^ size
           /\ a[k] = a[k - 1] + size + Len(u(k))
           /\ \A j \in 1..size : D[a[k - 1] + j] = Digit(Len(u(k)), size, j)
           /\ \A j \in 1..Len(u(k)) : D[a[k - 1] + size + j] = u(k)[j]
  BY DEF Sampled
<1>1. size \in Nat
  BY <1>0 DEF LengthSizes
<1>2. N \in Nat
  BY ONLY <1>0
<1>3. w \in Nat /\ m \in 1..m /\ m \in 0..m /\ w \in 0..m /\ \A k \in 0..w : k \in 0..m
  BY <1>0
<1>3a. \A k \in 1..w : k \in 1..m /\ k - 1 \in 0..w
  BY <1>0
<1>4. \A k \in 1..m : Len(u(k)) \in Nat
  <2> TAKE k \in 1..m
  <2> DEFINE v == u(k)
  <2>1. v \in Seq(Octet)
    <3>1. LegalUnit(n[k])
      BY <1>0
    <3> QED BY <3>1, NalIs
  <2> HIDE DEF v
  <2>2. Len(v) \in Nat
    BY ONLY <2>1
  <2> QED BY <2>2 DEF v
<1>5. x \in Nat /\ N = x + size + L /\ L \in Nat /\ L < 256 ^ size /\ cut \in 1..size + L
  BY <1>0, <1>3, <1>4
<1>6. z \in Nat /\ x <= z /\ z < x + size + L /\ z <= N
  <2> HIDE DEF N, x, L
  <2> QED BY ONLY <1>1, <1>2, <1>5
<1>7. C \in Seq(Octet) /\ Len(C) = z /\ \A j \in 1..z : C[j] = D[j]
  <2> HIDE DEF z
  <2> DEFINE s == SubSeq(D, 1, z)
  <2>1. D \in Seq(Octet) /\ z \in Nat /\ z <= Len(D)
    BY <1>0, <1>6
  <2>2. s \in Seq(Octet)
    BY ONLY <2>1
  <2>3. Len(s) = z
    BY ONLY <2>1
  <2>4. \A j \in 1..z : s[j] = D[j]
    BY ONLY <2>1
  <2> HIDE DEF s
  <2> QED BY <2>2, <2>3, <2>4 DEF Uncut, s, z
<1> HIDE DEF C, w, L, z, N, u
\* The units before the last end where it begins.
<1>8. \A k \in 0..w : a[k] <= x
  <2> DEFINE S == {i \in 0..w : a[w - i] <= x}
  <2>1. 0 \in S
    BY <1>3, <1>5
  <2>2. ASSUME NEW i \in 1..w, i - 1 \in S PROVE i \in S
    <3> DEFINE k == w - (i - 1)
    <3>1. k \in 1..w /\ k - 1 = w - i /\ i \in 0..w
      BY <1>3
    <3>2. a[k] <= x
      BY <2>2
    <3> HIDE DEF k
    <3> DEFINE y == a[k]
               y0 == a[k - 1]
               l == Len(u(k))
    <3>3. y = y0 + size + l /\ y \in Nat /\ y0 \in Nat /\ l \in Nat
      BY <1>0, <1>3, <1>3a, <1>4, <3>1
    <3> HIDE DEF y, y0, l, x, S
    <3>4. y0 <= x
      <4>1. y <= x
        BY <3>2 DEF y
      <4> QED BY ONLY <1>1, <1>5, <3>3, <4>1
    <3> QED BY <3>1, <3>4 DEF S, y0
  <2> HIDE DEF S
  <2>3. \A i \in 1..w : i - 1 \in S => i \in S
    BY <2>2
  <2>4. \A i \in 0..w : i \in S
    BY ONLY <1>3, <2>1, <2>3, EveryLength
  <2> TAKE k \in 0..w
  <2>5. w - k \in 0..w /\ w - (w - k) = k
    BY <1>3
  <2>6. w - k \in S
    BY <2>4, <2>5
  <2> QED BY <2>5, <2>6 DEF S
<1>9. ASSUME NEW k \in 1..w
      PROVE  /\ LegalUnit(n[k]) /\ Len(u(k)) < 256 ^ size
             /\ a[k] = a[k - 1] + size + Len(u(k))
             /\ \A j \in 1..size : C[a[k - 1] + j] = Digit(Len(u(k)), size, j)
             /\ \A j \in 1..Len(u(k)) : C[a[k - 1] + size + j] = u(k)[j]
  <2>1. k \in 1..m /\ k \in 0..w /\ k - 1 \in 0..w
    BY <1>3, <1>3a
  <2> DEFINE y == a[k]
             y0 == a[k - 1]
             l == Len(u(k))
  <2>2. y = y0 + size + l /\ y \in Nat /\ y0 \in Nat /\ l \in Nat /\ y <= x
    BY <1>0, <1>3, <1>4, <1>8, <2>1
  <2>3. /\ \A j \in 1..size : D[y0 + j] = Digit(l, size, j)
        /\ \A j \in 1..l : D[y0 + size + j] = u(k)[j]
    BY <1>0, <2>1
  <2>4. LegalUnit(n[k]) /\ Len(u(k)) < 256 ^ size /\ a[k] = a[k - 1] + size + Len(u(k))
    BY <1>0, <2>1
  <2> HIDE DEF y, y0, l, x
  <2>5. \A j \in 1..size : C[y0 + j] = Digit(l, size, j)
    <3> TAKE j \in 1..size
    <3> DEFINE i == y0 + j
    <3>1. i \in 1..z
      BY <1>1, <1>5, <1>6, <2>2
    <3>2. D[i] = Digit(l, size, j)
      BY <2>3
    <3> HIDE DEF i
    <3>3. C[i] = D[i]
      BY <1>7, <3>1
    <3> QED BY <3>2, <3>3 DEF i
  <2>6. \A j \in 1..l : C[y0 + size + j] = u(k)[j]
    <3> TAKE j \in 1..l
    <3> DEFINE i == y0 + size + j
    <3>1. i \in 1..z
      BY <1>1, <1>5, <1>6, <2>2
    <3>2. D[i] = u(k)[j]
      BY <2>3
    <3> HIDE DEF i
    <3>3. C[i] = D[i]
      BY <1>7, <3>1
    <3> QED BY <3>2, <3>3 DEF i
  <2> QED BY <2>4, <2>5, <2>6 DEF y0, l
<1>10. Sampled(C, n, a, w, size)
  <2>1. \A k \in 0..w : a[k] \in Nat /\ a[k] <= Len(C)
    <3> TAKE k \in 0..w
    <3> DEFINE y == a[k]
    <3>1. y \in Nat /\ y <= x
      BY <1>0, <1>3, <1>8
    <3> HIDE DEF y, x
    <3>2. y <= Len(C)
      BY <1>5, <1>6, <1>7, <3>1
    <3> QED BY <3>1, <3>2 DEF y
  <2> QED BY <1>0, <1>3, <1>7, <1>9, <2>1 DEF Sampled, u
<1>11. SampleEnds(C, x, size)
  <2> HIDE DEF x
  <2>1. SUFFICES ASSUME x + size <= z PROVE UnitEnd(C, x, size) > z
    BY <1>1, <1>5, <1>6, <1>7 DEF SampleEnds
  <2>2. \A j \in 1..size : D[x + j] = Digit(L, size, j)
    BY <1>0, <1>3 DEF x, w, L
  <2>3. \A j \in 1..size : C[x + j] = Digit(L, size, j)
    <3> TAKE j \in 1..size
    <3> DEFINE i == x + j
    <3>1. i \in 1..z
      BY <1>1, <1>5, <1>6, <2>1
    <3>2. D[i] = Digit(L, size, j)
      BY <2>2
    <3> HIDE DEF i
    <3>3. C[i] = D[i]
      BY <1>7, <3>1
    <3> QED BY <3>2, <3>3 DEF i
  <2>4. BigEndian(C, x, size) = L
    BY <1>0, <1>5, <1>7, <2>1, <2>3, NumberRead
  <2> QED BY <1>1, <1>5, <1>6, <2>4 DEF UnitEnd
<1> QED BY <1>10, <1>11 DEF C, w

-----------------------------------------------------------------------------
(* The avcC box.                                                           *)

\* D holds at off the unit n behind its length of two bytes.
Configured(D, off, n) ==
    /\ D \in Seq(Octet) /\ off \in Nat /\ LegalUnit(n) /\ Len(Writer!nal_unit(n)) < 256 ^ 2
    /\ off + 2 + Len(Writer!nal_unit(n)) <= Len(D)
    /\ \A j \in 1..2 : D[off + j] = Digit(Len(Writer!nal_unit(n)), 2, j)
    /\ \A j \in 1..Len(Writer!nal_unit(n)) : D[off + 2 + j] = Writer!nal_unit(n)[j]

(* One parameter set of an avcC box.                                       *)
LEMMA ConfigUnit ==
    ASSUME NEW D, NEW off, NEW n, Configured(D, off, n)
    PROVE  ConfigUnits(D, off, 1) = [ok |-> TRUE, off |-> off + 2 + Len(Writer!nal_unit(n)),
                                     units |-> <<AsRead(n, 0)>>]
<1> DEFINE u == Writer!nal_unit(n)
           L == Len(u)
           from == off + 2
           to == from + L
           g == AsRead(n, 0)
           first == [ok |-> TRUE, off |-> off, units |-> <<>>]
           second == [ok |-> TRUE, off |-> to, units |-> <<g>>]
           Step(got) ==
             IF ~got.ok \/ got.off + 2 > Len(D) THEN Truncated
             ELSE IF got.off + 2 + BigEndian(D, got.off, 2) > Len(D) THEN Truncated
             ELSE [ok |-> TRUE, off |-> got.off + 2 + BigEndian(D, got.off, 2),
                   units |-> got.units \o ParseNalBytes(Slice0(D, got.off + 2,
                                                   got.off + 2 + BigEndian(D, got.off, 2)))]
           Fix(r) == r = [k \in 0..1 |-> IF k = 0 THEN first ELSE Step(r[k - 1])]
           w == [k \in 0..1 |-> IF k = 0 THEN first ELSE second]
<1>0. /\ D \in Seq(Octet) /\ off \in Nat /\ LegalUnit(n) /\ L < 256 ^ 2 /\ to <= Len(D)
      /\ \A j \in 1..2 : D[off + j] = Digit(L, 2, j)
      /\ \A j \in 1..L : D[from + j] = u[j]
  BY DEF Configured
<1>1. u \in Seq(Octet) /\ L \in Nat
  <2>1. u \in Seq(Octet)
    BY <1>0, NalIs
  <2> HIDE DEF u
  <2> QED BY ONLY <2>1
<1>2. Len(D) \in Nat
  BY ONLY <1>0
<1> HIDE DEF u, L
<1>3. BigEndian(D, off, 2) = L
  <2>1. 2 \in LengthSizes /\ off + 2 <= Len(D)
    BY <1>0, <1>1, <1>2 DEF LengthSizes
  <2> QED BY <1>0, <1>1, <2>1, NumberRead
<1>4. ParseNalBytes(Slice0(D, from, to)) = <<g>>
  <2>0. from \in Nat /\ from + L + 0 = to /\ from + L + 0 <= Len(D)
    BY <1>0, <1>1
  <2>1. \A j \in from + L + 1..from + L + 0 : D[j] = 0
    BY <1>1, <2>0
  <2>2. 0 \in Nat
    OBVIOUS
  <2> HIDE DEF from, to
  <2>3. Slice0(D, from, from + L + 0) = Padded(u, 0)
    BY <1>0, <1>1, <2>0, <2>1, <2>2, SlicePadded DEF L
  <2>4. ParseNalBytes(Padded(u, 0)) = <<g>>
    BY <1>0, <2>2, NalParsed DEF u
  <2> QED BY <2>0, <2>3, <2>4
<1> HIDE DEF g
<1>5. Step(first) = second
  <2>1. ~ (~first.ok \/ first.off + 2 > Len(D)) /\ first.off = off /\ first.units = <<>>
    BY <1>0, <1>1, <1>2
  <2>2. <<>> \o <<g>> = <<g>>
    OBVIOUS
  <2>3. ~ (to > Len(D))
    BY <1>0, <1>1, <1>2
  <2> HIDE DEF first
  <2> QED BY <1>3, <1>4, <2>1, <2>2, <2>3
<1>6. Fix(w)
  <2>1. \A k \in 0..1 : w[k] = IF k = 0 THEN first ELSE Step(w[k - 1])
    <3> TAKE k \in 0..1
    <3>1. CASE k = 0
      BY <3>1
    <3>2. CASE k = 1
      <4>1. w[k] = second /\ w[k - 1] = first
        BY <3>2
      <4> HIDE DEF w, first, second, Step
      <4> QED BY <1>5, <3>2, <4>1
    <3> QED BY <3>1, <3>2
  <2>2. w = [k \in 0..1 |-> w[k]]
    OBVIOUS
  <2> HIDE DEF w, first, second, Step
  <2>3. [k \in 0..1 |-> w[k]] = [k \in 0..1 |-> IF k = 0 THEN first ELSE Step(w[k - 1])]
    BY <2>1
  <2> QED BY <2>2, <2>3
<1> DEFINE c == CHOOSE r : Fix(r)
<1>7. Fix(c)
  <2>1. \E r : Fix(r)
    <3> HIDE DEF Fix
    <3> QED BY <1>6
  <2> HIDE DEF Fix
  <2> QED BY <2>1
<1>8. ConfigUnits(D, off, 1) = c[1]
  BY Zenon DEF ConfigUnits
<1> HIDE DEF c
<1>9. c[1] = second
  <2> HIDE DEF first, second, Step
  <2>1. c[0] = first
    BY <1>7
  <2>2. c[1] = Step(c[1 - 1]) /\ 1 - 1 = 0
    BY <1>7
  <2> QED BY <1>5, <2>1, <2>2
<1> QED BY <1>8, <1>9 DEF L, u, g

(* A parameter set of an avcC box behind its length.                       *)
LEMMA OneUnit ==
    ASSUME NEW n, LegalUnit(n), NEW size \in LengthSizes, Len(Writer!nal_unit(n)) < 256 ^ size
    PROVE  /\ Writer!Sample(<<n>>, size) \in Seq(Octet)
           /\ Len(Writer!Sample(<<n>>, size)) = size + Len(Writer!nal_unit(n))
           /\ \A j \in 1..size :
                Writer!Sample(<<n>>, size)[j] = Digit(Len(Writer!nal_unit(n)), size, j)
           /\ \A j \in 1..Len(Writer!nal_unit(n)) :
                Writer!Sample(<<n>>, size)[size + j] = Writer!nal_unit(n)[j]
<1> DEFINE q == <<n>>
           D == Writer!Sample(q, size)
           u == Writer!nal_unit(n)
           L == Len(u)
<1>1. Len(q) = 1 /\ q[1] = n
  OBVIOUS
<1>2. \A k \in 1..1 : k = 1
  OBVIOUS
<1> HIDE DEF q
<1>3. Units(q, 1) /\ AllFit(q, 1, size)
  BY <1>1, <1>2 DEF Units, AllFit
<1>4. PICK a : Sampled(D, q, a, 1, size) /\ a[1] = Len(D)
  BY <1>3, SampleLaid
<1> HIDE DEF D
<1>5. 1 \in 1..1 /\ 1 - 1 = 0
  OBVIOUS
<1>6. /\ D \in Seq(Octet) /\ a[0] = 0 /\ Len(D) = a[0] + size + L
      /\ \A j \in 1..size : D[a[0] + j] = Digit(L, size, j)
      /\ \A j \in 1..L : D[a[0] + size + j] = u[j]
  BY <1>1, <1>4, <1>5 DEF Sampled
<1>7. size \in Nat
  BY DEF LengthSizes
<1>8. L \in Nat
  <2>1. u \in Seq(Octet)
    BY NalIs
  <2> HIDE DEF u
  <2> QED BY ONLY <2>1
<1> HIDE DEF L, u
<1>9. \A j \in 1..size : D[j] = Digit(L, size, j)
  <2> TAKE j \in 1..size
  <2>1. 0 + j = j
    BY <1>7
  <2> QED BY <1>6, <2>1
<1>10. \A j \in 1..L : D[size + j] = u[j]
  <2> TAKE j \in 1..L
  <2>1. 0 + size + j = size + j
    BY <1>7, <1>8
  <2> QED BY <1>6, <2>1
<1>11. Len(D) = size + L
  BY <1>6, <1>7, <1>8
<1> QED BY <1>6, <1>9, <1>10, <1>11 DEF D, q, L, u

Short(n) == LegalUnit(n) /\ Len(Writer!nal_unit(n)) < 256 ^ 2
BoxStart(size) == <<1, 100, 0, 40, 252 + size - 1, 224 + 1>>

(* The six bytes an avcC box starts with.                                  *)
LEMMA BoxStartIs ==
    ASSUME NEW size \in LengthSizes
    PROVE  /\ BoxStart(size) \in Seq(Octet) /\ Len(BoxStart(size)) = 6
           /\ BoxStart(size)[1] = 1 /\ (BoxStart(size)[5] % 4) + 1 = size
           /\ BoxStart(size)[6] % 32 = 1
<1> DEFINE x == 252 + size - 1
           y == 224 + 1
<1>1. x \in 0..255 /\ (x % 4) + 1 = size
  BY DEF LengthSizes
<1>2. y \in 0..255 /\ y % 32 = 1 /\ 1 \in 0..255 /\ 100 \in 0..255 /\ 0 \in 0..255 /\ 40 \in 0..255
  OBVIOUS
<1>3. x \in Octet /\ y \in Octet /\ 1 \in Octet /\ 100 \in Octet /\ 0 \in Octet /\ 40 \in Octet
  BY <1>1, <1>2 DEF Octet
<1> HIDE DEF x, y
<1> DEFINE h == <<1, 100, 0, 40, x, y>>
<1>4. h \in Seq(Octet)
  BY ONLY <1>3
<1>5. Len(h) = 6 /\ h[1] = 1 /\ h[5] = x /\ h[6] = y
  OBVIOUS
<1>6. h = BoxStart(size)
  BY DEF BoxStart, x, y
<1> HIDE DEF h
<1> QED BY <1>1, <1>2, <1>4, <1>5, <1>6

\* A box D with the parameter sets p and q.
Boxed(D, p, q, size) ==
    /\ D \in Seq(Octet) /\ Len(D) >= 7 /\ D[1] = 1 /\ (D[5] % 4) + 1 = size /\ D[6] % 32 = 1
    /\ Configured(D, 6, p)
    /\ 8 + Len(Writer!nal_unit(p)) \in Nat /\ 8 + Len(Writer!nal_unit(p)) < Len(D)
    /\ D[8 + Len(Writer!nal_unit(p)) + 1] = 1
    /\ Configured(D, 8 + Len(Writer!nal_unit(p)) + 1, q)

(* The bytes of an avcC box.                                               *)
LEMMA BoxLaid ==
    ASSUME NEW p, NEW q, Short(p), Short(q), NEW size \in LengthSizes
    PROVE  Boxed(Writer!avcC(<<p>>, <<q>>, size), p, q, size)
<1> DEFINE h == BoxStart(size)
           s == Writer!Sample(<<p>>, 2)
           t == Writer!Sample(<<q>>, 2)
           one == <<1>>
           u == Writer!nal_unit(p)
           v == Writer!nal_unit(q)
           L == Len(u)
           M == Len(v)
           x == h \o s \o one
           D == x \o t
<1>1. D = Writer!avcC(<<p>>, <<q>>, size)
  <2>1. Len(<<p>>) = 1 /\ Len(<<q>>) = 1
    OBVIOUS
  <2> QED BY <2>1 DEF Writer!avcC, BoxStart
<1>2. 2 \in LengthSizes /\ LegalUnit(p) /\ LegalUnit(q) /\ L < 256 ^ 2 /\ M < 256 ^ 2
  BY DEF LengthSizes, Short
<1>3. L \in Nat /\ M \in Nat
  <2>1. u \in Seq(Octet) /\ v \in Seq(Octet)
    BY <1>2, NalIs
  <2> HIDE DEF u, v
  <2> QED BY ONLY <2>1
<1>4. /\ h \in Seq(Octet) /\ Len(h) = 6
      /\ h[1] = 1 /\ (h[5] % 4) + 1 = size /\ h[6] % 32 = 1
  BY BoxStartIs
<1>5. /\ s \in Seq(Octet) /\ Len(s) = 2 + L
      /\ \A j \in 1..2 : s[j] = Digit(L, 2, j)
      /\ \A j \in 1..L : s[2 + j] = u[j]
  BY <1>2, OneUnit
<1>6. /\ t \in Seq(Octet) /\ Len(t) = 2 + M
      /\ \A j \in 1..2 : t[j] = Digit(M, 2, j)
      /\ \A j \in 1..M : t[2 + j] = v[j]
  BY <1>2, OneUnit
<1>7. one \in Seq(Octet) /\ Len(one) = 1 /\ one[1] = 1
  <2>1. 1 \in Octet
    BY DEF Octet
  <2> QED BY ONLY <2>1
<1> HIDE DEF h, s, t, one, u, v, L, M
<1>8. /\ x \in Seq(Octet) /\ Len(x) = 6 + (2 + L) + 1
      /\ \A j \in 1..6 : x[j] = h[j]
      /\ \A j \in 1..2 + L : x[6 + j] = s[j]
      /\ \A j \in 1..1 : x[6 + (2 + L) + j] = one[j]
  <2>1. Three(x, h, s, one)
    BY <1>4, <1>5, <1>7, ThreeIs
  <2> HIDE DEF x
  <2> QED BY <1>4, <1>5, <1>7, <2>1 DEF Three
<1> HIDE DEF x
<1>9. /\ D \in Seq(Octet) /\ Len(D) = Len(x) + Len(t)
      /\ \A j \in 1..Len(x) : D[j] = x[j]
      /\ \A j \in 1..Len(t) : D[Len(x) + j] = t[j]
  <2>1. x \in Seq(Octet) /\ t \in Seq(Octet)
    BY <1>6, <1>8
  <2> QED BY ONLY <2>1, Concat
<1> HIDE DEF D
<1>10. Len(x) = 9 + L /\ Len(D) = 11 + L + M
  BY <1>3, <1>6, <1>8, <1>9
<1>11. D[1] = 1 /\ (D[5] % 4) + 1 = size /\ D[6] % 32 = 1 /\ Len(D) >= 7
  <2>1. 1 \in 1..6 /\ 5 \in 1..6 /\ 6 \in 1..6 /\ 1 \in 1..Len(x) /\ 5 \in 1..Len(x)
            /\ 6 \in 1..Len(x)
    BY <1>3, <1>10
  <2>2. D[1] = h[1] /\ D[5] = h[5] /\ D[6] = h[6]
    BY <1>8, <1>9, <2>1
  <2>3. Len(D) >= 7
    BY <1>3, <1>10
  <2> QED BY <1>4, <2>2, <2>3
<1>12. \A j \in 1..2 + L : D[6 + j] = s[j]
  <2> TAKE j \in 1..2 + L
  <2> DEFINE i == 6 + j
  <2>1. i \in 1..Len(x)
    BY <1>3, <1>10
  <2>2. x[i] = s[j]
    BY <1>8
  <2> HIDE DEF i
  <2>3. D[i] = x[i]
    BY <1>9, <2>1
  <2> QED BY <2>2, <2>3 DEF i
<1>13. Configured(D, 6, p)
  <2>1. \A j \in 1..2 : D[6 + j] = Digit(L, 2, j)
    <3> TAKE j \in 1..2
    <3>1. j \in 1..2 + L
      BY <1>3
    <3> QED BY <1>5, <1>12, <3>1
  <2>2. \A j \in 1..L : D[6 + 2 + j] = u[j]
    <3> TAKE j \in 1..L
    <3> DEFINE i == 2 + j
    <3>1. i \in 1..2 + L /\ 6 + i = 6 + 2 + j
      BY <1>3
    <3>2. s[i] = u[j]
      BY <1>5
    <3> HIDE DEF i
    <3>3. D[6 + i] = s[i]
      BY <1>12, <3>1
    <3> QED BY <3>1, <3>2, <3>3
  <2>3. 6 + 2 + L <= Len(D) /\ 6 \in Nat
    BY <1>3, <1>10
  <2> QED BY <1>2, <1>9, <2>1, <2>2, <2>3 DEF Configured, u, L
<1>14. D[8 + L + 1] = 1
  <2> DEFINE i == 8 + L + 1
  <2>1. i \in 1..Len(x) /\ 6 + (2 + L) + 1 = i /\ 1 \in 1..1
    BY <1>3, <1>10
  <2>2. x[i] = 1
    BY <1>7, <1>8, <2>1
  <2> HIDE DEF i
  <2>3. D[i] = x[i]
    BY <1>9, <2>1
  <2> QED BY <2>2, <2>3 DEF i
<1>15. Configured(D, 8 + L + 1, q)
  <2> DEFINE z == 8 + L + 1
  <2>0. z = Len(x) /\ z \in Nat /\ z + 2 + M <= Len(D)
    BY <1>3, <1>10
  <2>1. \A j \in 1..2 : D[z + j] = Digit(M, 2, j)
    <3> TAKE j \in 1..2
    <3>1. j \in 1..Len(t)
      BY <1>3, <1>6
    <3> HIDE DEF z
    <3> QED BY <1>6, <1>9, <2>0, <3>1
  <2>2. \A j \in 1..M : D[z + 2 + j] = v[j]
    <3> TAKE j \in 1..M
    <3> DEFINE i == 2 + j
    <3>1. i \in 1..Len(t) /\ z + i = z + 2 + j
      BY <1>3, <1>6
    <3>2. t[i] = v[j]
      BY <1>6
    <3> HIDE DEF i, z
    <3>3. D[z + i] = t[i]
      BY <1>9, <2>0, <3>1
    <3> QED BY <3>1, <3>2, <3>3
  <2> HIDE DEF z
  <2>3. Configured(D, z, q)
    BY <1>2, <1>9, <2>0, <2>1, <2>2 DEF Configured, v, M
  <2> QED BY <2>3 DEF z
<1>16. 8 + L \in Nat /\ 8 + L < Len(D)
  BY <1>3, <1>10
<1>17. Boxed(D, p, q, size)
  BY <1>9, <1>11, <1>13, <1>14, <1>15, <1>16 DEF Boxed, L, u
<1> QED BY <1>1, <1>17

(* parse_avcc_config gives the length size and the parameter sets.         *)
LEMMA BoxRead ==
    ASSUME NEW D, NEW p, NEW q, NEW size \in LengthSizes, Boxed(D, p, q, size)
    PROVE  ParseAvccConfig(D) = [ok |-> TRUE, size |-> size,
                                 sps |-> <<AsRead(p, 0)>>, pps |-> <<AsRead(q, 0)>>]
<1> DEFINE L == Len(Writer!nal_unit(p))
           M == Len(Writer!nal_unit(q))
           S == [ok |-> TRUE, off |-> 6 + 2 + L, units |-> <<AsRead(p, 0)>>]
           P == [ok |-> TRUE, off |-> 8 + L + 1 + 2 + M, units |-> <<AsRead(q, 0)>>]
<1>1. /\ D \in Seq(Octet) /\ Len(D) >= 7 /\ D[1] = 1 /\ (D[5] % 4) + 1 = size /\ D[6] % 32 = 1
      /\ Configured(D, 6, p)
      /\ 8 + L \in Nat /\ 8 + L < Len(D) /\ D[8 + L + 1] = 1
      /\ Configured(D, 8 + L + 1, q)
  BY DEF Boxed
<1>2. ConfigUnits(D, 6, 1) = S
  BY <1>1, ConfigUnit
<1>3. ConfigUnits(D, 8 + L + 1, 1) = P
  BY <1>1, ConfigUnit
<1>4. L \in Nat
  <2> DEFINE u == Writer!nal_unit(p)
  <2>1. u \in Seq(Octet)
    BY <1>1, NalIs DEF Configured
  <2> HIDE DEF u
  <2>2. Len(u) \in Nat
    BY ONLY <2>1
  <2> QED BY <2>2 DEF u
<1>5. Len(D) \in Nat
  BY ONLY <1>1
<1> HIDE DEF L, M
<1>6. 6 + 2 + L = 8 + L
  BY <1>4
<1>7. At0(D, 0) = 1 /\ (At0(D, 4) % 4) + 1 = size /\ At0(D, 5) % 32 = 1 /\ ~ (Len(D) < 7)
      /\ At0(D, 8 + L) = 1
  <2>1. 0 + 1 = 1 /\ 4 + 1 = 5 /\ 5 + 1 = 6
    OBVIOUS
  <2>2. ~ (Len(D) < 7)
    BY <1>1, <1>5
  <2> QED BY <1>1, <2>1, <2>2 DEF At0
<1>8. ParseAvccConfig(D) = ConfigAfterSps(D, size, S)
  <2> HIDE DEF S
  <2> QED BY <1>2, <1>7 DEF ParseAvccConfig
<1>9. S.ok /\ S.off = 8 + L /\ ~ (S.off >= Len(D)) /\ S.units = <<AsRead(p, 0)>>
  <2>1. S.ok /\ S.off = 6 + 2 + L /\ S.units = <<AsRead(p, 0)>>
    OBVIOUS
  <2> HIDE DEF S
  <2> QED BY <1>1, <1>4, <1>5, <1>6, <2>1
<1>10. P.ok /\ P.units = <<AsRead(q, 0)>>
  OBVIOUS
<1> HIDE DEF S, P
<1>11. ConfigAfterSps(D, size, S) = ConfigOf(size, S, P)
  BY <1>3, <1>7, <1>9 DEF ConfigAfterSps
<1>12. ConfigOf(size, S, P) = [ok |-> TRUE, size |-> size, sps |-> S.units, pps |-> P.units]
  BY <1>10 DEF ConfigOf
<1> QED BY <1>8, <1>9, <1>10, <1>11, <1>12

-----------------------------------------------------------------------------
(* What is read is what was sent.                                          *)

(* What is asked of the length of a unit, as a bound.                      *)
LEMMA FitsIs ==
    ASSUME NEW n, LegalUnit(n), NEW size \in LengthSizes, Fits(n, size)
    PROVE  Len(Writer!nal_unit(n)) < 256 ^ size
<1> DEFINE u == Writer!nal_unit(n)
           L == Len(u)
<1>1. L \in Nat
  <2>1. u \in Seq(Octet)
    BY NalIs
  <2> HIDE DEF u
  <2> QED BY ONLY <2>1
<1>2. L \div (256 ^ (size - 1)) < 256
  BY DEF Fits
<1> HIDE DEF L
<1>0. size = 1 \/ size = 2 \/ size = 4
  BY DEF LengthSizes
<1>3. CASE size = 1
  <2>1. 256 ^ (1 - 1) = 1 /\ 256 ^ 1 = 256
    BY SMT
  <2>2. L \div 1 < 256
    BY SMT, <1>2, <1>3, <2>1
  <2>3. L < 256
    BY SMT, <1>1, <2>2
  <2> QED BY SMT, <1>3, <2>1, <2>3 DEF L, u
<1>4. CASE size = 2
  <2>1. 256 ^ (2 - 1) = 256 /\ 256 ^ 2 = 65536
    BY SMT
  <2>2. L \div 256 < 256
    BY SMT, <1>2, <1>4, <2>1
  <2>3. L < 65536
    BY SMT, <1>1, <2>2
  <2> QED BY SMT, <1>4, <2>1, <2>3 DEF L, u
<1>5. CASE size = 4
  <2>1. 256 ^ (4 - 1) = 16777216 /\ 256 ^ 4 = 4294967296
    BY SMT
  <2>2. L \div 16777216 < 256
    BY SMT, <1>2, <1>5, <2>1
  <2>3. L < 4294967296
    BY SMT, <1>1, <2>2
  <2> QED BY SMT, <1>5, <2>1, <2>3 DEF L, u
<1> QED BY <1>0, <1>3, <1>4, <1>5

(* Zero bytes behind an RBSP are not significant.                          *)
LEMMA SameRead ==
    ASSUME NEW n, LegalUnit(n), NEW t \in Nat
    PROVE  SameUnit(AsRead(n, t), n)
<1> DEFINE r == n.rbsp
           L == Len(r)
           P == Padded(r, t)
           S == {0} \cup {k \in 1..L : r[k] # 0}
           Z == {0} \cup {k \in 1..Len(P) : P[k] # 0}
<1>0. r \in Seq(Octet)
  BY DEF LegalUnit, Octet
<1>1. L \in Nat
  BY ONLY <1>0
<1>2. /\ P \in Seq(Octet) /\ Len(P) = L + t
      /\ \A j \in 1..L : P[j] = r[j]
      /\ \A j \in L + 1..L + t : P[j] = 0
  BY <1>0, PaddedIs
<1>3. AsRead(n, t).ref = n.ref /\ AsRead(n, t).type = n.type /\ AsRead(n, t).rbsp = P
  BY DEF AsRead
<1> HIDE DEF r, L, P
<1>4. Z = S
  <2>1. \A k \in 1..Len(P) : k \in 1..L \/ k \in L + 1..L + t
    BY <1>1, <1>2
  <2>2. \A k \in 1..L : k \in 1..Len(P)
    BY <1>1, <1>2
  <2> QED BY <1>2, <2>1, <2>2
<1>5. S \in SUBSET (0..L) /\ S # {}
  BY <1>1
<1> HIDE DEF Z, S
<1>6. PICK m \in S : \A x \in S : x <= m
  BY <1>1, <1>5, GreatestExists
<1>7. m \in 0..L /\ S \in SUBSET Int
  BY <1>5
<1>8. Max(S) = m
  BY <1>6, <1>7, MaxIs
<1> DEFINE a == SubSeq(P, 1, m)
           b == SubSeq(r, 1, m)
<1>9. a \in Seq(Octet) /\ Len(a) = m /\ \A j \in 1..m : a[j] = P[j]
  <2>1. P \in Seq(Octet) /\ m \in Nat /\ m <= Len(P)
    BY <1>1, <1>2, <1>7
  <2>2. a \in Seq(Octet)
    BY ONLY <2>1
  <2>3. Len(a) = m
    BY ONLY <2>1
  <2>4. \A j \in 1..m : a[j] = P[j]
    BY ONLY <2>1
  <2> QED BY <2>2, <2>3, <2>4
<1>10. b \in Seq(Octet) /\ Len(b) = m /\ \A j \in 1..m : b[j] = r[j]
  <2>1. r \in Seq(Octet) /\ m \in Nat /\ m <= Len(r)
    BY <1>0, <1>1, <1>7 DEF L
  <2>2. b \in Seq(Octet)
    BY ONLY <2>1
  <2>3. Len(b) = m
    BY ONLY <2>1
  <2>4. \A j \in 1..m : b[j] = r[j]
    BY ONLY <2>1
  <2> QED BY <2>2, <2>3, <2>4
<1> HIDE DEF a, b
<1>11. a = b
  <2>1. \A j \in 1..m : a[j] = b[j]
    <3>1. \A j \in 1..m : j \in 1..L
      BY <1>1, <1>7
    <3> QED BY <1>2, <1>9, <1>10, <3>1
  <2>2. a \in Seq(Octet) /\ b \in Seq(Octet) /\ Len(a) = Len(b) /\ \A j \in 1..Len(a) : a[j] = b[j]
    BY <1>9, <1>10, <2>1
  <2> QED BY ONLY <2>2, SeqEqual
<1>12. Significant(P) = a
  BY <1>4, <1>8 DEF Significant, Z, a
<1>13. Significant(r) = b
  BY <1>8 DEF Significant, S, b, L
<1> QED BY <1>3, <1>11, <1>12, <1>13 DEF SameUnit, r

\* us are the first w of the units n.
Gives(us, n, w) == Len(us) = w /\ \A k \in 1..w : SameUnit(us[k], n[k])

(* The units of a legal stream are legal.                                  *)
LEMMA UnitsSent ==
    ASSUME NEW s, LegalStream(s)
    PROVE  /\ Units(Sent(s), Len(s.order)) /\ Len(s.order) \in Nat
           /\ \A k \in 1..Len(s.order) : Sent(s)[k] = Unit(s, s.order[k])
<1> DEFINE m == Len(s.order)
           n == Sent(s)
<1>1. m \in Nat
  <2>1. s.order \in Seq({"sps", "pps", "sei", "slice"})
    BY DEF LegalStream
  <2> QED BY ONLY <2>1
<1>2. \A k \in 1..m : LegalUnit(Unit(s, s.order[k]))
  BY DEF LegalStream
<1> HIDE DEF m
<1>3. n = [k \in 1..m |-> Unit(s, s.order[k])]
  BY DEF Sent, m
<1> HIDE DEF n
<1>4. Len(n) = m
  BY <1>1, <1>3
<1>5. \A k \in 1..m : n[k] = Unit(s, s.order[k])
  BY <1>3
<1>6. Units(n, m)
  BY <1>1, <1>2, <1>4, <1>5 DEF Units
<1> QED BY <1>1, <1>5, <1>6 DEF m, n

(* parse_annex_b gives back the units of a stream, whatever they hold.     *)
LEMMA AnnexBGives ==
    ASSUME NEW n, NEW m, Units(n, m), NEW f, LegalAnnexB(f)
    PROVE  Gives(ParseAnnexB(Writer!ByteStream(n, f)), n, m)
<1> DEFINE D == Writer!ByteStream(n, f)
<1>1. AnnexBFraming(f)
  BY ZerosAre, StartsAre DEF LegalAnnexB, AnnexBFraming
<1>2. PICK b, e : Laid(D, n, b, e, m)
  BY <1>1, ByteStreamLaid
<1>3. ParseAnnexB(D) = ReadUnits(D, n, e, m)
  BY <1>2, AnnexBRead
<1> HIDE DEF D
<1>4. m \in Nat /\ (\A k \in 1..m : LegalUnit(n[k]))
  BY DEF Units
<1>5. Len(D) \in Nat /\ \A k \in 0..m : e[k] \in Nat /\ e[k] <= Len(D)
  <2>1. D \in Seq(Octet)
    BY <1>2 DEF Laid
  <2>2. Len(D) \in Nat
    BY ONLY <2>1
  <2> QED BY <1>2, <2>2 DEF Laid
<1> DEFINE R == ReadUnits(D, n, e, m)
           t(k) == IF k = m THEN Len(D) - e[k] ELSE 0
<1>6. ASSUME NEW k \in 1..m PROVE t(k) \in Nat
  <2>1. k \in 0..m
    BY <1>4
  <2> QED BY <1>5, <2>1
<1>7. R = [k \in 1..m |-> AsRead(n[k], t(k))]
  BY DEF ReadUnits
<1> HIDE DEF R, t
<1>8. Len(R) = m
  BY <1>4, <1>7
<1>9. \A k \in 1..m : SameUnit(R[k], n[k])
  <2> TAKE k \in 1..m
  <2>1. R[k] = AsRead(n[k], t(k))
    BY <1>7
  <2>2. LegalUnit(n[k]) /\ t(k) \in Nat
    BY <1>4, <1>6
  <2>3. SameUnit(AsRead(n[k], t(k)), n[k])
    BY <2>2, SameRead
  <2> QED BY <2>1, <2>3
<1> QED BY <1>3, <1>8, <1>9 DEF Gives, R, D

(* Units that are read without zeros behind them are those that were       *)
(* sent.                                                                   *)
LEMMA ReadGives ==
    ASSUME NEW n, NEW m, Units(n, m), NEW w \in 0..m
    PROVE  Gives(ReadSample(n, w), n, w)
<1>1. m \in Nat /\ \A k \in 1..m : LegalUnit(n[k])
  BY DEF Units
<1> DEFINE R == ReadSample(n, w)
<1>2. R = [k \in 1..w |-> AsRead(n[k], 0)]
  BY DEF ReadSample
<1> HIDE DEF R
<1>3. w \in Nat /\ \A k \in 1..w : k \in 1..m
  BY <1>1
<1>4. Len(R) = w
  BY <1>2, <1>3
<1>5. \A k \in 1..w : SameUnit(R[k], n[k])
  <2> TAKE k \in 1..w
  <2>1. R[k] = AsRead(n[k], 0)
    BY <1>2
  <2>2. LegalUnit(n[k]) /\ 0 \in Nat
    BY <1>1, <1>3
  <2>3. SameUnit(AsRead(n[k], 0), n[k])
    BY <2>2, SameRead
  <2> QED BY <2>1, <2>3
<1> QED BY <1>4, <1>5 DEF Gives, R

AllRead(f, m) == IF Whole(f) THEN m ELSE m - 1

(* parse_avcc gives back the units of a sample that are whole.             *)
LEMMA AvccGives ==
    ASSUME NEW n, NEW m, Units(n, m), NEW f, f.kind = "avcc",
           LegalSample(n, f.size), LegalCut(n, f)
    PROVE  Gives(ParseAvcc(Uncut(Writer!Sample(n, f.size), f.cut), f.size), n, AllRead(f, m))
<1> DEFINE size == f.size
           cut == f.cut
           D == Writer!Sample(n, size)
<1>0. m \in Nat /\ Len(n) = m /\ \A k \in 1..m : LegalUnit(n[k])
  BY DEF Units
<1>1. size \in LengthSizes /\ \A k \in 1..m : Fits(n[k], size)
  BY <1>0 DEF LegalSample
<1>2. AllFit(n, m, size)
  <2>1. \A k \in 1..m : Len(Writer!nal_unit(n[k])) < 256 ^ size
    <3> TAKE k \in 1..m
    <3>1. LegalUnit(n[k]) /\ Fits(n[k], size)
      BY <1>0, <1>1
    <3> HIDE DEF size
    <3> QED BY <1>1, <3>1, FitsIs
  <2> QED BY <1>1, <2>1 DEF AllFit
<1>3. PICK a : Sampled(D, n, a, m, size) /\ a[m] = Len(D)
  BY <1>2, SampleLaid
<1>4. cut = 0 \/ (m > 0 /\ cut \in 1..size + Len(Writer!nal_unit(n[m])))
  BY <1>0 DEF LegalCut
<1>5. D \in Seq(Octet)
  BY <1>3 DEF Sampled
<1> HIDE DEF D
<1>6. Len(D) \in Nat
  BY ONLY <1>5
<1>7. size \in Nat /\ size >= 1
  BY <1>1 DEF LengthSizes
<1>8. Whole(f) <=> cut = 0
  BY DEF Whole
<1> HIDE DEF size, cut
<1>9. CASE cut = 0
  <2>1. Uncut(D, cut) = D
    <3> DEFINE s == SubSeq(D, 1, Len(D))
    <3>1. s \in Seq(Octet) /\ Len(s) = Len(D) /\ \A j \in 1..Len(s) : s[j] = D[j]
      BY ONLY <1>5
    <3> HIDE DEF s
    <3>2. s = D
      BY ONLY <1>5, <3>1, SeqEqual
    <3>3. Len(D) - cut = Len(D)
      BY <1>6, <1>9
    <3> QED BY <3>2, <3>3 DEF Uncut, s
  <2>2. SampleEnds(D, a[m], size)
    BY <1>3, <1>6, <1>7 DEF SampleEnds
  <2>3. ParseAvcc(D, size) = ReadSample(n, m)
    BY <1>3, <2>2, AvccRead
  <2>4. Gives(ReadSample(n, m), n, m)
    <3>1. m \in 0..m
      BY <1>0
    <3> QED BY <3>1, ReadGives
  <2> QED BY <1>8, <1>9, <2>1, <2>3, <2>4 DEF AllRead, D, size, cut
<1>10. CASE cut # 0
  <2> DEFINE w == m - 1
             C == Uncut(D, cut)
  <2>1. m > 0 /\ cut \in 1..size + Len(Writer!nal_unit(n[m])) /\ w \in 0..m
    BY <1>0, <1>4, <1>10
  <2>2. Sampled(C, n, a, w, size) /\ SampleEnds(C, a[w], size)
    BY <1>3, <2>1, CutSample
  <2> HIDE DEF w, C
  <2>3. ParseAvcc(C, size) = ReadSample(n, w)
    BY <2>2, AvccRead
  <2>4. Gives(ReadSample(n, w), n, w)
    BY <2>1, ReadGives
  <2> QED BY <1>8, <1>10, <2>3, <2>4 DEF AllRead, D, C, w, size, cut
<1> QED BY <1>9, <1>10

\* The units behind the first two, and what is read of all.

(* The units behind the parameter sets of an avcC box.                     *)
LEMMA TailUnits ==
    ASSUME NEW s, LegalStream(s), Len(s.order) >= 2
    PROVE  /\ Units(SubSeq(Sent(s), 3, Len(s.order)), Len(s.order) - 2)
           /\ \A k \in 1..Len(s.order) - 2 :
                SubSeq(Sent(s), 3, Len(s.order))[k] = Sent(s)[k + 2]
<1> DEFINE m == Len(s.order)
           n == Sent(s)
           T == {n[k] : k \in 1..m}
           q == SubSeq(n, 3, m)
<1>1. Units(n, m) /\ m \in Nat
  BY UnitsSent
<1>2. m >= 2
  OBVIOUS
<1>3. n \in Seq(T)
  <2>1. n = [k \in 1..m |-> Unit(s, s.order[k])]
    BY DEF Sent
  <2> HIDE DEF n, m
  <2>2. n \in [1..m -> T]
    BY <2>1
  <2> HIDE DEF T
  <2> QED BY ONLY <1>1, <2>2
<1>4. Len(n) = m /\ \A k \in 1..m : LegalUnit(n[k])
  BY <1>1 DEF Units
<1> HIDE DEF m, n, T
<1>5. Len(q) = m - 2 /\ \A k \in 1..m - 2 : q[k] = n[k + 2]
  <2>1. n \in Seq(T) /\ m \in Nat /\ m >= 2 /\ m = Len(n)
    BY <1>1, <1>2, <1>3, <1>4
  <2>2. Len(q) = m - 2
    BY ONLY <2>1
  <2>3. \A k \in 1..m - 2 : q[k] = n[3 + k - 1]
    BY ONLY <2>1
  <2>4. \A k \in 1..m - 2 : 3 + k - 1 = k + 2
    BY <2>1
  <2> HIDE DEF q
  <2> QED BY <2>2, <2>3, <2>4
<1> HIDE DEF q
<1>6. \A k \in 1..m - 2 : k + 2 \in 1..m
  BY <1>1
<1>7. Units(q, m - 2)
  BY <1>1, <1>2, <1>4, <1>5, <1>6 DEF Units
<1> QED BY <1>5, <1>7 DEF q, m, n

(* parse_avcc_config and parse_avcc together give back parameter sets and  *)
(* units.                                                                  *)
LEMMA Mp4Gives ==
    ASSUME NEW s, LegalStream(s), NEW size, LegalSample(Sent(s), size),
           Len(s.order) >= 2, s.order[1] = "sps", s.order[2] = "pps",
           Fits(Unit(s, "sps"), 2), Fits(Unit(s, "pps"), 2)
    PROVE  Gives(FromConfig(ParseAvccConfig(Writer!avcC(<<Unit(s, "sps")>>, <<Unit(s, "pps")>>,
               size)),
                            Writer!Sample(SubSeq(Sent(s), 3, Len(s.order)), size)),
                 Sent(s), Len(s.order))
<1> DEFINE m == Len(s.order)
           n == Sent(s)
           p == Unit(s, "sps")
           q == Unit(s, "pps")
           r == SubSeq(n, 3, m)
           w == m - 2
           D == Writer!Sample(r, size)
           B == Writer!avcC(<<p>>, <<q>>, size)
           R == ReadSample(r, w)
           x == AsRead(p, 0)
           y == AsRead(q, 0)
<1>1. Units(n, m) /\ m \in Nat /\ m >= 2 /\ \A k \in 1..m : n[k] = Unit(s, s.order[k])
  BY UnitsSent
<1>2. Units(r, w) /\ \A k \in 1..w : r[k] = n[k + 2]
  BY TailUnits
<1>3. 1 \in 1..m /\ 2 \in 1..m /\ n[1] = p /\ n[2] = q
  BY <1>1
<1>4. Len(n) = m /\ \A k \in 1..m : LegalUnit(n[k])
  BY <1>1 DEF Units
<1>5. size \in LengthSizes /\ \A k \in 1..m : Fits(n[k], size)
  BY <1>4 DEF LegalSample
<1>6. Short(p) /\ Short(q)
  <2>1. LegalUnit(p) /\ LegalUnit(q) /\ Fits(p, 2) /\ Fits(q, 2)
    BY <1>3, <1>4
  <2>2. 2 \in LengthSizes
    BY DEF LengthSizes
  <2> HIDE DEF p, q
  <2>3. Len(Writer!nal_unit(p)) < 256 ^ 2
    BY <2>1, <2>2, FitsIs
  <2>4. Len(Writer!nal_unit(q)) < 256 ^ 2
    BY <2>1, <2>2, FitsIs
  <2> QED BY <2>1, <2>3, <2>4 DEF Short
<1> HIDE DEF m, n, p, q, r
<1>7. ParseAvccConfig(B) = [ok |-> TRUE, size |-> size, sps |-> <<x>>, pps |-> <<y>>]
  <2>1. Boxed(B, p, q, size)
    BY <1>5, <1>6, BoxLaid
  <2> HIDE DEF B
  <2> QED BY <1>5, <2>1, BoxRead
<1>8. ParseAvcc(D, size) = R
  <2>0. w \in Nat /\ \A k \in 1..w : k + 2 \in 1..m
    BY <1>1
  <2>1. AllFit(r, w, size)
    <3>1. \A k \in 1..w : Len(Writer!nal_unit(r[k])) < 256 ^ size
      <4> TAKE k \in 1..w
      <4>1. LegalUnit(r[k]) /\ Fits(r[k], size)
        BY <1>2, <1>4, <1>5, <2>0
      <4> QED BY <1>5, <4>1, FitsIs
    <3> QED BY <1>5, <3>1 DEF AllFit
  <2> HIDE DEF w
  <2>2. PICK a : Sampled(D, r, a, w, size) /\ a[w] = Len(D)
    BY <1>2, <2>1, SampleLaid
  <2>3. D \in Seq(Octet)
    BY <2>2 DEF Sampled
  <2> HIDE DEF D
  <2>4. Len(D) \in Nat
    BY ONLY <2>3
  <2>5. SampleEnds(D, a[w], size)
    BY <1>5, <2>2, <2>4 DEF SampleEnds, LengthSizes
  <2> QED BY <2>2, <2>5, AvccRead
<1>9. Gives(R, r, w)
  <2>1. w \in 0..w
    BY <1>1
  <2> HIDE DEF w
  <2> QED BY <1>2, <2>1, ReadGives
<1>10. SameUnit(x, p) /\ SameUnit(y, q)
  <2>1. LegalUnit(p) /\ LegalUnit(q) /\ 0 \in Nat
    BY <1>6 DEF Short
  <2> QED BY <2>1, SameRead
<1> HIDE DEF x, y, D, B
<1> DEFINE T == {x, y} \cup {R[k] : k \in 1..w}
           b == <<x>>
           c == <<y>>
           d == b \o c
           us == d \o R
<1>11. R \in Seq(T) /\ Len(R) = w
  <2>1. w \in Nat
    BY <1>1
  <2>2. R \in [1..w -> T]
    BY DEF ReadSample
  <2> HIDE DEF R, T, w
  <2> QED BY ONLY <2>1, <2>2
<1>12. x \in T /\ y \in T
  OBVIOUS
<1> HIDE DEF T, R
<1>13. b \in Seq(T) /\ Len(b) = 1 /\ b[1] = x
  BY ONLY <1>12
<1>14. c \in Seq(T) /\ Len(c) = 1 /\ c[1] = y
  BY ONLY <1>12
<1> HIDE DEF b, c
<1>15. /\ d \in Seq(T) /\ Len(d) = Len(b) + Len(c)
       /\ \A j \in 1..Len(b) : d[j] = b[j]
       /\ \A j \in 1..Len(c) : d[Len(b) + j] = c[j]
  <2>1. b \in Seq(T) /\ c \in Seq(T)
    BY <1>13, <1>14
  <2> QED BY ONLY <2>1, Concat
<1> HIDE DEF d
<1>16. Len(d) = 2 /\ d[1] = x /\ d[2] = y
  <2>1. 1 \in 1..Len(b) /\ 1 \in 1..Len(c) /\ Len(b) + 1 = 2 /\ Len(b) + Len(c) = 2
    BY <1>13, <1>14
  <2>2. d[1] = b[1] /\ d[Len(b) + 1] = c[1]
    BY <1>15, <2>1
  <2> QED BY <1>13, <1>14, <1>15, <2>1, <2>2
<1>17. /\ us \in Seq(T) /\ Len(us) = Len(d) + Len(R)
       /\ \A j \in 1..Len(d) : us[j] = d[j]
       /\ \A j \in 1..Len(R) : us[Len(d) + j] = R[j]
  <2>1. d \in Seq(T) /\ R \in Seq(T)
    BY <1>11, <1>15
  <2> QED BY ONLY <2>1, Concat
<1> HIDE DEF us
<1>18. us = FromConfig(ParseAvccConfig(B), D)
  BY <1>7, <1>8 DEF FromConfig, us, d, b, c
<1>19. Gives(us, n, m)
  <2>1. Len(us) = m
    BY <1>1, <1>11, <1>16, <1>17
  <2>2. ASSUME NEW k \in 1..m PROVE SameUnit(us[k], n[k])
    <3>1. CASE k = 1
      <4>1. us[1] = x
        BY <1>16, <1>17
      <4> QED BY <1>3, <1>10, <3>1, <4>1
    <3>2. CASE k = 2
      <4>1. us[2] = y
        BY <1>16, <1>17
      <4> QED BY <1>3, <1>10, <3>2, <4>1
    <3>3. CASE k > 2
      <4> DEFINE j == k - 2
      <4>1. j \in 1..w /\ j + 2 = k /\ 2 + j = k
        BY <1>1, <3>3
      <4> HIDE DEF j, w
      <4>2. us[2 + j] = R[j]
        BY <1>11, <1>16, <1>17, <4>1
      <4>3. SameUnit(R[j], r[j]) /\ r[j] = n[j + 2]
        BY <1>2, <1>9, <4>1 DEF Gives
      <4> QED BY <4>1, <4>2, <4>3
    <3> QED BY <1>1, <3>1, <3>2, <3>3
  <2> QED BY <2>1, <2>2 DEF Gives
<1> QED BY <1>18, <1>19 DEF m, n, p, q, r, B, D

(* Whatever the units of a legal stream hold and however it is framed,     *)
(* what is read from it is what was sent.                                  *)
LEMMA ReceivedGives ==
    ASSUME NEW s, LegalStream(s)
    PROVE  Gives(Received(s, s.framing), Sent(s), AllRead(s.framing, Len(s.order)))
<1> DEFINE f == s.framing
           n == Sent(s)
           m == Len(s.order)
<1>1. Units(n, m)
  BY UnitsSent
<1>2. \/ f.kind = "annexb" /\ LegalAnnexB(f)
      \/ f.kind = "avcc" /\ LegalSample(n, f.size) /\ LegalCut(n, f)
      \/ /\ f.kind = "mp4" /\ LegalSample(n, f.size)
         /\ Len(s.order) >= 2 /\ s.order[1] = "sps" /\ s.order[2] = "pps"
         /\ Fits(Unit(s, "sps"), 2) /\ Fits(Unit(s, "pps"), 2)
  BY DEF LegalStream, LegalFraming
<1>3. CASE f.kind = "annexb" /\ LegalAnnexB(f)
  <2>1. Received(s, f) = ParseAnnexB(Writer!ByteStream(n, f))
    BY <1>3 DEF Received
  <2>2. AllRead(f, m) = m
    BY <1>3 DEF AllRead, Whole
  <2> HIDE DEF f, n, m
  <2>3. Gives(ParseAnnexB(Writer!ByteStream(n, f)), n, m)
    BY <1>1, <1>3, AnnexBGives
  <2> QED BY <2>1, <2>2, <2>3 DEF f, n, m
<1>4. CASE f.kind = "avcc" /\ LegalSample(n, f.size) /\ LegalCut(n, f)
  <2>1. Received(s, f) = ParseAvcc(Uncut(Writer!Sample(n, f.size), f.cut), f.size)
    BY <1>4 DEF Received
  <2> HIDE DEF f, n, m
  <2>2. Gives(ParseAvcc(Uncut(Writer!Sample(n, f.size), f.cut), f.size), n, AllRead(f, m))
    BY <1>1, <1>4, AvccGives
  <2> QED BY <2>1, <2>2 DEF f, n, m
<1>5. CASE /\ f.kind = "mp4" /\ LegalSample(n, f.size)
           /\ Len(s.order) >= 2 /\ s.order[1] = "sps" /\ s.order[2] = "pps"
           /\ Fits(Unit(s, "sps"), 2) /\ Fits(Unit(s, "pps"), 2)
  <2> DEFINE us == FromConfig(ParseAvccConfig(Writer!avcC(<<Unit(s, "sps")>>, <<Unit(s,
            "pps")>>, f.size)),
                              Writer!Sample(SubSeq(Sent(s), 3, Len(s.order)), f.size))
  <2>1. Received(s, f) = us
    BY <1>5 DEF Received
  <2>2. AllRead(f, m) = m
    BY <1>5 DEF AllRead, Whole
  <2>3. Gives(us, n, m)
    BY <1>5, Mp4Gives
  <2> QED BY <2>1, <2>2, <2>3
<1> QED BY <1>2, <1>3, <1>4, <1>5

Delivered == stream # None => stream \in Streams /\ units = Received(stream, stream.framing)

(* In every reachable state the units read from the stream are those that  *)
(* were sent.                                                              *)
THEOREM StreamRecovered == InputSpec => []UnitsRecovered
<1>1. InputInit => Delivered
  BY DEF InputInit, Delivered
<1>2. Delivered /\ [InputNext]_<<vars, input>> => Delivered'
  <2> SUFFICES ASSUME Delivered, [InputNext]_<<vars, input>> PROVE Delivered'
    OBVIOUS
  <2>1. ASSUME NEW s \in Streams, Deliver(s) PROVE Delivered'
    BY <2>1 DEF Deliver, Delivered
  <2>2. ASSUME stream' = stream, units' = units PROVE Delivered'
    BY <2>2 DEF Delivered
  <2>3. CASE ReadSps
    BY <2>2, <2>3 DEF ReadSps
  <2>4. CASE ReadPps
    BY <2>2, <2>4 DEF ReadPps
  <2>5. CASE ReadSlice
    BY <2>2, <2>5 DEF ReadSlice
  <2>6. CASE Ignore
    BY <2>2, <2>6 DEF Ignore
  <2>7. CASE StartCabac
    BY <2>2, <2>7 DEF StartCabac, input
  <2>8. CASE DecodeBin
    BY <2>2, <2>8 DEF DecodeBin
  <2>9. ASSUME NEW x, NEW y, DecodeElement(x, y) PROVE Delivered'
    BY <2>2, <2>9 DEF DecodeElement
  <2>10. CASE UNCHANGED <<vars, input>>
    BY <2>2, <2>10 DEF input
  <2> QED BY <2>1, <2>3, <2>4, <2>5, <2>6, <2>7, <2>8, <2>9, <2>10 DEF InputNext
<1>3. Delivered => UnitsRecovered
  <2> SUFFICES ASSUME Delivered, stream # None PROVE Recovered(Sent(stream))
    BY DEF UnitsRecovered
  <2> DEFINE n == Sent(stream)
             f == stream.framing
             m == Len(stream.order)
             w == AllRead(f, m)
  <2>1. LegalStream(stream) /\ units = Received(stream, f)
    BY StreamsAssumption DEF Delivered
  <2>2. Gives(units, n, w)
    BY <2>1, ReceivedGives
  <2>3. Len(n) = m
    BY <2>1, UnitsSent DEF Units
  <2> HIDE DEF n, m
  <2> QED BY <2>2, <2>3 DEF Recovered, Gives, AllRead, n
<1> QED BY <1>1, <1>2, <1>3, PTL DEF InputSpec
=============================================================================

---------------------------- MODULE RefListProofs ---------------------------
(***************************************************************************)
(* The reference picture lists of dpb.rs are the standard's, for any       *)
(* buffer, any slice and any number of modification commands.              *)
(*                                                                         *)
(* The initial lists: what a sort yields is one list that has each entry   *)
(* once, in the order sorted by (Lists, InOrder); so it is enough to show  *)
(* one list and that its order is both the code's and the standard's.      *)
(* For fields the list shown is woven from a list of the frames.  The      *)
(* modification commands: both sides move one picture to its place and     *)
(* shift those up to where it was (Shifted).  IInv says that the two lists *)
(* are alike all the time, and what that rests on.                         *)
(***************************************************************************)
EXTENDS RefList, FiniteSetTheorems, WellFoundedInduction, TLAPS

(* What a set of places in a list has: a first one.                        *)
LEMMA LeastExists ==
    ASSUME NEW S \in SUBSET Nat, S # {}
    PROVE  \E m \in S : \A x \in S : m <= x
<1> DEFINE R == {q \in Nat \X Nat : q[1] < q[2]}
<1>1. IsWellFoundedOn(R, Nat)
  BY NatLessThanWellFounded DEF OpToRel
<1>2. \E m \in S : \A x \in S : ~ (<<x, m>> \in R)
  <2> HIDE DEF R
  <2> QED BY <1>1, WFMin
<1>3. PICK m \in S : \A x \in S : ~ (<<x, m>> \in R)
  BY <1>2
<1>4. \A x \in S : m <= x
  <2> TAKE x \in S
  <2>1. m \in Nat /\ x \in Nat
    OBVIOUS
  <2>2. ~ (x < m)
    BY <1>3, <2>1
  <2> QED BY <2>1, <2>2
<1> QED BY <1>4

(* What holds of 0 and of each successor up to n holds up to n.            *)
LEMMA EveryLength ==
    ASSUME NEW n \in Nat, NEW S, 0 \in S, \A k \in 1..n : k - 1 \in S => k \in S
    PROVE  \A k \in 0..n : k \in S
<1> DEFINE T == {k \in 0..n : k \notin S}
<1>1. SUFFICES ASSUME T # {} PROVE FALSE
  OBVIOUS
<1>2. T \in SUBSET Nat
  OBVIOUS
<1>3. PICK m \in T : \A x \in T : m <= x
  <2> HIDE DEF T
  <2> QED BY <1>1, <1>2, LeastExists
<1>4. m \in 0..n /\ m \notin S /\ m # 0
  OBVIOUS
<1>5. m \in 1..n /\ m - 1 \in 0..n /\ ~ (m <= m - 1)
  BY <1>4
<1>6. m - 1 \in S
  BY <1>3, <1>5
<1> QED BY <1>4, <1>5, <1>6

-----------------------------------------------------------------------------
(* Sorting.                                                                *)

\* l has each element of S once.
Lists(l, S) ==
    /\ l \in Seq(S)
    /\ \A i, j \in 1..Len(l) : i # j => l[i] # l[j]
    /\ \A e \in S : \E i \in 1..Len(l) : l[i] = e

(* A list of n entries has n places.                                       *)
LEMMA Interval ==
    ASSUME NEW n \in Nat
    PROVE  IsFiniteSet(1..n) /\ Cardinality(1..n) = n
<1>1. IsFiniteSet(1..n) /\ Cardinality(1..n) = IF 1 > n THEN 0 ELSE n - 1 + 1
  BY FS_Interval
<1> QED BY <1>1

(* Then S has as many elements as l has places.                            *)
LEMMA ListsCount ==
    ASSUME NEW l, NEW S, Lists(l, S)
    PROVE  IsFiniteSet(S) /\ Cardinality(S) = Len(l) /\ Len(l) \in Nat
<1>1. l \in [1..Len(l) -> S] /\ Len(l) \in Nat
  BY DEF Lists
<1>2. l \in Bijection(1..Len(l), S)
  BY <1>1 DEF Lists, Bijection, Injection, IsInjective, Surjection
<1>3. IsFiniteSet(1..Len(l)) /\ Cardinality(1..Len(l)) = Len(l)
  BY <1>1, Interval
<1>4. ExistsBijection(1..Len(l), S)
  BY <1>2 DEF ExistsBijection
<1> QED BY <1>1, <1>3, <1>4, FS_Bijection

Preceding(S, R, e) == {f \in S : <<f, e>> \in R}

\* l has the elements of S in the order R.
InOrder(l, S, R) == Lists(l, S) /\ \A i, j \in 1..Len(l) : <<l[i], l[j]>> \in R <=> i < j

(* If R holds of l[i] and l[j] where i < j, then i - 1 elements of S come  *)
(* before l[i] in R.                                                       *)
LEMMA CountBefore ==
    ASSUME NEW l, NEW S, NEW R, InOrder(l, S, R), NEW i \in 1..Len(l), NEW e \in S
    PROVE  Cardinality(Preceding(S, R, e)) = i - 1 <=> e = l[i]
<1> USE DEF InOrder
<1>1. l \in [1..Len(l) -> S] /\ Len(l) \in Nat
  BY DEF Lists
<1>2. PICK j \in 1..Len(l) : l[j] = e
  BY DEF Lists
<1> DEFINE T == {f \in S : <<f, e>> \in R}
           h == [k \in 1..j - 1 |-> l[k]]
<1>3. \A k \in 1..j - 1 : k \in 1..Len(l) /\ k < j
  BY <1>1
<1>4. h \in [1..j - 1 -> T]
  BY <1>1, <1>2, <1>3
<1>5. \A k, m \in 1..j - 1 : h[k] = h[m] => k = m
  BY <1>3 DEF Lists
<1>6. \A f \in T : \E k \in 1..j - 1 : h[k] = f
  <2> TAKE f \in T
  <2>1. PICK k \in 1..Len(l) : l[k] = f
    BY DEF Lists
  <2>2. k < j
    BY <1>2, <2>1
  <2>3. k \in 1..j - 1
    BY <1>1, <2>2
  <2> QED BY <2>1, <2>3
<1> HIDE DEF T, h
<1>7. h \in Bijection(1..j - 1, T)
  BY <1>4, <1>5, <1>6 DEF Bijection, Injection, IsInjective, Surjection
<1>8. IsFiniteSet(1..j - 1) /\ Cardinality(1..j - 1) = j - 1
  <2>1. j - 1 \in Nat
    BY <1>1
  <2> QED BY <2>1, Interval
<1>9. Cardinality(T) = j - 1
  BY <1>7, <1>8, FS_Bijection DEF ExistsBijection
<1>10. j - 1 = i - 1 <=> j = i
  BY <1>1
<1>11. j = i <=> e = l[i]
  BY <1>2 DEF Lists
<1> QED BY <1>9, <1>10, <1>11 DEF T, Preceding

(* A finite set can be listed by a key that tells its elements apart.      *)
LEMMA ListByKey ==
    ASSUME NEW S, IsFiniteSet(S), NEW key \in [S -> Int],
           \A e, f \in S : key[e] = key[f] => e = f
    PROVE  \E l : Lists(l, S) /\ \A i, j \in 1..Len(l) : key[l[i]] < key[l[j]] <=> i < j
<1> DEFINE n == Cardinality(S)
           Upto(e) == {f \in S : key[f] <= key[e]}
           rank == [e \in S |-> Cardinality(Upto(e))]
<1>1. n \in Nat
  BY FS_CardinalityType
<1>2. ASSUME NEW e \in S PROVE IsFiniteSet(Upto(e)) /\ rank[e] \in 1..n
  <2>1. Upto(e) \in SUBSET S /\ e \in Upto(e)
    OBVIOUS
  <2>2. IsFiniteSet(Upto(e)) /\ Cardinality(Upto(e)) <= n
    BY <2>1, FS_Subset
  <2>3. Cardinality(Upto(e)) \in Nat /\ Cardinality(Upto(e)) # 0
    BY <2>1, <2>2, FS_CardinalityType, FS_EmptySet
  <2> QED BY <1>1, <2>2, <2>3
<1>3. ASSUME NEW e \in S, NEW f \in S, key[e] < key[f] PROVE rank[e] < rank[f]
  <2>1. Upto(e) \in SUBSET Upto(f) /\ f \in Upto(f) /\ f \notin Upto(e)
    BY <1>3
  <2>2. /\ Cardinality(Upto(e)) <= Cardinality(Upto(f))
        /\ Cardinality(Upto(e)) # Cardinality(Upto(f))
    <3>1. IsFiniteSet(Upto(f))
      BY <1>2
    <3>2. Upto(e) # Upto(f)
      BY <2>1
    <3> HIDE DEF Upto
    <3>3. /\ Cardinality(Upto(e)) <= Cardinality(Upto(f))
          /\ Cardinality(Upto(f)) = Cardinality(Upto(e)) => Upto(f) = Upto(e)
      BY <2>1, <3>1, FS_Subset
    <3> QED BY <3>2, <3>3
  <2>3. rank[e] \in 1..n /\ rank[f] \in 1..n
    <3> HIDE DEF rank
    <3> QED BY <1>2
  <2>4. rank[e] = Cardinality(Upto(e)) /\ rank[f] = Cardinality(Upto(f))
    OBVIOUS
  <2> HIDE DEF Upto, rank
  <2> QED BY <1>1, <2>2, <2>3, <2>4
<1>4. rank \in [S -> 1..n]
  BY <1>2
<1> HIDE DEF rank, Upto
<1>5. ASSUME NEW e \in S, NEW f \in S PROVE key[e] < key[f] <=> rank[e] < rank[f]
  <2>1. rank[e] \in Int /\ rank[f] \in Int /\ key[e] \in Int /\ key[f] \in Int
    BY <1>1, <1>4
  <2>2. CASE key[e] < key[f]
    BY <2>1, <2>2, <1>3
  <2>3. CASE key[f] < key[e]
    BY <2>1, <2>3, <1>3
  <2>4. CASE key[e] = key[f]
    BY <2>1, <2>4
  <2> QED BY <2>1, <2>2, <2>3, <2>4
<1>6. \A e, f \in S : rank[e] = rank[f] => e = f
  <2> TAKE e, f \in S
  <2>1. HAVE rank[e] = rank[f]
  <2>2. rank[e] \in Int /\ rank[f] \in Int /\ key[e] \in Int /\ key[f] \in Int
    BY <1>1, <1>4
  <2>3. ~ (key[e] < key[f]) /\ ~ (key[f] < key[e])
    BY <1>3, <2>1, <2>2
  <2> QED BY <2>2, <2>3
<1>7. rank \in Surjection(S, 1..n)
  <2>1. rank \in Injection(S, 1..n)
    BY <1>4, <1>6 DEF Injection, IsInjective
  <2>2. IsFiniteSet(1..n) /\ Cardinality(1..n) = n
    BY <1>1, Interval
  <2> QED BY <2>1, <2>2, FS_Injection
<1>8. \A i \in 1..n : \E e \in S : rank[e] = i
  BY <1>7 DEF Surjection
<1> DEFINE l == [i \in 1..n |-> CHOOSE e \in S : rank[e] = i]
<1>9. ASSUME NEW i \in 1..n PROVE l[i] \in S /\ rank[l[i]] = i
  BY <1>8
<1>10. l \in Seq(S) /\ Len(l) = n
  BY <1>1, <1>9
<1>11. ASSUME NEW e \in S PROVE \E i \in 1..Len(l) : l[i] = e
  <2>1. rank[e] \in 1..n
    BY <1>4
  <2>2. l[rank[e]] \in S /\ rank[l[rank[e]]] = rank[e]
    BY <1>9, <2>1
  <2>3. l[rank[e]] = e
    BY <1>6, <2>2
  <2> QED BY <1>10, <2>1, <2>3
<1> HIDE DEF l
<1>12. Lists(l, S)
  <2>1. \A i, j \in 1..Len(l) : i # j => l[i] # l[j]
    BY <1>9, <1>10
  <2> QED BY <1>10, <1>11, <2>1 DEF Lists
<1>13. \A i, j \in 1..Len(l) : key[l[i]] < key[l[j]] <=> i < j
  BY <1>5, <1>9, <1>10
<1> QED BY <1>12, <1>13

(* Where the code sorts (dpb.rs:144-166, 183-194) it has one outcome when  *)
(* the list l shows the elements in a strict order; and so has Sorted in   *)
(* the initial lists of the standard.                                      *)
LEMMA DescendingIs ==
    ASSUME NEW S, NEW l, Lists(l, S), \A e \in S : e.pic.poc \in Int /\ e.pic.id \in Int,
           \A i, j \in 1..Len(l) : l[i].pic.poc > l[j].pic.poc <=> i < j
    PROVE  Descending(S) = l
<1> DEFINE R == {p \in S \X S : p[1].pic.poc > p[2].pic.poc}
           before(a, b) == Stably(LAMBDA x, y : x.pic.poc > y.pic.poc, a, b)
<1>1. l \in [1..Len(l) -> S] /\ Len(l) \in Nat /\ l \in Seq(S)
  BY DEF Lists
<1>2. InOrder(l, S, R)
  BY <1>1 DEF InOrder
<1>4. \A e, f \in S : before(f, e) <=> <<f, e>> \in R
  <2> TAKE e, f \in S
  <2>1. PICK i \in 1..Len(l), j \in 1..Len(l) : l[i] = e /\ l[j] = f
    BY DEF Lists
  <2>2. e.pic.poc > f.pic.poc \/ f.pic.poc > e.pic.poc \/ e = f
    BY <1>1, <2>1
  <2>3. <<f, e>> \in R <=> f.pic.poc > e.pic.poc
    OBVIOUS
  <2> QED BY <1>1, <2>1, <2>2, <2>3 DEF Stably
<1>5. \A i \in 1..Len(l), e \in S : Cardinality({f \in S : before(f, e)}) = i - 1 <=> e = l[i]
  <2> TAKE i \in 1..Len(l), e \in S
  <2>1. {f \in S : before(f, e)} = Preceding(S, R, e)
    BY <1>4 DEF Preceding
  <2> HIDE DEF R, before
  <2>2. Cardinality(Preceding(S, R, e)) = i - 1 <=> e = l[i]
    BY <1>2, CountBefore
  <2> QED BY <2>1, <2>2, Zenon
<1>6. Descending(S) = [i \in 1..Len(l) |->
                   CHOOSE e \in S : Cardinality({f \in S : before(f, e)}) = i - 1]
  BY ListsCount DEF Descending, Sorted
<1> HIDE DEF before
<1>7. \A i \in 1..Len(l) :
        (CHOOSE e \in S : Cardinality({f \in S : before(f, e)}) = i - 1) = l[i]
  BY <1>1, <1>5
<1>8. l = [i \in 1..Len(l) |-> l[i]]
  BY <1>1
<1> QED BY <1>6, <1>7, <1>8

(* dpb.rs sorts stably by picture order count (dpb.rs:170-243); where the  *)
(* counts differ, what comes out is the list they ascend along.            *)
LEMMA AscendingIs ==
    ASSUME NEW S, NEW l, Lists(l, S), \A e \in S : e.pic.poc \in Int /\ e.pic.id \in Int,
           \A i, j \in 1..Len(l) : l[i].pic.poc < l[j].pic.poc <=> i < j
    PROVE  Ascending(S) = l
<1> DEFINE R == {p \in S \X S : p[1].pic.poc < p[2].pic.poc}
           before(a, b) == Stably(LAMBDA x, y : x.pic.poc < y.pic.poc, a, b)
<1>1. l \in [1..Len(l) -> S] /\ Len(l) \in Nat /\ l \in Seq(S)
  BY DEF Lists
<1>2. InOrder(l, S, R)
  BY <1>1 DEF InOrder
<1>4. \A e, f \in S : before(f, e) <=> <<f, e>> \in R
  <2> TAKE e, f \in S
  <2>1. PICK i \in 1..Len(l), j \in 1..Len(l) : l[i] = e /\ l[j] = f
    BY DEF Lists
  <2>2. e.pic.poc < f.pic.poc \/ f.pic.poc < e.pic.poc \/ e = f
    BY <1>1, <2>1
  <2>3. <<f, e>> \in R <=> f.pic.poc < e.pic.poc
    OBVIOUS
  <2> QED BY <1>1, <2>1, <2>2, <2>3 DEF Stably
<1>5. \A i \in 1..Len(l), e \in S : Cardinality({f \in S : before(f, e)}) = i - 1 <=> e = l[i]
  <2> TAKE i \in 1..Len(l), e \in S
  <2>1. {f \in S : before(f, e)} = Preceding(S, R, e)
    BY <1>4 DEF Preceding
  <2> HIDE DEF R, before
  <2>2. Cardinality(Preceding(S, R, e)) = i - 1 <=> e = l[i]
    BY <1>2, CountBefore
  <2> QED BY <2>1, <2>2, Zenon
<1>6. Ascending(S) = [i \in 1..Len(l) |->
                   CHOOSE e \in S : Cardinality({f \in S : before(f, e)}) = i - 1]
  BY ListsCount DEF Ascending, Sorted
<1> HIDE DEF before
<1>7. \A i \in 1..Len(l) :
        (CHOOSE e \in S : Cardinality({f \in S : before(f, e)}) = i - 1) = l[i]
  BY <1>1, <1>5
<1>8. l = [i \in 1..Len(l) |-> l[i]]
  BY <1>1
<1> QED BY <1>6, <1>7, <1>8

(* The same for the long-term references, by their index (dpb.rs:694-705). *)
LEMMA LongTermIs ==
    ASSUME NEW es, NEW l, Lists(l, Longs(es)), \A e \in es : e.ref.idx \in Int /\ e.pic.id \in Int,
           \A i, j \in 1..Len(l) : l[i].ref.idx < l[j].ref.idx <=> i < j
    PROVE  LongTermRefList(es) = l
<1> DEFINE S == Longs(es)
           R == {p \in S \X S : p[1].ref.idx < p[2].ref.idx}
           before(a, b) == Stably(LAMBDA x, y : x.ref.idx < y.ref.idx, a, b)
<1>1. l \in [1..Len(l) -> S] /\ Len(l) \in Nat /\ l \in Seq(S)
  BY DEF Lists
<1>2. InOrder(l, S, R)
  BY <1>1 DEF InOrder
<1>3. \A e \in S : e.pic.id \in Int /\ e.ref.idx \in Int
  BY DEF Longs
<1>4. \A e, f \in S : before(f, e) <=> <<f, e>> \in R
  <2> TAKE e, f \in S
  <2>1. PICK i \in 1..Len(l), j \in 1..Len(l) : l[i] = e /\ l[j] = f
    BY DEF Lists
  <2>2. e.ref.idx < f.ref.idx \/ f.ref.idx < e.ref.idx \/ e = f
    BY <1>1, <2>1
  <2>3. e \in S /\ f \in S
    OBVIOUS
  <2>4. <<f, e>> \in R <=> f.ref.idx < e.ref.idx
    OBVIOUS
  <2> HIDE DEF S, R
  <2> QED BY <1>1, <1>3, <2>1, <2>2, <2>3, <2>4 DEF Stably
<1>5. \A i \in 1..Len(l), e \in S : Cardinality({f \in S : before(f, e)}) = i - 1 <=> e = l[i]
  <2> TAKE i \in 1..Len(l), e \in S
  <2>1. {f \in S : before(f, e)} = Preceding(S, R, e)
    BY <1>4 DEF Preceding
  <2> HIDE DEF R, before, S
  <2>2. Cardinality(Preceding(S, R, e)) = i - 1 <=> e = l[i]
    BY <1>2, CountBefore
  <2> QED BY <2>1, <2>2, Zenon
<1>6. LongTermRefList(es) = [i \in 1..Len(l) |->
                   CHOOSE e \in S : Cardinality({f \in S : before(f, e)}) = i - 1]
  BY ListsCount DEF LongTermRefList, Sorted
<1> HIDE DEF before, S, R
<1>7. \A i \in 1..Len(l) :
        (CHOOSE e \in S : Cardinality({f \in S : before(f, e)}) = i - 1) = l[i]
  BY <1>1, <1>5
<1>8. l = [i \in 1..Len(l) |-> l[i]]
  BY <1>1
<1> QED BY <1>6, <1>7, <1>8

\* The order in which a P slice takes the short-term references.
PLess(x, y, s) ==
    IF IsField(s) /\ x.pic.frame_num = y.pic.frame_num
    THEN SameParity(x, s) /\ ~SameParity(y, s)
    ELSE x.pic.poc > y.pic.poc

PSorted(es, s) ==
    Sorted(Shorts(es), LAMBDA a, b : Stably(LAMBDA x, y : PLess(x, y, s), a, b))

(* The same for the references of a P slice, by PLess (dpb.rs:129-166).    *)
LEMMA ShortTermIs ==
    ASSUME NEW es, NEW s, NEW l, Lists(l, Shorts(es)), \A e \in es : e.pic.id \in Int,
           \A i, j \in 1..Len(l) : PLess(l[i], l[j], s) <=> i < j
    PROVE  PSorted(es, s) = l
<1> DEFINE S == Shorts(es)
           R == {p \in S \X S : PLess(p[1], p[2], s)}
           before(a, b) == Stably(LAMBDA x, y : PLess(x, y, s), a, b)
<1>1. l \in [1..Len(l) -> S] /\ Len(l) \in Nat /\ l \in Seq(S)
  BY DEF Lists
<1>2. InOrder(l, S, R)
  BY <1>1 DEF InOrder
<1>3. \A e \in S : e.pic.id \in Int
  BY DEF Shorts
<1>4. \A e, f \in S : before(f, e) <=> <<f, e>> \in R
  <2> TAKE e, f \in S
  <2>1. PICK i \in 1..Len(l), j \in 1..Len(l) : l[i] = e /\ l[j] = f
    BY DEF Lists
  <2>2. PLess(e, f, s) \/ PLess(f, e, s) \/ e = f
    BY <1>1, <2>1
  <2>3. e \in S /\ f \in S
    OBVIOUS
  <2>4. <<f, e>> \in R <=> PLess(f, e, s)
    OBVIOUS
  <2> HIDE DEF S, R
  <2> QED BY <1>1, <1>3, <2>1, <2>2, <2>3, <2>4 DEF Stably
<1>5. \A i \in 1..Len(l), e \in S : Cardinality({f \in S : before(f, e)}) = i - 1 <=> e = l[i]
  <2> TAKE i \in 1..Len(l), e \in S
  <2>1. {f \in S : before(f, e)} = Preceding(S, R, e)
    BY <1>4 DEF Preceding
  <2> HIDE DEF R, before, S
  <2>2. Cardinality(Preceding(S, R, e)) = i - 1 <=> e = l[i]
    BY <1>2, CountBefore
  <2> QED BY <2>1, <2>2, Zenon
<1>6. PSorted(es, s) = [i \in 1..Len(l) |->
                   CHOOSE e \in S : Cardinality({f \in S : before(f, e)}) = i - 1]
  BY ListsCount DEF PSorted, Sorted
<1> HIDE DEF before, S, R
<1>7. \A i \in 1..Len(l) :
        (CHOOSE e \in S : Cardinality({f \in S : before(f, e)}) = i - 1) = l[i]
  BY <1>1, <1>5
<1>8. l = [i \in 1..Len(l) |-> l[i]]
  BY <1>1
<1> QED BY <1>6, <1>7, <1>8

(* The list of a P slice is that and the long-term references behind it.   *)
LEMMA ShortTermSorted ==
    ASSUME NEW es, NEW s
    PROVE  ShortTermRefList(es, s) = PSorted(es, s) \o LongTermRefList(es)
BY DEF ShortTermRefList, PSorted, PLess

Ordered(es, s, S) == Sorted(S, LAMBDA a, b : FrameOrder(es, s, a, b))

(* The same for what the standard sorts by (8.2.4.2).                      *)
LEMMA OrderedIs ==
    ASSUME NEW es, NEW s, NEW S, NEW l, Lists(l, S),
           \A i, j \in 1..Len(l) : FrameOrder(es, s, l[i], l[j]) <=> i < j
    PROVE  Ordered(es, s, S) = l
<1> DEFINE R == {p \in S \X S : FrameOrder(es, s, p[1], p[2])}
           before(a, b) == FrameOrder(es, s, a, b)
<1>1. l \in [1..Len(l) -> S] /\ Len(l) \in Nat /\ l \in Seq(S)
  BY DEF Lists
<1>2. InOrder(l, S, R)
  BY <1>1 DEF InOrder
<1>4. \A e, f \in S : before(f, e) <=> <<f, e>> \in R
  OBVIOUS
<1>5. \A i \in 1..Len(l), e \in S : Cardinality({f \in S : before(f, e)}) = i - 1 <=> e = l[i]
  <2> TAKE i \in 1..Len(l), e \in S
  <2>1. {f \in S : before(f, e)} = Preceding(S, R, e)
    BY <1>4 DEF Preceding
  <2> HIDE DEF R, before
  <2>2. Cardinality(Preceding(S, R, e)) = i - 1 <=> e = l[i]
    BY <1>2, CountBefore
  <2> QED BY <2>1, <2>2, Zenon
<1>6. Ordered(es, s, S) = [i \in 1..Len(l) |->
                   CHOOSE e \in S : Cardinality({f \in S : before(f, e)}) = i - 1]
  BY ListsCount DEF Ordered, Sorted
<1> HIDE DEF before
<1>7. \A i \in 1..Len(l) :
        (CHOOSE e \in S : Cardinality({f \in S : before(f, e)}) = i - 1) = l[i]
  BY <1>1, <1>5
<1>8. l = [i \in 1..Len(l) |-> l[i]]
  BY <1>1
<1> QED BY <1>6, <1>7, <1>8

(* Two lists of different elements, one behind the other.                  *)
LEMMA ListsJoin ==
    ASSUME NEW x, NEW A, Lists(x, A), NEW y, NEW B, Lists(y, B), A \cap B = {},
           NEW S, S = A \cup B
    PROVE  /\ Lists(x \o y, S) /\ Len(x \o y) = Len(x) + Len(y)
           /\ Len(x) \in Nat /\ Len(y) \in Nat
           /\ \A i \in 1..Len(x) : (x \o y)[i] = x[i] /\ x[i] \in A
           /\ \A i \in 1..Len(y) : (x \o y)[Len(x) + i] = y[i] /\ y[i] \in B
<1>1. x \in Seq(S) /\ y \in Seq(S) /\ Len(x) \in Nat /\ Len(y) \in Nat
  BY DEF Lists
<1>2. /\ \A i \in 1..Len(x) : x[i] \in A
      /\ \A i \in 1..Len(y) : y[i] \in B
  BY DEF Lists
<1> DEFINE z == x \o y
<1>3. /\ z \in Seq(S) /\ Len(z) = Len(x) + Len(y)
      /\ \A i \in 1..Len(x) : z[i] = x[i]
      /\ \A i \in 1..Len(y) : z[Len(x) + i] = y[i]
  BY ONLY <1>1
<1> HIDE DEF z
<1>4. ASSUME NEW i \in 1..Len(z), ~ (i \in 1..Len(x))
      PROVE  i - Len(x) \in 1..Len(y) /\ z[i] = y[i - Len(x)]
  <2>1. i - Len(x) \in 1..Len(y) /\ Len(x) + (i - Len(x)) = i
    BY <1>1, <1>3, <1>4
  <2> QED BY <1>3, <2>1
<1>5. ASSUME NEW i \in 1..Len(z), NEW j \in 1..Len(z), i # j PROVE z[i] # z[j]
  <2>1. CASE i \in 1..Len(x) /\ j \in 1..Len(x)
    BY <1>3, <1>5, <2>1 DEF Lists
  <2>2. CASE i \in 1..Len(x) /\ ~ (j \in 1..Len(x))
    BY <1>2, <1>3, <1>4, <2>2
  <2>3. CASE ~ (i \in 1..Len(x)) /\ j \in 1..Len(x)
    BY <1>2, <1>3, <1>4, <2>3
  <2>4. CASE ~ (i \in 1..Len(x)) /\ ~ (j \in 1..Len(x))
    <3>1. i - Len(x) # j - Len(x)
      BY <1>1, <1>5
    <3>2. /\ i - Len(x) \in 1..Len(y) /\ z[i] = y[i - Len(x)]
          /\ j - Len(x) \in 1..Len(y) /\ z[j] = y[j - Len(x)]
      BY <1>4, <2>4
    <3>3. \A k, m \in 1..Len(y) : k # m => y[k] # y[m]
      BY DEF Lists
    <3> QED BY <3>1, <3>2, <3>3
  <2> QED BY <2>1, <2>2, <2>3, <2>4
<1>6. ASSUME NEW e \in S PROVE \E i \in 1..Len(z) : z[i] = e
  <2>1. CASE e \in A
    <3>1. PICK i \in 1..Len(x) : x[i] = e
      BY <2>1 DEF Lists
    <3>2. i \in 1..Len(z) /\ z[i] = e
      BY <1>1, <1>3, <3>1
    <3> QED BY <3>2
  <2>2. CASE e \in B
    <3>1. PICK i \in 1..Len(y) : y[i] = e
      BY <2>2 DEF Lists
    <3>2. Len(x) + i \in 1..Len(z) /\ z[Len(x) + i] = e
      BY <1>1, <1>3, <3>1
    <3> QED BY <3>2
  <2> QED BY <2>1, <2>2
<1>7. Lists(z, S)
  BY <1>3, <1>5, <1>6 DEF Lists
<1> QED BY <1>1, <1>2, <1>3, <1>7 DEF z

-----------------------------------------------------------------------------
(* Initial lists of frames.                                                *)

FrameBuffer(es, s) ==
    /\ IsFiniteSet(es) /\ ~IsField(s) /\ s.poc \in Int
    /\ \A e \in es : /\ e.pic.id \in Int /\ e.pic.poc \in Int /\ e.ref.idx \in Nat
                     /\ FrameNumWrap(e, s) \in Int
                     /\ e.ref = ShortTerm \/ e.ref.kind = "long"
    /\ \A e, f \in es : e # f => /\ e.pic.poc # f.pic.poc
                                 /\ e.pic.id # f.pic.id
                                 /\ e.pic.frame_num # f.pic.frame_num
                                 /\ e \in Longs(es) /\ f \in Longs(es) => e.ref.idx # f.ref.idx
    /\ \A e, f \in es : e.pic.id < f.pic.id => FrameNumWrap(e, s) < FrameNumWrap(f, s)

(* The order count of a frame is its own.                                  *)
LEMMA FrameCount ==
    ASSUME NEW es, NEW s, FrameBuffer(es, s), NEW e \in es
    PROVE  OrderCount(es, e) = e.pic.poc
<1> DEFINE frame == {f \in es : f.pic.frame_num = e.pic.frame_num /\ f.ref = e.ref}
           N == {f.pic.poc : f \in frame}
<1>1. frame = {e}
  BY DEF FrameBuffer
<1>2. e.pic.poc \in Int
  BY DEF FrameBuffer
<1>3. OrderCount(es, e) = CHOOSE n \in N : \A f \in frame : n <= f.pic.poc
  BY DEF OrderCount
<1> HIDE DEF frame
<1>4. N = {e.pic.poc}
  BY <1>1
<1> HIDE DEF N
<1>5. e.pic.poc \in N /\ \A f \in frame : e.pic.poc <= f.pic.poc
  BY <1>1, <1>2, <1>4
<1> QED BY <1>3, <1>4, <1>5

(* Long-term frames by ascending index.                                    *)
LEMMA LongTermFrames ==
    ASSUME NEW es, NEW s, FrameBuffer(es, s)
    PROVE  /\ Lists(LongTermRefList(es), Longs(es))
           /\ InitialOf(es, Longs(es), s) = LongTermRefList(es)
<1> DEFINE S == Longs(es)
           key == [e \in S |-> e.ref.idx]
<1>1. IsFiniteSet(S) /\ S \subseteq es /\ \A e \in S : e.ref.kind = "long"
  BY FS_Subset DEF FrameBuffer, Longs
<1>2. key \in [S -> Int] /\ \A e, f \in S : key[e] = key[f] => e = f
  BY <1>1 DEF FrameBuffer
<1>3. PICK l : Lists(l, S) /\ \A i, j \in 1..Len(l) : key[l[i]] < key[l[j]] <=> i < j
  <2> HIDE DEF S, key
  <2> QED BY <1>1, <1>2, ListByKey
<1>4. \A i \in 1..Len(l) : l[i] \in S
  BY <1>3 DEF Lists
<1>5. \A i, j \in 1..Len(l) : l[i].ref.idx < l[j].ref.idx <=> i < j
  BY <1>3, <1>4
<1>6. LongTermRefList(es) = l
  <2>1. \A e \in es : e.ref.idx \in Int /\ e.pic.id \in Int
    BY DEF FrameBuffer
  <2> QED BY <1>3, <1>5, <2>1, LongTermIs
<1>7. \A i, j \in 1..Len(l) : FrameOrder(es, s, l[i], l[j]) <=> i < j
  BY <1>1, <1>4, <1>5 DEF FrameOrder
<1>8. Ordered(es, s, S) = l
  <2> HIDE DEF S
  <2> QED BY <1>3, <1>7, OrderedIs
<1>9. InitialOf(es, S, s) = Ordered(es, s, S)
  BY DEF InitialOf, Ordered, FrameBuffer
<1> QED BY <1>3, <1>6, <1>8, <1>9

(* In a P slice the short-term frames come by descending PicNum, which is  *)
(* by descending order count if they were decoded in output order.         *)
LEMMA PFrames ==
    ASSUME NEW es, NEW s, FrameBuffer(es, s), s.kind = "P", InOutputOrder(es)
    PROVE  /\ Lists(PSorted(es, s), Shorts(es))
           /\ InitialOf(es, Shorts(es), s) = PSorted(es, s)
<1> DEFINE S == Shorts(es)
           key == [e \in S |-> 0 - e.pic.poc]
<1>1. IsFiniteSet(S) /\ S \subseteq es /\ \A e \in S : e.ref.kind = "short"
  BY FS_Subset DEF FrameBuffer, Shorts, ShortTerm
<1>2. key \in [S -> Int] /\ \A e, f \in S : key[e] = key[f] => e = f
  BY <1>1 DEF FrameBuffer
<1>3. PICK l : Lists(l, S) /\ \A i, j \in 1..Len(l) : key[l[i]] < key[l[j]] <=> i < j
  <2> HIDE DEF S, key
  <2> QED BY <1>1, <1>2, ListByKey
<1>4. \A i \in 1..Len(l) : l[i] \in S
  BY <1>3 DEF Lists
<1>5. \A i, j \in 1..Len(l) : l[i].pic.poc > l[j].pic.poc <=> i < j
  <2> TAKE i, j \in 1..Len(l)
  <2>1. l[i].pic.poc \in Int /\ l[j].pic.poc \in Int
    BY <1>1, <1>4 DEF FrameBuffer
  <2>2. key[l[i]] = 0 - l[i].pic.poc /\ key[l[j]] = 0 - l[j].pic.poc
    BY <1>4
  <2> HIDE DEF S, key
  <2> QED BY <1>3, <2>1, <2>2
<1>6. PSorted(es, s) = l
  <2>1. \A i, j \in 1..Len(l) : PLess(l[i], l[j], s) <=> i < j
    BY <1>5 DEF PLess, FrameBuffer
  <2>2. \A e \in es : e.pic.id \in Int
    BY DEF FrameBuffer
  <2> QED BY <1>3, <2>1, <2>2, ShortTermIs
<1>7. ASSUME NEW e \in S, NEW f \in S
      PROVE  e.pic.poc > f.pic.poc <=> FrameNumWrap(e, s) > FrameNumWrap(f, s)
  <2>1. /\ e.pic.poc \in Int /\ f.pic.poc \in Int /\ e.pic.id \in Int /\ f.pic.id \in Int
        /\ FrameNumWrap(e, s) \in Int /\ FrameNumWrap(f, s) \in Int
        /\ e \in es /\ f \in es
    BY <1>1 DEF FrameBuffer
  <2>2. CASE e = f
    BY <2>1, <2>2
  <2>3. CASE e.pic.id < f.pic.id
    <3>1. e.pic.poc < f.pic.poc /\ FrameNumWrap(e, s) < FrameNumWrap(f, s)
      BY <2>1, <2>3 DEF InOutputOrder, FrameBuffer
    <3> QED BY <2>1, <3>1
  <2>4. CASE f.pic.id < e.pic.id
    <3>1. f.pic.poc < e.pic.poc /\ FrameNumWrap(f, s) < FrameNumWrap(e, s)
      BY <2>1, <2>4 DEF InOutputOrder, FrameBuffer
    <3> QED BY <2>1, <3>1
  <2>5. e # f => e.pic.id # f.pic.id
    BY <2>1 DEF FrameBuffer
  <2> QED BY <2>1, <2>2, <2>3, <2>4, <2>5
<1>8. \A i, j \in 1..Len(l) : FrameOrder(es, s, l[i], l[j]) <=> i < j
  BY <1>1, <1>4, <1>5, <1>7 DEF FrameOrder, ShortBefore
<1>9. Ordered(es, s, S) = l
  <2> HIDE DEF S
  <2> QED BY <1>3, <1>8, OrderedIs
<1>10. InitialOf(es, S, s) = Ordered(es, s, S)
  BY DEF InitialOf, Ordered, FrameBuffer
<1> QED BY <1>3, <1>6, <1>9, <1>10

(* The two halves of the short-term frames in the lists of a B slice.      *)
LEMMA BHalves ==
    ASSUME NEW es, NEW s, FrameBuffer(es, s)
    PROVE  /\ Lists(BeforeCurrent(es, s), {e \in Shorts(es) : e.pic.poc <= s.poc})
           /\ \A i, j \in 1..Len(BeforeCurrent(es, s)) :
                BeforeCurrent(es, s)[i].pic.poc > BeforeCurrent(es, s)[j].pic.poc <=> i < j
           /\ Lists(AfterCurrent(es, s), {e \in Shorts(es) : e.pic.poc > s.poc})
           /\ \A i, j \in 1..Len(AfterCurrent(es, s)) :
                AfterCurrent(es, s)[i].pic.poc < AfterCurrent(es, s)[j].pic.poc <=> i < j
<1> DEFINE A == {e \in Shorts(es) : e.pic.poc <= s.poc}
           B == {e \in Shorts(es) : e.pic.poc > s.poc}
           down == [e \in A |-> 0 - e.pic.poc]
           up == [e \in B |-> e.pic.poc]
<1>1. IsFiniteSet(A) /\ A \subseteq es /\ IsFiniteSet(B) /\ B \subseteq es
  <2>1. A \subseteq es /\ B \subseteq es
    BY DEF Shorts
  <2> HIDE DEF A, B
  <2> QED BY <2>1, FS_Subset DEF FrameBuffer
<1>2. /\ down \in [A -> Int] /\ \A e, f \in A : down[e] = down[f] => e = f
      /\ up \in [B -> Int] /\ \A e, f \in B : up[e] = up[f] => e = f
  <2> HIDE DEF A, B
  <2> QED BY <1>1 DEF FrameBuffer
<1>3. /\ \A e \in A : e.pic.poc \in Int /\ e.pic.id \in Int
      /\ \A e \in B : e.pic.poc \in Int /\ e.pic.id \in Int
  <2> HIDE DEF A, B
  <2> QED BY <1>1 DEF FrameBuffer
<1>4. PICK a : Lists(a, A) /\ \A i, j \in 1..Len(a) : down[a[i]] < down[a[j]] <=> i < j
  <2> HIDE DEF A, down
  <2> QED BY <1>1, <1>2, ListByKey
<1>5. PICK b : Lists(b, B) /\ \A i, j \in 1..Len(b) : up[b[i]] < up[b[j]] <=> i < j
  <2> HIDE DEF B, up
  <2> QED BY <1>1, <1>2, ListByKey
<1> HIDE DEF A, B
<1>6. \A i, j \in 1..Len(a) : a[i].pic.poc > a[j].pic.poc <=> i < j
  <2> TAKE i, j \in 1..Len(a)
  <2>1. a[i] \in A /\ a[j] \in A
    BY <1>4 DEF Lists
  <2>2. down[a[i]] = 0 - a[i].pic.poc /\ down[a[j]] = 0 - a[j].pic.poc
    BY <2>1
  <2> HIDE DEF down
  <2> QED BY <1>3, <1>4, <2>1, <2>2
<1>7. \A i, j \in 1..Len(b) : b[i].pic.poc < b[j].pic.poc <=> i < j
  <2> TAKE i, j \in 1..Len(b)
  <2>1. b[i] \in B /\ b[j] \in B
    BY <1>5 DEF Lists
  <2>2. up[b[i]] = b[i].pic.poc /\ up[b[j]] = b[j].pic.poc
    BY <2>1
  <2> HIDE DEF up
  <2> QED BY <1>3, <1>5, <2>1, <2>2
<1>8. Descending(A) = a
  BY <1>3, <1>4, <1>6, DescendingIs
<1>9. Ascending(B) = b
  BY <1>3, <1>5, <1>7, AscendingIs
<1>10. BeforeCurrent(es, s) = a /\ AfterCurrent(es, s) = b
  BY <1>8, <1>9 DEF BeforeCurrent, AfterCurrent, A, B
<1> QED BY <1>4, <1>5, <1>6, <1>7, <1>10 DEF A, B

(* If A comes before B in R, a list of A in the order R and one of B make  *)
(* one of both.                                                            *)
LEMMA OrderJoin ==
    ASSUME NEW x, NEW A, NEW y, NEW B, A \cap B = {}, NEW S, S = A \cup B, NEW R,
           InOrder(x, A, R), InOrder(y, B, R),
           \A a \in A, b \in B : <<a, b>> \in R /\ <<b, a>> \notin R
    PROVE  InOrder(x \o y, S, R)
<1> DEFINE z == x \o y
<1>1. Lists(x, A) /\ Lists(y, B)
  BY DEF InOrder
<1>2. /\ Lists(z, S) /\ Len(z) = Len(x) + Len(y)
      /\ Len(x) \in Nat /\ Len(y) \in Nat
      /\ \A i \in 1..Len(x) : z[i] = x[i] /\ x[i] \in A
      /\ \A i \in 1..Len(y) : z[Len(x) + i] = y[i] /\ y[i] \in B
  BY <1>1, ListsJoin
<1> HIDE DEF z
<1>4. ASSUME NEW i \in 1..Len(z), ~ (i \in 1..Len(x))
      PROVE  i - Len(x) \in 1..Len(y) /\ z[i] = y[i - Len(x)] /\ z[i] \in B /\ i > Len(x)
  <2>1. i - Len(x) \in 1..Len(y) /\ Len(x) + (i - Len(x)) = i /\ i > Len(x)
    BY <1>2, <1>4
  <2> QED BY <1>2, <2>1
<1>5. ASSUME NEW i \in 1..Len(z), NEW j \in 1..Len(z) PROVE <<z[i], z[j]>> \in R <=> i < j
  <2>1. CASE i \in 1..Len(x) /\ j \in 1..Len(x)
    BY <1>2, <2>1 DEF InOrder
  <2>2. CASE i \in 1..Len(x) /\ ~ (j \in 1..Len(x))
    <3>1. z[i] \in A
      BY <1>2, <2>2
    <3>2. z[j] \in B /\ j > Len(x)
      BY <1>4, <2>2
    <3>3. i < j
      BY <1>2, <2>2, <3>2
    <3> QED BY <3>1, <3>2, <3>3
  <2>3. CASE ~ (i \in 1..Len(x)) /\ j \in 1..Len(x)
    <3>1. z[j] \in A
      BY <1>2, <2>3
    <3>2. z[i] \in B /\ i > Len(x)
      BY <1>4, <2>3
    <3>3. ~ (i < j)
      BY <1>2, <2>3, <3>2
    <3> QED BY <3>1, <3>2, <3>3
  <2>4. CASE ~ (i \in 1..Len(x)) /\ ~ (j \in 1..Len(x))
    <3>1. /\ i - Len(x) \in 1..Len(y) /\ z[i] = y[i - Len(x)]
          /\ j - Len(x) \in 1..Len(y) /\ z[j] = y[j - Len(x)]
      BY <1>4, <2>4
    <3>2. i < j <=> i - Len(x) < j - Len(x)
      BY <1>2
    <3>3. \A k, m \in 1..Len(y) : <<y[k], y[m]>> \in R <=> k < m
      BY DEF InOrder
    <3> QED BY <3>1, <3>2, <3>3
  <2> QED BY <2>1, <2>2, <2>3, <2>4
<1> QED BY <1>2, <1>5 DEF z, InOrder

(* In a B slice the short-term frames come by distance in output order,    *)
(* past ones first in list 0 and later ones first in list 1.               *)
LEMMA BFrames ==
    ASSUME NEW es, NEW s, FrameBuffer(es, s)
    PROVE  LET a == BeforeCurrent(es, s)
               b == AfterCurrent(es, s)
           IN  /\ Lists(a \o b, Shorts(es)) /\ Lists(b \o a, Shorts(es))
               /\ s.kind = "B0" => InitialOf(es, Shorts(es), s) = a \o b
               /\ s.kind = "B1" => InitialOf(es, Shorts(es), s) = b \o a
<1> DEFINE a == BeforeCurrent(es, s)
           b == AfterCurrent(es, s)
           S == Shorts(es)
           A == {e \in S : e.pic.poc <= s.poc}
           B == {e \in S : e.pic.poc > s.poc}
           R == {p \in S \X S : FrameOrder(es, s, p[1], p[2])}
<1>1. /\ Lists(a, A) /\ \A i, j \in 1..Len(a) : a[i].pic.poc > a[j].pic.poc <=> i < j
      /\ Lists(b, B) /\ \A i, j \in 1..Len(b) : b[i].pic.poc < b[j].pic.poc <=> i < j
  BY BHalves
<1>2. \A e \in S : e \in es /\ e.ref = ShortTerm /\ e.pic.poc \in Int /\ s.poc \in Int
  BY DEF FrameBuffer, Shorts
<1>3. A \cap B = {} /\ B \cap A = {} /\ S = A \cup B /\ S = B \cup A
  BY <1>2
<1>4. /\ \A i \in 1..Len(a) : a[i] \in A
      /\ \A i \in 1..Len(b) : b[i] \in B
  <2> HIDE DEF a, b, A, B
  <2> QED BY <1>1 DEF Lists
<1> HIDE DEF a, b
<1>5. ASSUME NEW e \in S, NEW f \in S
      PROVE  <<e, f>> \in R <=> ShortBefore(es, s, e, f)
  <2>1. <<e, f>> \in R <=> FrameOrder(es, s, e, f)
    <3> HIDE DEF S
    <3> QED OBVIOUS
  <2>2. e.ref.kind = "short" /\ f.ref.kind = "short"
    BY <1>2 DEF ShortTerm
  <2> QED BY <2>1, <2>2 DEF FrameOrder
<1>6. ASSUME NEW e \in S, NEW f \in S
      PROVE  OrderCount(es, e) = e.pic.poc /\ OrderCount(es, f) = f.pic.poc
  BY <1>2, FrameCount
<1> HIDE DEF R
<1>7. Lists(a \o b, S) /\ Lists(b \o a, S)
  <2> HIDE DEF A, B, S
  <2> QED BY <1>1, <1>3, ListsJoin
<1>8. ASSUME s.kind = "B0" PROVE InitialOf(es, S, s) = a \o b
  <2>1. ASSUME NEW e \in S, NEW f \in S
        PROVE  <<e, f>> \in R <=>
                 IF (e.pic.poc <= s.poc) = (f.pic.poc <= s.poc)
                 THEN IF e.pic.poc <= s.poc THEN f.pic.poc < e.pic.poc ELSE e.pic.poc < f.pic.poc
                 ELSE e.pic.poc <= s.poc
    BY <1>5, <1>6, <1>8 DEF ShortBefore
  <2>2. InOrder(a, A, R) /\ InOrder(b, B, R)
    <3>1. \A i, j \in 1..Len(a) : <<a[i], a[j]>> \in R <=> i < j
      BY <1>1, <1>2, <1>4, <2>1
    <3>2. \A i, j \in 1..Len(b) : <<b[i], b[j]>> \in R <=> i < j
      BY <1>1, <1>2, <1>4, <2>1
    <3> QED BY <1>1, <3>1, <3>2 DEF InOrder
  <2>3. ASSUME NEW e \in A, NEW f \in B PROVE <<e, f>> \in R /\ <<f, e>> \notin R
    <3>1. e \in S /\ f \in S
      OBVIOUS
    <3>2. e.pic.poc <= s.poc <=> ~ (f.pic.poc <= s.poc)
      BY <1>2
    <3>3. (e.pic.poc <= s.poc)
      BY <1>2
    <3> HIDE DEF A, B, S
    <3> QED BY <2>1, <3>1, <3>2, <3>3
  <2>4. InOrder(a \o b, S, R)
    <3> HIDE DEF A, B, S
    <3> QED BY <1>3, <2>2, <2>3, OrderJoin
  <2>5. \A i \in 1..Len(a \o b) : (a \o b)[i] \in S
    <3> HIDE DEF S
    <3> QED BY <1>7 DEF Lists
  <2>6. \A i, j \in 1..Len(a \o b) : FrameOrder(es, s, (a \o b)[i], (a \o b)[j]) <=> i < j
    BY <2>4, <2>5 DEF InOrder, R
  <2>7. Ordered(es, s, S) = a \o b
    <3> HIDE DEF S
    <3> QED BY <1>7, <2>6, OrderedIs
  <2> QED BY <2>7 DEF InitialOf, Ordered, FrameBuffer
<1>9. ASSUME s.kind = "B1" PROVE InitialOf(es, S, s) = b \o a
  <2>1. ASSUME NEW e \in S, NEW f \in S
        PROVE  <<e, f>> \in R <=>
                 IF (e.pic.poc <= s.poc) = (f.pic.poc <= s.poc)
                 THEN IF e.pic.poc <= s.poc THEN f.pic.poc < e.pic.poc ELSE e.pic.poc < f.pic.poc
                 ELSE f.pic.poc <= s.poc
    BY <1>5, <1>6, <1>9 DEF ShortBefore
  <2>2. InOrder(a, A, R) /\ InOrder(b, B, R)
    <3>1. \A i, j \in 1..Len(a) : <<a[i], a[j]>> \in R <=> i < j
      BY <1>1, <1>2, <1>4, <2>1
    <3>2. \A i, j \in 1..Len(b) : <<b[i], b[j]>> \in R <=> i < j
      BY <1>1, <1>2, <1>4, <2>1
    <3> QED BY <1>1, <3>1, <3>2 DEF InOrder
  <2>3. ASSUME NEW e \in B, NEW f \in A PROVE <<e, f>> \in R /\ <<f, e>> \notin R
    <3>1. e \in S /\ f \in S
      OBVIOUS
    <3>2. e.pic.poc <= s.poc <=> ~ (f.pic.poc <= s.poc)
      BY <1>2
    <3>3. ~ (e.pic.poc <= s.poc)
      BY <1>2
    <3> HIDE DEF A, B, S
    <3> QED BY <2>1, <3>1, <3>2, <3>3
  <2>4. InOrder(b \o a, S, R)
    <3> HIDE DEF A, B, S
    <3> QED BY <1>3, <2>2, <2>3, OrderJoin
  <2>5. \A i \in 1..Len(b \o a) : (b \o a)[i] \in S
    <3> HIDE DEF S
    <3> QED BY <1>7 DEF Lists
  <2>6. \A i, j \in 1..Len(b \o a) : FrameOrder(es, s, (b \o a)[i], (b \o a)[j]) <=> i < j
    BY <2>4, <2>5 DEF InOrder, R
  <2>7. Ordered(es, s, S) = b \o a
    <3> HIDE DEF S
    <3> QED BY <1>7, <2>6, OrderedIs
  <2> QED BY <2>7 DEF InitialOf, Ordered, FrameBuffer
<1> QED BY <1>7, <1>8, <1>9 DEF a, b

Apart(es) == \A e, f \in es : e.pic.poc = f.pic.poc => e = f

(* Two lists of one buffer with the same order counts are one list, which  *)
(* is what the comparison of dpb.rs:253-257 asks.                          *)
LEMMA SameCounts ==
    ASSUME NEW es, Apart(es), NEW l, Lists(l, es), NEW m, Lists(m, es)
    PROVE  /\ Len(l) > 1 /\ Len(l) = Len(m)
           /\ \A i \in DOMAIN l : l[i].pic.poc = m[i].pic.poc
           <=> Len(l) > 1 /\ l = m
<1>1. l \in Seq(es) /\ m \in Seq(es)
  BY DEF Lists
<1>2. ASSUME Len(l) = Len(m), \A i \in DOMAIN l : l[i].pic.poc = m[i].pic.poc PROVE l = m
  <2>1. \A i \in 1..Len(l) : l[i] = m[i]
    BY <1>1, <1>2 DEF Apart
  <2> QED BY <1>1, <1>2, <2>1
<1> QED BY <1>2

(* The exchange of the first two entries.                                  *)
LEMMA FirstTwo ==
    ASSUME NEW es, NEW l, Lists(l, es), Len(l) > 1
    PROVE  /\ [l EXCEPT ![1] = l[2], ![2] = l[1]] = <<l[2], l[1]>> \o SubSeq(l, 3, Len(l))
           /\ Lists([l EXCEPT ![1] = l[2], ![2] = l[1]], es)
<1> DEFINE m == [l EXCEPT ![1] = l[2], ![2] = l[1]]
           rest == SubSeq(l, 3, Len(l))
           two == <<l[2], l[1]>>
           z == two \o rest
<1>1. /\ l \in Seq(es) /\ Len(l) \in Nat /\ l \in [1..Len(l) -> es]
      /\ 1 \in 1..Len(l) /\ 2 \in 1..Len(l)
  BY DEF Lists
<1>2. /\ m \in [1..Len(l) -> es]
      /\ m[1] = l[2] /\ m[2] = l[1]
      /\ \A i \in 1..Len(l) : i # 1 /\ i # 2 => m[i] = l[i]
  BY <1>1
<1>3. m \in Seq(es) /\ Len(m) = Len(l)
  <2> HIDE DEF m
  <2> QED BY <1>1, <1>2
<1>4. rest \in Seq(es) /\ Len(rest) = Len(l) - 2 /\ \A i \in 1..Len(rest) : rest[i] = l[i + 2]
  <2>1. rest \in Seq(es) /\ Len(rest) = IF 3 <= Len(l) THEN Len(l) - 3 + 1 ELSE 0
    BY ONLY <1>1
  <2>2. Len(rest) = Len(l) - 2
    BY <1>1, <2>1
  <2>3. \A i \in 1..Len(rest) : rest[i] = l[3 + i - 1]
    BY ONLY <1>1
  <2>4. \A i \in 1..Len(rest) : 3 + i - 1 = i + 2
    BY <1>1, <2>2
  <2> HIDE DEF rest
  <2> QED BY <2>1, <2>2, <2>3, <2>4
<1>5. two \in Seq(es) /\ Len(two) = 2 /\ two[1] = l[2] /\ two[2] = l[1]
  BY <1>1
<1> HIDE DEF two, rest
<1>6. z \in Seq(es) /\ Len(z) = 2 + Len(rest)
      /\ \A i \in 1..2 + Len(rest) : z[i] = IF i <= 2 THEN two[i] ELSE rest[i - 2]
  <2>1. two \in Seq(es) /\ rest \in Seq(es)
    BY <1>4, <1>5
  <2>2. Len(z) = Len(two) + Len(rest) /\ z \in Seq(es)
        /\ \A i \in 1..(Len(two) + Len(rest)) :
              z[i] = IF i <= Len(two) THEN two[i] ELSE rest[i - Len(two)]
    BY ONLY <2>1
  <2> HIDE DEF z
  <2> QED BY <1>5, <2>2
<1> HIDE DEF z, m
<1>7. Len(z) = Len(l)
  BY <1>1, <1>4, <1>6
<1>8. ASSUME NEW i \in 1..Len(l) PROVE m[i] = z[i]
  <2>1. CASE i = 1
    BY <1>2, <1>5, <1>6, <1>7, <2>1
  <2>2. CASE i = 2
    BY <1>2, <1>5, <1>6, <1>7, <2>2
  <2>3. CASE i # 1 /\ i # 2
    <3>1. i \in Int /\ i >= 3 /\ i - 2 \in 1..Len(rest) /\ (i - 2) + 2 = i
      BY <1>1, <1>4, <2>3
    <3>2. z[i] = rest[i - 2] /\ rest[i - 2] = l[i]
      BY <1>4, <1>6, <1>7, <3>1
    <3> QED BY <1>2, <2>3, <3>2
  <2> QED BY <2>1, <2>2, <2>3
<1>9. m = z
  BY <1>3, <1>6, <1>7, <1>8
<1> DEFINE back == [i \in 1..Len(l) |-> IF i = 1 THEN 2 ELSE IF i = 2 THEN 1 ELSE i]
<1>10. /\ \A i \in 1..Len(l) : back[i] \in 1..Len(l) /\ m[i] = l[back[i]] /\ back[back[i]] = i
       /\ \A i, j \in 1..Len(l) : i # j => back[i] # back[j]
  BY <1>1, <1>2
<1> HIDE DEF back
<1>11. ASSUME NEW i \in 1..Len(m), NEW j \in 1..Len(m), i # j PROVE m[i] # m[j]
  <2>1. i \in 1..Len(l) /\ j \in 1..Len(l)
    BY <1>3
  <2>2. back[i] # back[j] /\ back[i] \in 1..Len(l) /\ back[j] \in 1..Len(l)
    BY <1>10, <1>11, <2>1
  <2>3. l[back[i]] # l[back[j]]
    BY <2>2 DEF Lists
  <2> QED BY <1>10, <2>1, <2>3
<1>12. \A e \in es : \E i \in 1..Len(m) : m[i] = e
  <2> TAKE e \in es
  <2>1. PICK i \in 1..Len(l) : l[i] = e
    BY DEF Lists
  <2>2. back[i] \in 1..Len(m) /\ m[back[i]] = e
    BY <1>3, <1>10, <2>1
  <2> QED BY <2>2
<1> QED BY <1>3, <1>9, <1>11, <1>12 DEF Lists, m, z, two, rest

Slices == [kind : {"P", "B0", "B1"}, poc : Int, frame_num : Nat, structure : Structures,
           num_active : Nat \ {0}]

AsB0(s) == [s EXCEPT !.kind = "B0"]

\* l lists the buffer as the standard does before the exchange.
Begins(l, es, s) == Lists(l, es) /\ l = Initial(es, s)

(* So the two exchanges come to the same.                                  *)
LEMMA SwapFollows ==
    ASSUME NEW es, NEW s \in Slices, Apart(es), s.kind = "B1",
           Begins(RefListL0B(es, s), es, AsB0(s)),
           Begins(InterleavedB(AfterCurrent(es, s) \o BeforeCurrent(es, s), es, s), es, s)
    PROVE  Lists(RefListL1B(es, s), es) /\ RefListL1B(es, s) = Swapped(es, s)
<1> DEFINE l1 == InterleavedB(AfterCurrent(es, s) \o BeforeCurrent(es, s), es, s)
           l0 == RefListL0B(es, s)
           exchanged == [l1 EXCEPT ![1] = l1[2], ![2] = l1[1]]
           same == /\ Len(l1) > 1 /\ Len(l1) = Len(l0)
                   /\ \A i \in DOMAIN l1 : l1[i].pic.poc = l0[i].pic.poc
<1>1. RefListL1B(es, s) = IF same THEN exchanged ELSE l1
  BY DEF RefListL1B
<1>2. /\ Lists(l1, es) /\ l1 = Initial(es, s)
      /\ Lists(l0, es) /\ l0 = Initial(es, AsB0(s))
  BY DEF Begins
<1> HIDE DEF l1, l0
<1>3. same <=> Len(l1) > 1 /\ l1 = l0
  BY <1>2, SameCounts
<1>4. Swapped(es, s) = IF Len(l1) > 1 /\ l1 = l0
                       THEN <<l1[2], l1[1]>> \o SubSeq(l1, 3, Len(l1)) ELSE l1
  BY <1>2, Zenon DEF Swapped, AsB0
<1>5. Len(l1) > 1 => /\ exchanged = <<l1[2], l1[1]>> \o SubSeq(l1, 3, Len(l1))
                     /\ Lists(exchanged, es)
  BY <1>2, FirstTwo
<1> DEFINE other == <<l1[2], l1[1]>> \o SubSeq(l1, 3, Len(l1))
<1> HIDE DEF exchanged, same
<1>6. Swapped(es, s) = IF same THEN other ELSE l1
  BY <1>3, <1>4, Zenon
<1>7. same => exchanged = other /\ Lists(exchanged, es)
  BY <1>3, <1>5, Zenon
<1> HIDE DEF other
<1>8. CASE same
  BY <1>1, <1>6, <1>7, <1>8, Zenon
<1>9. CASE ~ same
  BY <1>1, <1>2, <1>6, <1>9, Zenon
<1> QED BY <1>8, <1>9

(* The lists of a frame.                                                   *)
LEMMA FrameLists ==
    ASSUME NEW es, NEW s \in Slices, FrameBuffer(es, s), s.kind = "P" => InOutputOrder(es)
    PROVE  Lists(InitialList(es, s), es) /\ InitialList(es, s) = Swapped(es, s)
<1> DEFINE S == Shorts(es)
           L == Longs(es)
           long == LongTermRefList(es)
           a == BeforeCurrent(es, s)
           b == AfterCurrent(es, s)
<1>1. S \cap L = {} /\ es = S \cup L
  BY DEF Shorts, Longs, FrameBuffer, ShortTerm
<1>2. Lists(long, L) /\ InitialOf(es, L, s) = long
  BY LongTermFrames
<1>3. CASE s.kind = "P"
  <2>1. Lists(PSorted(es, s), S) /\ InitialOf(es, S, s) = PSorted(es, s)
    BY <1>3, PFrames
  <2>2. Initial(es, s) = PSorted(es, s) \o long
    BY <1>2, <2>1 DEF Initial
  <2>3. InitialList(es, s) = PSorted(es, s) \o long
    BY <1>3, ShortTermSorted DEF InitialList
  <2>4. Swapped(es, s) = Initial(es, s)
    BY <1>3 DEF Swapped
  <2>5. Lists(PSorted(es, s) \o long, es)
    <3> HIDE DEF S, L, long
    <3> QED BY <1>1, <1>2, <2>1, ListsJoin
  <2> QED BY <2>2, <2>3, <2>4, <2>5
<1>4. Lists(a \o b, S) /\ Lists(b \o a, S)
  BY BFrames
<1>5. ~ IsField(s)
  BY DEF FrameBuffer
<1>6. RefListL0B(es, s) = (a \o b) \o long /\ InterleavedB(b \o a, es, s) = (b \o a) \o long
  BY <1>5 DEF RefListL0B, InterleavedB
<1>7. Lists((a \o b) \o long, es) /\ Lists((b \o a) \o long, es)
  <2> HIDE DEF S, L, long, a, b
  <2> QED BY <1>1, <1>2, <1>4, ListsJoin
<1>8. CASE s.kind = "B0"
  <2>1. InitialOf(es, S, s) = a \o b
    BY <1>8, BFrames
  <2>2. Initial(es, s) = (a \o b) \o long
    BY <1>2, <2>1 DEF Initial
  <2>3. Swapped(es, s) = Initial(es, s)
    BY <1>8 DEF Swapped
  <2>4. InitialList(es, s) = RefListL0B(es, s)
    BY <1>8 DEF InitialList
  <2> QED BY <1>6, <1>7, <2>2, <2>3, <2>4
<1>9. CASE s.kind = "B1"
  <2>1. InitialOf(es, S, s) = b \o a
    BY <1>9, BFrames
  <2>2. Begins(InterleavedB(b \o a, es, s), es, s)
    BY <1>2, <1>6, <1>7, <2>1 DEF Initial, Begins
  <2> DEFINE t == AsB0(s)
  <2>3. /\ t \in Slices /\ t.kind = "B0" /\ t.poc = s.poc /\ t.frame_num = s.frame_num
        /\ t.structure = s.structure
    BY DEF AsB0, Slices
  <2> HIDE DEF t
  <2>4. FrameBuffer(es, t)
    BY <2>3 DEF FrameBuffer, IsField, FrameNumWrap
  <2>5. BeforeCurrent(es, t) = a /\ AfterCurrent(es, t) = b
    BY <2>3 DEF BeforeCurrent, AfterCurrent
  <2>6. InitialOf(es, S, t) = a \o b /\ InitialOf(es, L, t) = long
    BY <2>3, <2>4, <2>5, BFrames, LongTermFrames
  <2>7. Begins(RefListL0B(es, s), es, t)
    BY <1>6, <1>7, <2>6 DEF Initial, Begins
  <2>8. Apart(es)
    BY DEF FrameBuffer, Apart
  <2>9. Lists(RefListL1B(es, s), es) /\ RefListL1B(es, s) = Swapped(es, s)
    <3> HIDE DEF a, b
    <3> QED BY <1>9, <2>2, <2>7, <2>8, SwapFollows DEF t, a, b
  <2> QED BY <1>9, <2>9 DEF InitialList
<1> QED BY <1>3, <1>8, <1>9 DEF Slices

-----------------------------------------------------------------------------
(* Initial lists of fields.                                                *)

(* Fields of one frame after the other, for the frames of g.               *)
Woven(g, D, O) ==
    [k \in 1..2 * Len(g) |-> IF k % 2 = 1 THEN D[g[(k + 1) \div 2]] ELSE O[g[k \div 2]]]

(* Each place of a list of fields is the first or the second of a frame.   *)
LEMMA Turns ==
    ASSUME NEW n \in Nat, NEW k \in 1..2 * n
    PROVE  \E q \in 1..n : k = 2 * q - 1 \/ k = 2 * q
<1>1. CASE k % 2 = 1
  <2>1. (k + 1) \div 2 \in 1..n /\ k = 2 * ((k + 1) \div 2) - 1
    BY <1>1
  <2> QED BY <2>1
<1>2. CASE k % 2 = 0
  <2>1. k \div 2 \in 1..n /\ k = 2 * (k \div 2)
    BY <1>2
  <2> QED BY <2>1
<1>3. k % 2 = 1 \/ k % 2 = 0
  OBVIOUS
<1> QED BY <1>1, <1>2, <1>3

Weaves(w, g, D, O, es) ==
    /\ w \in Seq(es) /\ Len(w) = 2 * Len(g)
    /\ \A q \in 1..Len(g) : w[2 * q - 1] = D[g[q]] /\ w[2 * q] = O[g[q]]

\* The frames of T have two fields each, which are all of es.
Paired(D, O, T, es) ==
    /\ \A i \in T : D[i] \in es /\ O[i] \in es
    /\ \A i, j \in T : (D[i] = D[j] => i = j) /\ (O[i] = O[j] => i = j) /\ D[i] # O[j]
    /\ \A e \in es : \E i \in T : e = D[i] \/ e = O[i]

(* The woven list has the two fields of the frame at q at 2q - 1 and 2q.   *)
LEMMA WovenAt ==
    ASSUME NEW T, NEW g \in Seq(T), NEW es, NEW D, NEW O, Paired(D, O, T, es)
    PROVE  Weaves(Woven(g, D, O), g, D, O, es)
<1> DEFINE w == Woven(g, D, O)
           m == 2 * Len(g)
<1>1. Len(g) \in Nat /\ m \in Nat /\ \A q \in 1..Len(g) : g[q] \in T
  OBVIOUS
<1>2. ASSUME NEW q \in 1..Len(g)
      PROVE  /\ 2 * q - 1 \in 1..m /\ 2 * q \in 1..m
             /\ (2 * q - 1) % 2 = 1 /\ (2 * q) % 2 = 0
             /\ (2 * q - 1 + 1) \div 2 = q /\ (2 * q) \div 2 = q
  BY <1>1
<1>3. w = [k \in 1..m |-> IF k % 2 = 1 THEN D[g[(k + 1) \div 2]] ELSE O[g[k \div 2]]]
  BY DEF Woven
<1>4. ASSUME NEW q \in 1..Len(g) PROVE w[2 * q - 1] = D[g[q]] /\ w[2 * q] = O[g[q]]
  BY <1>2, <1>3
<1>5. ASSUME NEW k \in 1..m PROVE w[k] \in es
  <2>1. PICK q \in 1..Len(g) : k = 2 * q - 1 \/ k = 2 * q
    BY <1>1, Turns
  <2>2. D[g[q]] \in es /\ O[g[q]] \in es
    BY <1>1 DEF Paired
  <2> HIDE DEF w
  <2> QED BY <1>4, <2>1, <2>2
<1>6. DOMAIN w = 1..m /\ w = [k \in 1..m |-> w[k]]
  BY <1>3
<1> HIDE DEF w
<1>7. w \in [1..m -> es]
  BY <1>5, <1>6
<1>8. w \in Seq(es) /\ Len(w) = m
  <2> HIDE DEF m
  <2> QED BY <1>1, <1>7
<1> QED BY <1>4, <1>8 DEF w, Weaves

(* A list of all frames weaves to a list of all fields.                    *)
LEMMA WovenLists ==
    ASSUME NEW T, NEW g, Lists(g, T), NEW es, NEW D, NEW O, Paired(D, O, T, es)
    PROVE  Lists(Woven(g, D, O), es)
<1> USE DEF Paired
<1> DEFINE w == Woven(g, D, O)
<1>1. g \in Seq(T) /\ Len(g) \in Nat /\ \A q \in 1..Len(g) : g[q] \in T
  BY DEF Lists
<1>2. w \in Seq(es) /\ Len(w) = 2 * Len(g)
      /\ \A q \in 1..Len(g) : w[2 * q - 1] = D[g[q]] /\ w[2 * q] = O[g[q]]
  <2>1. Weaves(w, g, D, O, es)
    BY <1>1, WovenAt
  <2> QED BY <2>1 DEF Weaves
<1> HIDE DEF w
<1>3. ASSUME NEW k \in 1..Len(w), NEW m \in 1..Len(w), w[k] = w[m] PROVE k = m
  <2> k \in 1..2 * Len(g) /\ m \in 1..2 * Len(g)
    BY <1>2
  <2>1. PICK q \in 1..Len(g) : k = 2 * q - 1 \/ k = 2 * q
    BY <1>1, <1>2, Turns
  <2>2. PICK r \in 1..Len(g) : m = 2 * r - 1 \/ m = 2 * r
    BY <1>1, <1>2, Turns
  <2>3. g[q] \in T /\ g[r] \in T /\ (g[q] = g[r] => q = r)
    BY <1>1 DEF Lists
  <2>4. CASE k = 2 * q - 1 /\ m = 2 * r - 1
    BY <1>2, <1>3, <2>3, <2>4
  <2>5. CASE k = 2 * q /\ m = 2 * r
    BY <1>2, <1>3, <2>3, <2>5
  <2>6. CASE k = 2 * q - 1 /\ m = 2 * r
    BY <1>2, <1>3, <2>3, <2>6
  <2>7. CASE k = 2 * q /\ m = 2 * r - 1
    BY <1>2, <1>3, <2>3, <2>7
  <2> QED BY <2>1, <2>2, <2>4, <2>5, <2>6, <2>7
<1>4. ASSUME NEW e \in es PROVE \E k \in 1..Len(w) : w[k] = e
  <2>1. PICK i \in T : e = D[i] \/ e = O[i]
    OBVIOUS
  <2>2. PICK q \in 1..Len(g) : g[q] = i
    BY DEF Lists
  <2>3. 2 * q - 1 \in 1..Len(w) /\ 2 * q \in 1..Len(w)
    BY <1>1, <1>2
  <2> QED BY <1>2, <2>1, <2>2, <2>3
<1> QED BY <1>2, <1>3, <1>4 DEF Lists, w

\* es has the fields D[i] and O[i] of n frames, with order counts c[i] and
\* c[i] + 1; D[i] has the parity of the slice.
FieldBuffer(es, s, n, D, O, c, d) ==
    /\ n \in Nat /\ d \in {0, 1} /\ IsField(s) /\ s.poc \in Int
    /\ D \in [1..n -> es] /\ O \in [1..n -> es] /\ c \in [1..n -> Int]
    /\ \A e \in es : /\ e.pic.id \in Int /\ e.pic.poc \in Int /\ e.ref = ShortTerm
                     /\ \E i \in 1..n : e = D[i] \/ e = O[i]
    /\ \A i \in 1..n : /\ Parity(D[i], s) /\ ~Parity(O[i], s)
                       /\ SameParity(D[i], s) /\ ~SameParity(O[i], s)
                       /\ D[i].pic.frame_num = O[i].pic.frame_num
                       /\ D[i].pic.poc = c[i] + d /\ O[i].pic.poc = c[i] + 1 - d
                       /\ c[i] # s.poc /\ FrameNumWrap(D[i], s) \in Int
    /\ \A i, j \in 1..n : i # j => /\ D[i].pic.frame_num # D[j].pic.frame_num
                                   /\ c[i] # c[j] /\ c[i] + 1 # c[j]
    /\ \A i, j \in 1..n : i < j => /\ FrameNumWrap(D[i], s) < FrameNumWrap(D[j], s)
                                   /\ s.kind = "P" => c[i] < c[j]

(* All fields are short-term.                                              *)
LEMMA FieldSets ==
    ASSUME NEW es, NEW s, NEW n, NEW D, NEW O, NEW c, NEW d, FieldBuffer(es, s, n, D, O, c, d)
    PROVE  /\ Shorts(es) = es /\ Longs(es) = {}
           /\ LongTermRefList(es) = <<>> /\ InitialOf(es, {}, s) = <<>>
           /\ Paired(D, O, 1..n, es)
           /\ Apart(es)
<1>1. Shorts(es) = es /\ Longs(es) = {}
  BY DEF FieldBuffer, Shorts, Longs, ShortTerm
<1>2. Cardinality({}) = 0
  BY FS_EmptySet
<1>3. LongTermRefList(es) = <<>>
  BY <1>1, <1>2 DEF LongTermRefList, Sorted
<1>4. InitialOf(es, {}, s) = <<>>
  <2>1. IsField(s)
    BY DEF FieldBuffer
  <2>2. {e \in {} : Parity(e, s)} = {} /\ {} \ {} = {}
    OBVIOUS
  <2>3. Ordered(es, s, {}) = <<>>
    BY <1>2 DEF Ordered, Sorted
  <2>4. InitialOf(es, {}, s) = ByTurns(Ordered(es, s, {}), Ordered(es, s, {}))
    BY <2>1, <2>2, Zenon DEF InitialOf, Ordered
  <2>5. ByTurns(<<>>, <<>>) = <<>>
    BY DEF ByTurns
  <2> QED BY <2>3, <2>4, <2>5
<1>5. ASSUME NEW i \in 1..n, NEW j \in 1..n
      PROVE  (D[i] = D[j] => i = j) /\ (O[i] = O[j] => i = j) /\ D[i] # O[j]
  <2>1. /\ Parity(D[i], s) /\ ~Parity(O[j], s)
        /\ D[i].pic.frame_num = O[i].pic.frame_num /\ D[j].pic.frame_num = O[j].pic.frame_num
        /\ i # j => D[i].pic.frame_num # D[j].pic.frame_num
    BY DEF FieldBuffer
  <2> QED BY <2>1
<1>6. Apart(es)
  <2> SUFFICES ASSUME NEW e \in es, NEW f \in es, e.pic.poc = f.pic.poc PROVE e = f
    BY DEF Apart
  <2>1. PICK i \in 1..n : e = D[i] \/ e = O[i]
    BY DEF FieldBuffer
  <2>2. PICK j \in 1..n : f = D[j] \/ f = O[j]
    BY DEF FieldBuffer
  <2>3. /\ d \in {0, 1} /\ c[i] \in Int /\ c[j] \in Int
        /\ D[i].pic.poc = c[i] + d /\ O[i].pic.poc = c[i] + 1 - d
        /\ D[j].pic.poc = c[j] + d /\ O[j].pic.poc = c[j] + 1 - d
        /\ i # j => c[i] # c[j] /\ c[i] + 1 # c[j] /\ c[j] + 1 # c[i]
    BY DEF FieldBuffer
  <2>4. i = j
    BY <2>1, <2>2, <2>3
  <2> QED BY <2>1, <2>2, <2>3, <2>4
<1>7. Paired(D, O, 1..n, es)
  BY <1>5 DEF FieldBuffer, Paired
<1> QED BY <1>1, <1>3, <1>4, <1>6, <1>7

(* Both fields of a frame have its order count.                            *)
LEMMA FieldCount ==
    ASSUME NEW es, NEW s, NEW n, NEW D, NEW O, NEW c, NEW d, FieldBuffer(es, s, n, D, O, c, d),
           NEW i \in 1..n
    PROVE  OrderCount(es, D[i]) = c[i] /\ OrderCount(es, O[i]) = c[i]
<1>1. ASSUME NEW e, e = D[i] \/ e = O[i] PROVE OrderCount(es, e) = c[i]
  <2> DEFINE frame == {f \in es : f.pic.frame_num = e.pic.frame_num /\ f.ref = e.ref}
             N == {f.pic.poc : f \in frame}
  <2>1. /\ D[i] \in es /\ O[i] \in es /\ d \in {0, 1} /\ c[i] \in Int
        /\ D[i].pic.poc = c[i] + d /\ O[i].pic.poc = c[i] + 1 - d
        /\ D[i].ref = ShortTerm /\ O[i].ref = ShortTerm
        /\ D[i].pic.frame_num = O[i].pic.frame_num
    BY DEF FieldBuffer
  <2>2. D[i] \in frame /\ O[i] \in frame
    BY <1>1, <2>1
  <2>3. \A f \in frame : f = D[i] \/ f = O[i]
    <3> TAKE f \in frame
    <3>1. PICK j \in 1..n : f = D[j] \/ f = O[j]
      BY DEF FieldBuffer
    <3>2. D[j].pic.frame_num = D[i].pic.frame_num
      BY <1>1, <2>1, <3>1 DEF FieldBuffer
    <3>3. i = j
      BY <3>2 DEF FieldBuffer
    <3> QED BY <3>1, <3>3
  <2>4. OrderCount(es, e) = CHOOSE x \in N : \A f \in frame : x <= f.pic.poc
    BY DEF OrderCount
  <2> HIDE DEF frame
  <2>5. N = {c[i], c[i] + 1}
    <3>1. N = {D[i].pic.poc, O[i].pic.poc}
      BY <2>2, <2>3
    <3> HIDE DEF N
    <3> QED BY <2>1, <3>1
  <2> HIDE DEF N
  <2>6. \A x \in N : (\A f \in frame : x <= f.pic.poc) <=> x = c[i]
    BY <2>1, <2>2, <2>3, <2>5
  <2>7. c[i] \in N
    BY <2>5
  <2> QED BY <2>4, <2>6, <2>7
<1> QED BY <1>1

\* D gives each of T an element of S of its own, and S has no other.
Covers(D, T, S) ==
    /\ \A i \in T : D[i] \in S
    /\ \A i, j \in T : D[i] = D[j] => i = j
    /\ \A e \in S : \E i \in T : e = D[i]

OrderedBy(es, s, T, D, R) == \A i, j \in T : FrameOrder(es, s, D[i], D[j]) <=> <<i, j>> \in R

Taken(g, D) == [k \in 1..Len(g) |-> D[g[k]]]

(* One of the two parities of the frames, in the order of the frames.      *)
LEMMA ParityOrdered ==
    ASSUME NEW es, NEW s, NEW T, NEW D, NEW R, NEW g, InOrder(g, T, R), NEW S,
           Covers(D, T, S), OrderedBy(es, s, T, D, R)
    PROVE  Ordered(es, s, S) = Taken(g, D)
<1> DEFINE l == Taken(g, D)
<1>1. Lists(g, T) /\ \A i, j \in 1..Len(g) : <<g[i], g[j]>> \in R <=> i < j
  BY DEF InOrder
<1>2. Len(g) \in Nat /\ \A k \in 1..Len(g) : g[k] \in T
  BY <1>1 DEF Lists
<1>3. l \in Seq(S) /\ Len(l) = Len(g) /\ \A k \in 1..Len(g) : l[k] = D[g[k]]
  BY <1>2 DEF Covers, Taken
<1> HIDE DEF l
<1>4. Lists(l, S)
  <2>1. ASSUME NEW i \in 1..Len(l), NEW j \in 1..Len(l), i # j PROVE l[i] # l[j]
    <3>1. g[i] # g[j] /\ g[i] \in T /\ g[j] \in T
      BY <1>1, <1>2, <1>3, <2>1 DEF Lists
    <3> QED BY <1>3, <3>1 DEF Covers
  <2>2. ASSUME NEW e \in S PROVE \E i \in 1..Len(l) : l[i] = e
    <3>1. PICK i \in T : e = D[i]
      BY DEF Covers
    <3>2. PICK k \in 1..Len(g) : g[k] = i
      BY <1>1 DEF Lists
    <3> QED BY <1>3, <3>1, <3>2
  <2> QED BY <1>3, <2>1, <2>2 DEF Lists
<1>5. ASSUME NEW i \in 1..Len(l), NEW j \in 1..Len(l)
      PROVE  FrameOrder(es, s, l[i], l[j]) <=> i < j
  <2>1. g[i] \in T /\ g[j] \in T /\ l[i] = D[g[i]] /\ l[j] = D[g[j]]
    BY <1>2, <1>3
  <2>2. FrameOrder(es, s, D[g[i]], D[g[j]]) <=> <<g[i], g[j]>> \in R
    BY <2>1 DEF OrderedBy
  <2>3. <<g[i], g[j]>> \in R <=> i < j
    BY <1>1, <1>3
  <2> QED BY <2>1, <2>2, <2>3, Zenon
<1>6. Ordered(es, s, S) = l
  BY <1>4, <1>5, OrderedIs
<1> QED BY <1>6 DEF l

(* As many fields of each parity are taken by turns to the end.            *)
LEMMA TurnsWeave ==
    ASSUME NEW T, NEW g, Lists(g, T), NEW es, NEW D, NEW O, Paired(D, O, T, es)
    PROVE  ByTurns(Taken(g, D), Taken(g, O)) = Woven(g, D, O)
<1> DEFINE x == Taken(g, D)
           y == Taken(g, O)
           n == Len(g)
           w == [k \in 1..2 * n |-> IF k % 2 = 1 THEN x[(k + 1) \div 2] ELSE y[k \div 2]]
<1>1. n \in Nat /\ g \in Seq(T) /\ \A k \in 1..n : g[k] \in T
  BY DEF Lists
<1> USE DEF Paired
<1>2. x \in Seq(es) /\ Len(x) = n /\ y \in Seq(es) /\ Len(y) = n
      /\ \A k \in 1..n : x[k] = D[g[k]] /\ y[k] = O[g[k]]
  BY <1>1 DEF Taken
<1> HIDE DEF x, y
<1>3. ByTurns(x, y) = w \o SubSeq(x, n + 1, n) \o SubSeq(y, n + 1, n)
  BY <1>2 DEF ByTurns
<1>4. ASSUME NEW k \in 1..2 * n
      PROVE  w[k] = IF k % 2 = 1 THEN D[g[(k + 1) \div 2]] ELSE O[g[k \div 2]]
  <2>1. CASE k % 2 = 1
    <3>1. (k + 1) \div 2 \in 1..n
      BY <1>1, <2>1
    <3> QED BY <1>2, <2>1, <3>1
  <2>2. CASE k % 2 # 1
    <3>1. k \div 2 \in 1..n
      BY <1>1, <2>2
    <3> QED BY <1>2, <2>2, <3>1
  <2> QED BY <2>1, <2>2
<1>5. w = Woven(g, D, O)
  <2>1. w = [k \in 1..2 * n |-> w[k]]
    OBVIOUS
  <2> HIDE DEF w
  <2> QED BY <1>4, <2>1 DEF Woven
<1>6. w \in Seq(es)
  <2>1. Weaves(Woven(g, D, O), g, D, O, es)
    BY <1>1, WovenAt
  <2> QED BY <1>5, <2>1 DEF Weaves
<1>7. SubSeq(x, n + 1, n) = <<>> /\ SubSeq(y, n + 1, n) = <<>>
  BY <1>1, <1>2
<1> HIDE DEF w
<1>8. w \o <<>> = w
  BY <1>6
<1> QED BY <1>3, <1>5, <1>7, <1>8 DEF x, y

(* The fields of the standard's list are those of its frames by turns.     *)
LEMMA FieldsInOrder ==
    ASSUME NEW es, NEW s, NEW n, NEW D, NEW O, NEW c, NEW d, FieldBuffer(es, s, n, D, O, c, d),
           NEW R, OrderedBy(es, s, 1..n, D, R), OrderedBy(es, s, 1..n, O, R),
           NEW g, InOrder(g, 1..n, R)
    PROVE  Begins(Woven(g, D, O), es, s)
<1> DEFINE S == {e \in es : Parity(e, s)}
           T == es \ S
           F == 1..n
<1>1. /\ D \in [F -> es] /\ O \in [F -> es] /\ IsField(s)
      /\ \A i \in F : Parity(D[i], s) /\ ~ Parity(O[i], s)
  BY DEF FieldBuffer
<1>2. Paired(D, O, F, es)
  BY FieldSets
<1>3. Covers(D, F, S)
  BY <1>1, <1>2 DEF Paired, Covers
<1>4. Covers(O, F, T)
  BY <1>1, <1>2 DEF Paired, Covers
<1>5. Lists(g, F) /\ g \in Seq(F)
  BY DEF InOrder, Lists
<1>6. InitialOf(es, es, s) = ByTurns(Ordered(es, s, S), Ordered(es, s, T))
  BY <1>1 DEF InitialOf, Ordered
<1>7. InOrder(g, F, R) /\ OrderedBy(es, s, F, D, R) /\ OrderedBy(es, s, F, O, R)
  OBVIOUS
<1> HIDE DEF S, T, F
<1>8. Ordered(es, s, S) = Taken(g, D) /\ Ordered(es, s, T) = Taken(g, O)
  BY <1>3, <1>4, <1>7, ParityOrdered
<1>9. ByTurns(Taken(g, D), Taken(g, O)) = Woven(g, D, O)
  BY <1>2, <1>5, TurnsWeave
<1>10. Lists(Woven(g, D, O), es)
  BY <1>2, <1>5, WovenLists
<1>11. Initial(es, s) = Woven(g, D, O) \o <<>>
  BY <1>6, <1>8, <1>9, FieldSets DEF Initial
<1>12. Woven(g, D, O) \o <<>> = Woven(g, D, O)
  BY <1>10 DEF Lists
<1> QED BY <1>10, <1>11, <1>12 DEF Begins

\* l has the two fields of each frame of g next to each other.
Couples(l, g, D, O, es) ==
    /\ l \in Seq(es) /\ Len(l) = 2 * Len(g)
    /\ \A q \in 1..Len(g) : \/ l[2 * q - 1] = D[g[q]] /\ l[2 * q] = O[g[q]]
                            \/ l[2 * q - 1] = O[g[q]] /\ l[2 * q] = D[g[q]]

(* So the fields of a frame are next to each other, either way round.      *)
LEMMA WovenCouples ==
    ASSUME NEW l, NEW g, NEW D, NEW O, NEW es, Weaves(l, g, D, O, es)
    PROVE  Couples(l, g, D, O, es) /\ Couples(l, g, O, D, es)
BY DEF Weaves, Couples

(* They still are when one such list is put behind another: the entries    *)
(* before the current picture and those after it (dpb.rs:196, 240).        *)
LEMMA CouplesJoin ==
    ASSUME NEW x, NEW y, NEW g, NEW h, NEW D, NEW O, NEW es, NEW T, g \in Seq(T), h \in Seq(T),
           Couples(x, g, D, O, es), Couples(y, h, D, O, es)
    PROVE  Couples(x \o y, g \o h, D, O, es)
<1> DEFINE z == x \o y
           k == g \o h
<1>1. /\ x \in Seq(es) /\ y \in Seq(es) /\ Len(x) = 2 * Len(g) /\ Len(y) = 2 * Len(h)
      /\ Len(g) \in Nat /\ Len(h) \in Nat
  BY DEF Couples
<1>2. /\ k \in Seq(T) /\ Len(k) = Len(g) + Len(h)
      /\ \A q \in 1..(Len(g) + Len(h)) : k[q] = IF q <= Len(g) THEN g[q] ELSE h[q - Len(g)]
  <2>1. g \in Seq(T) /\ h \in Seq(T)
    OBVIOUS
  <2> QED BY ONLY <2>1
<1>3. /\ z \in Seq(es) /\ Len(z) = Len(x) + Len(y)
      /\ \A q \in 1..(Len(x) + Len(y)) : z[q] = IF q <= Len(x) THEN x[q] ELSE y[q - Len(x)]
  <2>1. x \in Seq(es) /\ y \in Seq(es)
    BY <1>1
  <2> QED BY ONLY <2>1
<1> HIDE DEF z, k
<1>4. ASSUME NEW q \in 1..Len(k)
      PROVE  \/ z[2 * q - 1] = D[k[q]] /\ z[2 * q] = O[k[q]]
             \/ z[2 * q - 1] = O[k[q]] /\ z[2 * q] = D[k[q]]
  <2>1. CASE q <= Len(g)
    <3>1. q \in 1..Len(g) /\ 2 * q - 1 \in 1..Len(x) /\ 2 * q \in 1..Len(x)
      BY <1>1, <1>2, <2>1
    <3>2. k[q] = g[q]
      BY <1>2, <2>1
    <3>3. 2 * q - 1 \in 1..(Len(x) + Len(y)) /\ 2 * q - 1 <= Len(x)
          /\ 2 * q \in 1..(Len(x) + Len(y)) /\ 2 * q <= Len(x)
      BY <1>1, <3>1
    <3>4. z[2 * q - 1] = x[2 * q - 1] /\ z[2 * q] = x[2 * q]
      BY <1>3, <3>3
    <3> QED BY <3>1, <3>2, <3>4 DEF Couples
  <2>2. CASE ~ (q <= Len(g))
    <3> DEFINE r == q - Len(g)
    <3>1. r \in 1..Len(h) /\ 2 * q - 1 - Len(x) = 2 * r - 1 /\ 2 * q - Len(x) = 2 * r
      BY <1>1, <1>2, <2>2
    <3>2. k[q] = h[r]
      BY <1>2, <2>2
    <3>3. 2 * q - 1 \in 1..(Len(x) + Len(y)) /\ ~ (2 * q - 1 <= Len(x))
          /\ 2 * q \in 1..(Len(x) + Len(y)) /\ ~ (2 * q <= Len(x))
      BY <1>1, <1>2, <2>2
    <3> HIDE DEF r
    <3>4. z[2 * q - 1] = y[2 * r - 1] /\ z[2 * q] = y[2 * r]
      BY <1>3, <3>1, <3>3
    <3> QED BY <3>1, <3>2, <3>4 DEF Couples
  <2> QED BY <2>1, <2>2
<1>5. Len(z) = 2 * Len(k)
  BY <1>1, <1>2, <1>3
<1> QED BY <1>3, <1>4, <1>5 DEF z, k, Couples

(* FieldParityInterleave takes the fields by turns if those of one frame   *)
(* are next to each other.                                                 *)
LEMMA Interleave ==
    ASSUME NEW es, NEW s, NEW n, NEW D, NEW O, NEW c, NEW d, FieldBuffer(es, s, n, D, O, c, d),
           NEW g, Lists(g, 1..n), NEW l, Couples(l, g, D, O, es)
    PROVE  FieldParityInterleave(l, s) = Woven(g, D, O)
<1> DEFINE m == 2 * Len(g)
           Same(i, j) == {i, j} \subseteq DOMAIN l /\ l[i].pic.frame_num = l[j].pic.frame_num
           Swaps(i) == /\ Same(i, i + 1) /\ ~Same(i - 1, i) /\ ~Same(i + 1, i + 2)
                       /\ ~SameParity(l[i], s) /\ SameParity(l[i + 1], s)
           p == [i \in DOMAIN l |-> IF Swaps(i) THEN l[i + 1]
                                    ELSE IF Swaps(i - 1) THEN l[i - 1] ELSE l[i]]
<1>1. FieldParityInterleave(l, s) = p
  BY DEF FieldParityInterleave
<1>2. l \in Seq(es) /\ Len(l) = m /\ DOMAIN l = 1..m /\ Len(g) \in Nat
      /\ \A q \in 1..Len(g) : g[q] \in 1..n
  <2>1. l \in Seq(es) /\ g \in Seq(1..n) /\ Len(l) = m
    BY DEF Couples, Lists
  <2>2. DOMAIN l = 1..m
    <3> HIDE DEF m
    <3> QED BY <2>1
  <2>3. Len(g) \in Nat /\ \A q \in 1..Len(g) : g[q] \in 1..n
    <3> DEFINE F == 1..n
    <3>1. g \in Seq(F)
      BY <2>1
    <3> HIDE DEF F
    <3>2. Len(g) \in Nat /\ \A q \in 1..Len(g) : g[q] \in F
      BY ONLY <3>1
    <3> QED BY <3>2 DEF F
  <2> QED BY <2>1, <2>2, <2>3
<1>3. ASSUME NEW q \in 1..Len(g)
      PROVE  /\ l[2 * q - 1].pic.frame_num = D[g[q]].pic.frame_num
             /\ l[2 * q].pic.frame_num = D[g[q]].pic.frame_num
             /\ SameParity(D[g[q]], s) /\ ~SameParity(O[g[q]], s)
             /\ \/ l[2 * q - 1] = D[g[q]] /\ l[2 * q] = O[g[q]]
                \/ l[2 * q - 1] = O[g[q]] /\ l[2 * q] = D[g[q]]
  <2>1. g[q] \in 1..n
    BY <1>2
  <2>2. /\ D[g[q]].pic.frame_num = O[g[q]].pic.frame_num
        /\ SameParity(D[g[q]], s) /\ ~SameParity(O[g[q]], s)
    BY <2>1 DEF FieldBuffer
  <2> QED BY <2>2 DEF Couples
<1>4. ASSUME NEW q \in 1..Len(g), NEW r \in 1..Len(g), q # r
      PROVE  D[g[q]].pic.frame_num # D[g[r]].pic.frame_num
  <2>1. g[q] \in 1..n /\ g[r] \in 1..n /\ g[q] # g[r]
    BY <1>2, <1>4 DEF Lists
  <2> QED BY <2>1 DEF FieldBuffer
<1>5. ASSUME NEW q \in 1..Len(g) PROVE Same(2 * q - 1, 2 * q)
  <2>1. 2 * q - 1 \in 1..m /\ 2 * q \in 1..m
    BY <1>2
  <2> QED BY <1>2, <1>3, <2>1
<1>6. ASSUME NEW q \in 0..Len(g) PROVE ~Same(2 * q, 2 * q + 1)
  <2>1. CASE q = 0
    BY <1>2, <2>1
  <2>2. CASE q = Len(g)
    BY <1>2, <2>2
  <2>3. CASE q # 0 /\ q # Len(g)
    <3>1. q \in 1..Len(g) /\ q + 1 \in 1..Len(g) /\ q # q + 1 /\ 2 * (q + 1) - 1 = 2 * q + 1
      BY <1>2, <2>3
    <3>2. l[2 * q].pic.frame_num # l[2 * (q + 1) - 1].pic.frame_num
      BY <1>3, <1>4, <3>1
    <3> QED BY <3>1, <3>2
  <2> QED BY <2>1, <2>2, <2>3
<1> HIDE DEF Same
<1>7. ASSUME NEW q \in 0..Len(g) PROVE ~Swaps(2 * q)
  BY <1>6
<1>8. ASSUME NEW q \in 1..Len(g) PROVE Swaps(2 * q - 1) <=> l[2 * q - 1] = O[g[q]]
  <2>1. /\ 2 * q - 1 + 1 = 2 * q /\ 2 * q - 1 - 1 = 2 * (q - 1) /\ 2 * q - 1 + 2 = 2 * q + 1
        /\ 2 * (q - 1) + 1 = 2 * q - 1 /\ q - 1 \in 0..Len(g) /\ q \in 0..Len(g)
    BY <1>2
  <2>2. ~Same(2 * q - 1 - 1, 2 * q - 1) /\ ~Same(2 * q - 1 + 1, 2 * q - 1 + 2)
        /\ Same(2 * q - 1, 2 * q - 1 + 1)
    BY <1>5, <1>6, <2>1
  <2>3. Swaps(2 * q - 1) <=> ~SameParity(l[2 * q - 1], s) /\ SameParity(l[2 * q], s)
    BY <2>1, <2>2
  <2> HIDE DEF Swaps
  <2> QED BY <1>3, <2>3
<1> HIDE DEF Swaps
<1>9. DOMAIN p = 1..m /\ \A k \in 1..m : p[k] = IF Swaps(k) THEN l[k + 1]
                                                ELSE IF Swaps(k - 1) THEN l[k - 1] ELSE l[k]
  BY <1>2
<1>10. p = [k \in 1..m |-> p[k]]
  BY <1>9
<1> HIDE DEF p
<1>11. ASSUME NEW q \in 1..Len(g) PROVE p[2 * q - 1] = D[g[q]] /\ p[2 * q] = O[g[q]]
  <2>1. /\ 2 * q - 1 \in 1..m /\ 2 * q \in 1..m /\ 2 * q - 1 + 1 = 2 * q
        /\ 2 * q - 1 - 1 = 2 * (q - 1) /\ q - 1 \in 0..Len(g) /\ q \in 0..Len(g)
    BY <1>2
  <2>2. p[2 * q - 1] = IF Swaps(2 * q - 1) THEN l[2 * q] ELSE l[2 * q - 1]
    BY <1>7, <1>9, <2>1
  <2>3. p[2 * q] = IF Swaps(2 * q - 1) THEN l[2 * q - 1] ELSE l[2 * q]
    BY <1>7, <1>9, <2>1
  <2>4. D[g[q]] # O[g[q]]
    BY <1>3
  <2> QED BY <1>3, <1>8, <2>2, <2>3, <2>4
<1> DEFINE w == Woven(g, D, O)
<1>12. DOMAIN w = 1..m /\ w = [k \in 1..m |-> w[k]]
  BY DEF Woven
<1>13. \A q \in 1..Len(g) : w[2 * q - 1] = D[g[q]] /\ w[2 * q] = O[g[q]]
  <2>1. g \in Seq(1..n)
    BY DEF Lists
  <2>2. Paired(D, O, 1..n, es)
    BY FieldSets
  <2>3. Weaves(w, g, D, O, es)
    <3> HIDE DEF w
    <3> QED BY <2>1, <2>2, WovenAt DEF w
  <2> QED BY <2>3 DEF Weaves
<1> HIDE DEF w, m
<1>14. ASSUME NEW k \in 1..m PROVE p[k] = w[k]
  <2>1. PICK q \in 1..Len(g) : k = 2 * q - 1 \/ k = 2 * q
    BY <1>2, Turns DEF m
  <2> QED BY <1>11, <1>13, <2>1
<1> QED BY <1>1, <1>10, <1>12, <1>14 DEF w

Down(T, c) == {p \in T \X T : c[p[1]] > c[p[2]]}
Up(T, c)   == {p \in T \X T : c[p[1]] < c[p[2]]}

(* Frames can be listed along their order counts, down and up.             *)
LEMMA OrdersExist ==
    ASSUME NEW T, IsFiniteSet(T), NEW c, \A i \in T : c[i] \in Int,
           \A i, j \in T : c[i] = c[j] => i = j
    PROVE  (\E g : InOrder(g, T, Down(T, c))) /\ (\E g : InOrder(g, T, Up(T, c)))
<1> DEFINE down == [i \in T |-> 0 - c[i]]
           up == [i \in T |-> c[i]]
<1>1. /\ down \in [T -> Int] /\ (\A i, j \in T : down[i] = down[j] => i = j)
      /\ up \in [T -> Int] /\ (\A i, j \in T : up[i] = up[j] => i = j)
      /\ \A i, j \in T : down[i] < down[j] <=> c[i] > c[j]
      /\ \A i, j \in T : up[i] < up[j] <=> c[i] < c[j]
  OBVIOUS
<1> HIDE DEF down, up
<1>2. PICK g : Lists(g, T) /\ \A i, j \in 1..Len(g) : down[g[i]] < down[g[j]] <=> i < j
  BY <1>1, ListByKey
<1>3. PICK h : Lists(h, T) /\ \A i, j \in 1..Len(h) : up[h[i]] < up[h[j]] <=> i < j
  BY <1>1, ListByKey
<1>4. (\A i \in 1..Len(g) : g[i] \in T) /\ \A i \in 1..Len(h) : h[i] \in T
  <2>1. g \in Seq(T) /\ h \in Seq(T)
    BY <1>2, <1>3 DEF Lists
  <2> QED BY <2>1
<1>5. InOrder(g, T, Down(T, c))
  BY <1>1, <1>2, <1>4 DEF InOrder, Down
<1>6. InOrder(h, T, Up(T, c))
  BY <1>1, <1>3, <1>4 DEF InOrder, Up
<1> QED BY <1>5, <1>6

\* The frames of T have the fields H[i], of order count c[i] + 1, and L[i].
Spaced(H, L, T, S, c) ==
    /\ Paired(H, L, T, S) /\ \A i \in T : c[i] \in Int
    /\ \A e \in S : e.pic.poc \in Int /\ e.pic.id \in Int
    /\ \A i \in T : H[i].pic.poc = c[i] + 1 /\ L[i].pic.poc = c[i]
    /\ \A i, j \in T : i # j => c[i] # c[j] /\ c[i] + 1 # c[j]

(* The fields of one frame stay together when fields are sorted.           *)
LEMMA DescendingFields ==
    ASSUME NEW H, NEW L, NEW T, NEW S, NEW c, Spaced(H, L, T, S, c),
           NEW g, InOrder(g, T, Down(T, c))
    PROVE  Descending(S) = Woven(g, H, L)
<1> DEFINE w == Woven(g, H, L)
<1>1. Paired(H, L, T, S) /\ Lists(g, T)
      /\ \A i, j \in 1..Len(g) : <<g[i], g[j]>> \in Down(T, c) <=> i < j
  BY DEF Spaced, InOrder
<1>2. Lists(w, S)
  BY <1>1, WovenLists
<1>3. Len(g) \in Nat /\ g \in Seq(T) /\ \A q \in 1..Len(g) : g[q] \in T
  BY <1>1 DEF Lists
<1>4. Len(w) = 2 * Len(g) /\ \A q \in 1..Len(g) : w[2 * q - 1] = H[g[q]] /\ w[2 * q] = L[g[q]]
  <2>1. Weaves(w, g, H, L, S)
    BY <1>1, <1>3, WovenAt
  <2> QED BY <2>1 DEF Weaves
<1> HIDE DEF w
<1>5. ASSUME NEW k \in 1..Len(w), NEW m \in 1..Len(w)
      PROVE  w[k].pic.poc > w[m].pic.poc <=> k < m
  <2>0. k \in 1..2 * Len(g) /\ m \in 1..2 * Len(g)
    BY <1>4
  <2>1. PICK q \in 1..Len(g) : k = 2 * q - 1 \/ k = 2 * q
    BY <1>3, <2>0, Turns
  <2>2. PICK r \in 1..Len(g) : m = 2 * r - 1 \/ m = 2 * r
    BY <1>3, <2>0, Turns
  <2> DEFINE i == g[q]
             j == g[r]
  <2>3. i \in T /\ j \in T
    BY <1>3
  <2>4. /\ w[2 * q - 1].pic.poc = c[i] + 1 /\ w[2 * q].pic.poc = c[i]
        /\ w[2 * r - 1].pic.poc = c[j] + 1 /\ w[2 * r].pic.poc = c[j]
    BY <1>4, <2>3 DEF Spaced
  <2>5. c[i] > c[j] <=> q < r
    BY <1>1, <2>3 DEF Down
  <2>6. c[i] \in Int /\ c[j] \in Int /\ (i # j => c[i] # c[j] /\ c[i] + 1 # c[j] /\ c[j] + 1 # c[i])
    BY <2>3 DEF Spaced
  <2>7. i = j <=> q = r
    BY <1>1, <1>3 DEF Lists
  <2> HIDE DEF i, j
  <2>8. CASE q = r
    BY <2>1, <2>2, <2>4, <2>6, <2>7, <2>8
  <2>9. CASE q # r
    <3>1. c[i] > c[j] + 1 \/ c[j] > c[i] + 1
      BY <2>6, <2>7, <2>9
    <3>2. k < m <=> q < r
      BY <2>1, <2>2, <2>9
    <3>3. w[k].pic.poc = c[i] \/ w[k].pic.poc = c[i] + 1
      BY <2>1, <2>4
    <3>4. w[m].pic.poc = c[j] \/ w[m].pic.poc = c[j] + 1
      BY <2>2, <2>4
    <3> QED BY <2>5, <2>6, <3>1, <3>2, <3>3, <3>4
  <2> QED BY <2>8, <2>9
<1>6. Descending(S) = w
  BY <1>2, <1>5, DescendingIs DEF Spaced
<1> QED BY <1>6 DEF w

(* And when they are sorted the other way.                                 *)
LEMMA AscendingFields ==
    ASSUME NEW H, NEW L, NEW T, NEW S, NEW c, Spaced(H, L, T, S, c),
           NEW g, InOrder(g, T, Up(T, c))
    PROVE  Ascending(S) = Woven(g, L, H)
<1> DEFINE w == Woven(g, L, H)
<1>1. Paired(H, L, T, S) /\ Paired(L, H, T, S) /\ Lists(g, T)
      /\ \A i, j \in 1..Len(g) : <<g[i], g[j]>> \in Up(T, c) <=> i < j
  BY DEF Spaced, InOrder, Paired
<1>2. Lists(w, S)
  BY <1>1, WovenLists
<1>3. Len(g) \in Nat /\ g \in Seq(T) /\ \A q \in 1..Len(g) : g[q] \in T
  BY <1>1 DEF Lists
<1>4. Len(w) = 2 * Len(g) /\ \A q \in 1..Len(g) : w[2 * q - 1] = L[g[q]] /\ w[2 * q] = H[g[q]]
  <2>1. Weaves(w, g, L, H, S)
    BY <1>1, <1>3, WovenAt
  <2> QED BY <2>1 DEF Weaves
<1> HIDE DEF w
<1>5. ASSUME NEW k \in 1..Len(w), NEW m \in 1..Len(w)
      PROVE  w[k].pic.poc < w[m].pic.poc <=> k < m
  <2>0. k \in 1..2 * Len(g) /\ m \in 1..2 * Len(g)
    BY <1>4
  <2>1. PICK q \in 1..Len(g) : k = 2 * q - 1 \/ k = 2 * q
    BY <1>3, <2>0, Turns
  <2>2. PICK r \in 1..Len(g) : m = 2 * r - 1 \/ m = 2 * r
    BY <1>3, <2>0, Turns
  <2> DEFINE i == g[q]
             j == g[r]
  <2>3. i \in T /\ j \in T
    BY <1>3
  <2>4. /\ w[2 * q - 1].pic.poc = c[i] /\ w[2 * q].pic.poc = c[i] + 1
        /\ w[2 * r - 1].pic.poc = c[j] /\ w[2 * r].pic.poc = c[j] + 1
    BY <1>4, <2>3 DEF Spaced
  <2>5. c[i] < c[j] <=> q < r
    BY <1>1, <2>3 DEF Up
  <2>6. c[i] \in Int /\ c[j] \in Int /\ (i # j => c[i] # c[j] /\ c[i] + 1 # c[j] /\ c[j] + 1 # c[i])
    BY <2>3 DEF Spaced
  <2>7. i = j <=> q = r
    BY <1>1, <1>3 DEF Lists
  <2> HIDE DEF i, j
  <2>8. CASE q = r
    BY <2>1, <2>2, <2>4, <2>6, <2>7, <2>8
  <2>9. CASE q # r
    <3>1. c[i] > c[j] + 1 \/ c[j] > c[i] + 1
      BY <2>6, <2>7, <2>9
    <3>2. k < m <=> q < r
      BY <2>1, <2>2, <2>9
    <3>3. w[k].pic.poc = c[i] \/ w[k].pic.poc = c[i] + 1
      BY <2>1, <2>4
    <3>4. w[m].pic.poc = c[j] \/ w[m].pic.poc = c[j] + 1
      BY <2>2, <2>4
    <3> QED BY <2>5, <2>6, <3>1, <3>2, <3>3, <3>4
  <2> QED BY <2>8, <2>9
<1>6. Ascending(S) = w
  BY <1>2, <1>5, AscendingIs DEF Spaced
<1> QED BY <1>6 DEF w

(* The fields of a P slice.                                                *)
LEMMA PFields ==
    ASSUME NEW es, NEW s, NEW n, NEW D, NEW O, NEW c, NEW d, FieldBuffer(es, s, n, D, O, c, d),
           s.kind = "P"
    PROVE  Begins(PSorted(es, s), es, s)
<1> DEFINE F == 1..n
           R == Down(F, c)
<1>1. /\ n \in Nat /\ d \in {0, 1} /\ c \in [F -> Int] /\ IsField(s)
      /\ D \in [F -> es] /\ O \in [F -> es]
      /\ \A i, j \in F : i # j => c[i] # c[j] /\ c[i] + 1 # c[j]
      /\ \A i, j \in F : i < j => c[i] < c[j]
  BY DEF FieldBuffer
<1>2. Shorts(es) = es /\ Paired(D, O, F, es)
  BY FieldSets
<1>3. PICK g : InOrder(g, F, R)
  <2>1. IsFiniteSet(F)
    BY <1>1, Interval
  <2>2. (\A i \in F : c[i] \in Int) /\ \A i, j \in F : c[i] = c[j] => i = j
    BY <1>1
  <2> HIDE DEF F
  <2> QED BY <2>1, <2>2, OrdersExist
<1>4. Lists(g, F) /\ \A i, j \in 1..Len(g) : <<g[i], g[j]>> \in R <=> i < j
  BY <1>3 DEF InOrder
<1>5. g \in Seq(F) /\ Len(g) \in Nat /\ \A q \in 1..Len(g) : g[q] \in F
  <2>1. g \in Seq(F)
    BY <1>4 DEF Lists
  <2> HIDE DEF F
  <2> QED BY <2>1
<1>6. ASSUME NEW i \in F, NEW j \in F
      PROVE  c[i] > c[j] <=> i > j
  BY <1>1
<1>7. ASSUME NEW E, E = D \/ E = O PROVE OrderedBy(es, s, F, E, R)
  <2> SUFFICES ASSUME NEW i \in F, NEW j \in F
               PROVE  FrameOrder(es, s, E[i], E[j]) <=> <<i, j>> \in R
    BY DEF OrderedBy
  <2>1. /\ E[i].ref.kind = "short" /\ E[j].ref.kind = "short"
        /\ FrameNumWrap(E[i], s) = FrameNumWrap(D[i], s)
        /\ FrameNumWrap(E[j], s) = FrameNumWrap(D[j], s)
    <3>1. /\ E[i] \in es /\ E[j] \in es
          /\ E[i].pic.frame_num = D[i].pic.frame_num
          /\ E[j].pic.frame_num = D[j].pic.frame_num
      BY <1>7 DEF FieldBuffer
    <3>2. E[i].ref = ShortTerm /\ E[j].ref = ShortTerm
      BY <3>1 DEF FieldBuffer
    <3> QED BY <3>1, <3>2 DEF ShortTerm, FrameNumWrap
  <2>2. FrameOrder(es, s, E[i], E[j]) <=> FrameNumWrap(D[i], s) > FrameNumWrap(D[j], s)
    BY <2>1 DEF FrameOrder, ShortBefore
  <2>3. /\ FrameNumWrap(D[i], s) \in Int /\ FrameNumWrap(D[j], s) \in Int
        /\ i < j => FrameNumWrap(D[i], s) < FrameNumWrap(D[j], s)
        /\ j < i => FrameNumWrap(D[j], s) < FrameNumWrap(D[i], s)
    BY DEF FieldBuffer
  <2>4. FrameNumWrap(D[i], s) > FrameNumWrap(D[j], s) <=> i > j
    BY <2>3
  <2>5. <<i, j>> \in R <=> c[i] > c[j]
    BY DEF Down
  <2> QED BY <1>6, <2>2, <2>4, <2>5
<1>8. Begins(Woven(g, D, O), es, s)
  BY <1>3, <1>7, FieldsInOrder
<1> DEFINE w == Woven(g, D, O)
<1>9. Len(w) = 2 * Len(g) /\ \A q \in 1..Len(g) : w[2 * q - 1] = D[g[q]] /\ w[2 * q] = O[g[q]]
  <2>1. Weaves(w, g, D, O, es)
    BY <1>2, <1>5, WovenAt
  <2> QED BY <2>1 DEF Weaves
<1> HIDE DEF w
<1>10. ASSUME NEW k \in 1..Len(w), NEW m \in 1..Len(w)
       PROVE  PLess(w[k], w[m], s) <=> k < m
  <2>0. k \in 1..2 * Len(g) /\ m \in 1..2 * Len(g)
    BY <1>9
  <2>1. PICK q \in 1..Len(g) : k = 2 * q - 1 \/ k = 2 * q
    BY <1>5, <2>0, Turns
  <2>2. PICK r \in 1..Len(g) : m = 2 * r - 1 \/ m = 2 * r
    BY <1>5, <2>0, Turns
  <2> DEFINE i == g[q]
             j == g[r]
  <2>3. i \in F /\ j \in F
    BY <1>5
  <2>4. /\ w[2 * q - 1] = D[i] /\ w[2 * q] = O[i]
        /\ w[2 * r - 1] = D[j] /\ w[2 * r] = O[j]
    BY <1>9
  <2>5. c[i] > c[j] <=> q < r
    BY <1>4, <2>3 DEF Down
  <2>6. c[i] \in Int /\ c[j] \in Int /\ (i # j => c[i] # c[j] /\ c[i] + 1 # c[j] /\ c[j] + 1 # c[i])
    BY <1>1, <2>3
  <2>7. i = j <=> q = r
    BY <1>4, <1>5 DEF Lists
  <2>8. /\ SameParity(D[i], s) /\ ~SameParity(O[i], s)
        /\ SameParity(D[j], s) /\ ~SameParity(O[j], s)
        /\ D[i].pic.frame_num = O[i].pic.frame_num /\ D[j].pic.frame_num = O[j].pic.frame_num
        /\ i # j => D[i].pic.frame_num # D[j].pic.frame_num
        /\ D[i].pic.poc = c[i] + d /\ O[i].pic.poc = c[i] + 1 - d
        /\ D[j].pic.poc = c[j] + d /\ O[j].pic.poc = c[j] + 1 - d
    BY <2>3 DEF FieldBuffer
  <2> HIDE DEF i, j
  <2> DEFINE x == w[k]
             y == w[m]
  <2>13. d = 0 \/ d = 1
    BY <1>1
  <2>9. (k = 2 * q - 1 /\ x = D[i]) \/ (k = 2 * q /\ x = O[i])
    BY <2>1, <2>4
  <2>10. (m = 2 * r - 1 /\ y = D[j]) \/ (m = 2 * r /\ y = O[j])
    BY <2>2, <2>4
  <2> HIDE DEF x, y
  <2>11. CASE q = r
    <3>1. i = j /\ x.pic.frame_num = y.pic.frame_num
      BY <2>7, <2>8, <2>9, <2>10, <2>11
    <3>2. PLess(x, y, s) <=> SameParity(x, s) /\ ~SameParity(y, s)
      BY <1>1, <3>1 DEF PLess
    <3>3. SameParity(x, s) <=> k = 2 * q - 1
      BY <2>8, <2>9
    <3>4. SameParity(y, s) <=> m = 2 * r - 1
      BY <2>8, <2>10
    <3> QED BY <2>9, <2>10, <2>11, <3>2, <3>3, <3>4 DEF x, y
  <2>12. CASE q # r
    <3>1. c[i] > c[j] + 1 \/ c[j] > c[i] + 1
      BY <2>6, <2>7, <2>12
    <3>2. k < m <=> q < r
      BY <2>1, <2>2, <2>12
    <3>3. x.pic.frame_num # y.pic.frame_num
      BY <2>7, <2>8, <2>9, <2>10, <2>12
    <3>4. x.pic.poc = c[i] \/ x.pic.poc = c[i] + 1
      BY <2>13, <2>6, <2>8, <2>9
    <3>5. y.pic.poc = c[j] \/ y.pic.poc = c[j] + 1
      BY <2>13, <2>6, <2>8, <2>10
    <3>6. PLess(x, y, s) <=> x.pic.poc > y.pic.poc
      BY <3>3 DEF PLess
    <3>7. x.pic.poc > y.pic.poc <=> q < r
      BY <2>5, <2>6, <3>1, <3>4, <3>5
    <3> QED BY <3>2, <3>6, <3>7 DEF x, y
  <2> QED BY <2>11, <2>12
<1>11. PSorted(es, s) = w
  <2>1. Lists(w, Shorts(es))
    BY <1>2, <1>8 DEF Begins, w
  <2>2. \A e \in es : e.pic.id \in Int
    BY DEF FieldBuffer
  <2> QED BY <1>10, <2>1, <2>2, ShortTermIs
<1> QED BY <1>8, <1>11 DEF w

\* The order the frames of a B slice have, past ones first or last.
BOrder(T, c, past, p) ==
    {x \in T \X T : LET a == c[x[1]] b == c[x[2]]
                    IN  IF (a <= p) = (b <= p) THEN IF a <= p THEN b < a ELSE a < b
                        ELSE IF past THEN a <= p ELSE b <= p}

(* The frames before the current picture and those after it make up that   *)
(* order.                                                                  *)
LEMMA BOrdered ==
    ASSUME NEW T, NEW c \in [T -> Int], NEW p \in Int, NEW A, A = {i \in T : c[i] <= p},
           NEW B, B = T \ A, NEW g, InOrder(g, A, Down(A, c)), NEW h, InOrder(h, B, Up(B, c))
    PROVE  /\ InOrder(g \o h, T, BOrder(T, c, TRUE, p))
           /\ InOrder(h \o g, T, BOrder(T, c, FALSE, p))
<1>1. A \cap B = {} /\ B \cap A = {} /\ T = A \cup B /\ T = B \cup A
  OBVIOUS
<1>2. /\ Lists(g, A) /\ \A i, j \in 1..Len(g) : <<g[i], g[j]>> \in Down(A, c) <=> i < j
      /\ Lists(h, B) /\ \A i, j \in 1..Len(h) : <<h[i], h[j]>> \in Up(B, c) <=> i < j
  BY DEF InOrder
<1>3. (\A i \in 1..Len(g) : g[i] \in A) /\ \A i \in 1..Len(h) : h[i] \in B
  <2>1. g \in Seq(A) /\ h \in Seq(B)
    BY <1>2 DEF Lists
  <2> QED BY ONLY <2>1
<1>4. ASSUME NEW past \in BOOLEAN
      PROVE  /\ InOrder(g, A, BOrder(T, c, past, p))
             /\ InOrder(h, B, BOrder(T, c, past, p))
  <2>1. \A i, j \in A : <<i, j>> \in BOrder(T, c, past, p) <=> <<i, j>> \in Down(A, c)
    BY DEF BOrder, Down
  <2>2. \A i, j \in B : <<i, j>> \in BOrder(T, c, past, p) <=> <<i, j>> \in Up(B, c)
    BY DEF BOrder, Up
  <2> QED BY <1>2, <1>3, <2>1, <2>2 DEF InOrder
<1>5. \A a \in A, b \in B : /\ <<a, b>> \in BOrder(T, c, TRUE, p)
                            /\ <<b, a>> \notin BOrder(T, c, TRUE, p)
                            /\ <<b, a>> \in BOrder(T, c, FALSE, p)
                            /\ <<a, b>> \notin BOrder(T, c, FALSE, p)
  BY DEF BOrder
<1> DEFINE R == BOrder(T, c, TRUE, p)
           Q == BOrder(T, c, FALSE, p)
<1>6. InOrder(g, A, R) /\ InOrder(h, B, R) /\ InOrder(g, A, Q) /\ InOrder(h, B, Q)
  BY <1>4
<1>7. /\ \A a \in A, b \in B : <<a, b>> \in R /\ <<b, a>> \notin R
      /\ \A b \in B, a \in A : <<b, a>> \in Q /\ <<a, b>> \notin Q
  BY <1>5
<1> HIDE DEF R, Q
<1>8. InOrder(g \o h, T, R)
  BY <1>1, <1>6, <1>7, OrderJoin
<1>9. InOrder(h \o g, T, Q)
  BY <1>1, <1>6, <1>7, OrderJoin
<1> QED BY <1>8, <1>9 DEF R, Q

(* The standard orders the frames of a B slice's fields so.                *)
LEMMA BOrderStandard ==
    ASSUME NEW es, NEW s, NEW n, NEW D, NEW O, NEW c, NEW d, FieldBuffer(es, s, n, D, O, c, d),
           NEW E, E = D \/ E = O
    PROVE  /\ s.kind = "B0" => OrderedBy(es, s, 1..n, E, BOrder(1..n, c, TRUE, s.poc))
           /\ s.kind = "B1" => OrderedBy(es, s, 1..n, E, BOrder(1..n, c, FALSE, s.poc))
<1> SUFFICES ASSUME NEW i \in 1..n, NEW j \in 1..n
             PROVE  /\ s.kind = "B0" => (FrameOrder(es, s, E[i], E[j])
                                          <=> <<i, j>> \in BOrder(1..n, c, TRUE, s.poc))
                    /\ s.kind = "B1" => (FrameOrder(es, s, E[i], E[j])
                                          <=> <<i, j>> \in BOrder(1..n, c, FALSE, s.poc))
  BY DEF OrderedBy
<1>1. E[i].ref.kind = "short" /\ E[j].ref.kind = "short"
  <2>1. E[i] \in es /\ E[j] \in es
    BY DEF FieldBuffer
  <2>2. E[i].ref = ShortTerm /\ E[j].ref = ShortTerm
    BY <2>1 DEF FieldBuffer
  <2> QED BY <2>2 DEF ShortTerm
<1>2. OrderCount(es, E[i]) = c[i] /\ OrderCount(es, E[j]) = c[j]
  BY FieldCount
<1>3. FrameOrder(es, s, E[i], E[j]) <=> ShortBefore(es, s, E[i], E[j])
  BY <1>1 DEF FrameOrder
<1>4. ASSUME s.kind = "B0"
      PROVE  FrameOrder(es, s, E[i], E[j]) <=> <<i, j>> \in BOrder(1..n, c, TRUE, s.poc)
  BY <1>2, <1>3, <1>4 DEF ShortBefore, BOrder
<1>5. ASSUME s.kind = "B1"
      PROVE  FrameOrder(es, s, E[i], E[j]) <=> <<i, j>> \in BOrder(1..n, c, FALSE, s.poc)
  BY <1>2, <1>3, <1>5 DEF ShortBefore, BOrder
<1> QED BY <1>4, <1>5

(* The fields of a B slice: the two halves of the frames sorted by order   *)
(* count, then interleaved.                                                *)
LEMMA BFields ==
    ASSUME NEW es, NEW s, NEW n, NEW D, NEW O, NEW c, NEW d, FieldBuffer(es, s, n, D, O, c, d)
    PROVE  /\ s.kind = "B0" => Begins(RefListL0B(es, s), es, s)
           /\ s.kind = "B1" =>
                Begins(InterleavedB(AfterCurrent(es, s) \o BeforeCurrent(es, s), es, s), es, s)
<1> DEFINE F == 1..n
           A == {i \in F : c[i] <= s.poc}
           B == F \ A
           H == IF d = 1 THEN D ELSE O
           L == IF d = 1 THEN O ELSE D
           SA == {e \in Shorts(es) : e.pic.poc <= s.poc}
           SB == {e \in Shorts(es) : e.pic.poc > s.poc}
<1>1. /\ n \in Nat /\ (d = 0 \/ d = 1) /\ c \in [F -> Int] /\ IsField(s) /\ s.poc \in Int
      /\ \A i, j \in F : i # j => c[i] # c[j] /\ c[i] + 1 # c[j]
      /\ \A i \in F : c[i] # s.poc
      /\ \A e \in es : e.pic.poc \in Int /\ e.pic.id \in Int
  BY DEF FieldBuffer
<1>2. Shorts(es) = es /\ Paired(D, O, F, es) /\ LongTermRefList(es) = <<>>
  BY FieldSets
<1>3. Paired(H, L, F, es) /\ \A i \in F : H[i].pic.poc = c[i] + 1 /\ L[i].pic.poc = c[i]
  <2>1. CASE d = 1
    BY <1>1, <1>2, <2>1 DEF FieldBuffer
  <2>2. CASE d = 0
    <3>1. Paired(O, D, F, es)
      BY <1>2 DEF Paired
    <3>2. \A i \in F : D[i].pic.poc = c[i] + 0 /\ O[i].pic.poc = c[i] + 1 - 0
      BY <2>2 DEF FieldBuffer
    <3> QED BY <1>1, <2>2, <3>1, <3>2
  <2> QED BY <1>1, <2>1, <2>2
<1>4. (H = D /\ L = O) \/ (H = O /\ L = D)
  OBVIOUS
<1> HIDE DEF H, L, F
<1>5. \A i \in F : /\ i \in A <=> H[i] \in SA
                   /\ i \in A <=> L[i] \in SA
                   /\ i \in B <=> H[i] \in SB
                   /\ i \in B <=> L[i] \in SB
  <2> TAKE i \in F
  <2>1. H[i] \in es /\ L[i] \in es /\ H[i].pic.poc = c[i] + 1 /\ L[i].pic.poc = c[i]
    BY <1>3 DEF Paired
  <2>2. c[i] \in Int /\ c[i] # s.poc
    BY <1>1
  <2> QED BY <1>1, <1>2, <2>1, <2>2
<1>6. Spaced(H, L, A, SA, c) /\ Spaced(H, L, B, SB, c)
  <2>1. SA \subseteq es /\ SB \subseteq es /\ A \subseteq F /\ B \subseteq F
    BY <1>2
  <2>2. Paired(H, L, A, SA) /\ Paired(H, L, B, SB)
    <3> HIDE DEF SA, SB, A, B
    <3> QED BY <1>3, <1>5, <2>1 DEF Paired
  <2> HIDE DEF SA, SB, A, B
  <2> QED BY <1>1, <1>3, <2>1, <2>2 DEF Spaced
<1>7. PICK g : InOrder(g, A, Down(A, c))
  <2>1. IsFiniteSet(F) /\ A \subseteq F
    BY <1>1, Interval DEF F
  <2>2. IsFiniteSet(A)
    BY <2>1, FS_Subset
  <2> HIDE DEF A
  <2> QED BY <1>1, <2>1, <2>2, OrdersExist
<1>8. PICK h : InOrder(h, B, Up(B, c))
  <2>1. IsFiniteSet(F) /\ B \subseteq F
    BY <1>1, Interval DEF F
  <2>2. IsFiniteSet(B)
    BY <2>1, FS_Subset
  <2> HIDE DEF B
  <2> QED BY <1>1, <2>1, <2>2, OrdersExist
<1> DEFINE before == Woven(g, H, L)
           after == Woven(h, L, H)
<1> HIDE DEF SA, SB
<1>9. BeforeCurrent(es, s) = before /\ AfterCurrent(es, s) = after
  <2>1. Descending(SA) = before
    BY <1>6, <1>7, DescendingFields
  <2>2. Ascending(SB) = after
    BY <1>6, <1>8, AscendingFields
  <2> QED BY <2>1, <2>2 DEF BeforeCurrent, AfterCurrent, SA, SB
<1>10. g \in Seq(A) /\ h \in Seq(B) /\ g \in Seq(F) /\ h \in Seq(F)
  <2>1. g \in Seq(A) /\ h \in Seq(B)
    BY <1>7, <1>8 DEF InOrder, Lists
  <2>2. A \subseteq F /\ B \subseteq F
    OBVIOUS
  <2> HIDE DEF A, B
  <2> QED BY <2>1, <2>2
<1>11. /\ Couples(before, g, D, O, es)
       /\ Couples(after, h, D, O, es)
  <2>1. Paired(L, H, F, es)
    BY <1>3 DEF Paired
  <2>2. Weaves(before, g, H, L, es) /\ Weaves(after, h, L, H, es)
    BY <1>3, <1>10, <2>1, WovenAt
  <2>3. /\ Couples(before, g, H, L, es) /\ Couples(before, g, L, H, es)
        /\ Couples(after, h, H, L, es) /\ Couples(after, h, L, H, es)
    <3> HIDE DEF before, after
    <3> QED BY <2>2, WovenCouples
  <2> HIDE DEF before, after
  <2> QED BY <1>4, <2>3
<1> HIDE DEF before, after
<1>12. Couples(before \o after, g \o h, D, O, es) /\ Couples(after \o before, h \o g, D, O, es)
  BY <1>10, <1>11, CouplesJoin
<1> DEFINE R == BOrder(F, c, TRUE, s.poc)
           Q == BOrder(F, c, FALSE, s.poc)
<1>13. InOrder(g \o h, F, R) /\ InOrder(h \o g, F, Q)
  <2> DEFINE p == s.poc
             f == [i \in F |-> c[i]]
  <2>1. c \in [F -> Int] /\ p \in Int /\ A = {i \in F : c[i] <= p} /\ B = F \ A
    BY <1>1
  <2> HIDE DEF p, A, B
  <2> QED BY <1>7, <1>8, <2>1, BOrdered DEF p
<1>14. /\ s.kind = "B0" => OrderedBy(es, s, F, D, R) /\ OrderedBy(es, s, F, O, R)
       /\ s.kind = "B1" => OrderedBy(es, s, F, D, Q) /\ OrderedBy(es, s, F, O, Q)
  BY BOrderStandard DEF F
<1> HIDE DEF R, Q
<1>15. /\ s.kind = "B0" => Begins(Woven(g \o h, D, O), es, s)
       /\ s.kind = "B1" => Begins(Woven(h \o g, D, O), es, s)
  BY <1>13, <1>14, FieldsInOrder DEF F
<1>16. Lists(g \o h, 1..n) /\ Lists(h \o g, 1..n)
  BY <1>13 DEF InOrder, F
<1>17. /\ FieldParityInterleave(before \o after, s) = Woven(g \o h, D, O)
       /\ FieldParityInterleave(after \o before, s) = Woven(h \o g, D, O)
  BY <1>12, <1>16, Interleave
<1>18. Woven(g \o h, D, O) \o <<>> = Woven(g \o h, D, O)
       /\ Woven(h \o g, D, O) \o <<>> = Woven(h \o g, D, O)
  <2>1. Lists(Woven(g \o h, D, O), es) /\ Lists(Woven(h \o g, D, O), es)
    BY <1>2, <1>16, WovenLists DEF F
  <2> QED BY <2>1 DEF Lists
<1>19. /\ RefListL0B(es, s) = Woven(g \o h, D, O)
       /\ InterleavedB(after \o before, es, s) = Woven(h \o g, D, O)
  BY <1>1, <1>2, <1>9, <1>17, <1>18 DEF RefListL0B, InterleavedB
<1> QED BY <1>9, <1>15, <1>19

(* The lists of a field.                                                   *)
LEMMA FieldLists ==
    ASSUME NEW es, NEW s \in Slices, NEW n, NEW D, NEW O, NEW c, NEW d,
           FieldBuffer(es, s, n, D, O, c, d)
    PROVE  Lists(InitialList(es, s), es) /\ InitialList(es, s) = Swapped(es, s)
<1>1. CASE s.kind = "P"
  <2>1. Begins(PSorted(es, s), es, s)
    BY <1>1, PFields
  <2>2. InitialList(es, s) = PSorted(es, s) \o <<>>
    BY <1>1, FieldSets, ShortTermSorted DEF InitialList
  <2>3. PSorted(es, s) \o <<>> = PSorted(es, s)
    BY <2>1 DEF Begins, Lists
  <2>4. Swapped(es, s) = Initial(es, s)
    BY <1>1 DEF Swapped
  <2> QED BY <2>1, <2>2, <2>3, <2>4 DEF Begins
<1>2. CASE s.kind = "B0"
  <2>1. Begins(RefListL0B(es, s), es, s)
    BY <1>2, BFields
  <2>2. Swapped(es, s) = Initial(es, s) /\ InitialList(es, s) = RefListL0B(es, s)
    BY <1>2 DEF Swapped, InitialList
  <2> QED BY <2>1, <2>2 DEF Begins
<1>3. CASE s.kind = "B1"
  <2> DEFINE t == AsB0(s)
  <2>1. /\ t.kind = "B0" /\ t.poc = s.poc /\ t.frame_num = s.frame_num
        /\ t.structure = s.structure
    BY DEF AsB0, Slices
  <2> HIDE DEF t
  <2>2. FieldBuffer(es, t, n, D, O, c, d)
    <3>1. \A e : /\ FrameNumWrap(e, t) = FrameNumWrap(e, s) /\ (Parity(e, t) <=> Parity(e, s))
                 /\ SameParity(e, t) <=> SameParity(e, s)
      BY <2>1 DEF FrameNumWrap, Parity, SameParity
    <3>2. IsField(t) <=> IsField(s)
      BY <2>1 DEF IsField
    <3> QED BY <2>1, <3>1, <3>2 DEF FieldBuffer
  <2>3. Begins(RefListL0B(es, t), es, t)
    BY <2>1, <2>2, BFields
  <2>4. RefListL0B(es, t) = RefListL0B(es, s)
    BY <2>1 DEF RefListL0B, InterleavedB, BeforeCurrent, AfterCurrent, IsField,
                FieldParityInterleave, SameParity
  <2>5. Begins(RefListL0B(es, s), es, AsB0(s))
    BY <2>3, <2>4 DEF t
  <2>6. Begins(InterleavedB(AfterCurrent(es, s) \o BeforeCurrent(es, s), es, s), es, s)
    BY <1>3, BFields
  <2>7. Apart(es)
    BY FieldSets
  <2>8. Lists(RefListL1B(es, s), es) /\ RefListL1B(es, s) = Swapped(es, s)
    BY <1>3, <2>5, <2>6, <2>7, SwapFollows
  <2> QED BY <1>3, <2>8 DEF InitialList
<1> QED BY <1>1, <1>2, <1>3 DEF Slices

-----------------------------------------------------------------------------
(* Moving a picture.                                                       *)

\* f[i] is what is left of the first i elements of s without those in D.
Leaves(f, s, D) ==
    f = [i \in 0..Len(s) |-> IF i = 0 THEN <<>>
                             ELSE IF s[i] \in D THEN f[i - 1] ELSE Append(f[i - 1], s[i])]

(* There is such a function of sequences.                                  *)
LEMMA LeavesExists ==
    ASSUME NEW T, NEW s \in Seq(T), NEW D
    PROVE  \E f \in [0..Len(s) -> Seq(T)] : Leaves(f, s, D)
<1> DEFINE Next1(f, k) == IF s[k] \in D THEN f[k - 1] ELSE Append(f[k - 1], s[k])
           To(m) == \E f \in [0..m -> Seq(T)] : f[0] = <<>> /\ \A k \in 1..m : f[k] = Next1(f, k)
           S == {m \in 0..Len(s) : To(m)}
<1>1. To(0)
  <2>1. PICK f : f = [k \in 0..0 |-> <<>>]
    OBVIOUS
  <2>2. f \in [0..0 -> Seq(T)] /\ f[0] = <<>> /\ \A k \in 1..0 : FALSE
    BY <2>1
  <2> QED BY <2>2
<1>2. ASSUME NEW m \in 1..Len(s), To(m - 1) PROVE To(m)
  <2>1. PICK f \in [0..m - 1 -> Seq(T)] : f[0] = <<>> /\ \A k \in 1..m - 1 : f[k] = Next1(f, k)
    BY <1>2
  <2>2. PICK g : g = [k \in 0..m |-> IF k = m THEN Next1(f, m) ELSE f[k]]
    OBVIOUS
  <2>3. g \in [0..m -> Seq(T)]
    <3>1. s[m] \in T /\ f[m - 1] \in Seq(T)
      OBVIOUS
    <3>2. \A k \in 0..m : k # m => k \in 0..m - 1
      OBVIOUS
    <3>3. Next1(f, m) \in Seq(T)
      BY <3>1
    <3> HIDE DEF Next1
    <3> QED BY <2>2, <3>2, <3>3
  <2>4. g[0] = <<>>
    BY <2>1, <2>2
  <2>5. ASSUME NEW k \in 1..m PROVE g[k] = Next1(g, k)
    <3>1. g[k - 1] = f[k - 1]
      BY <2>2
    <3>2. Next1(g, k) = Next1(f, k)
      BY <3>1
    <3> HIDE DEF Next1
    <3>3. CASE k = m
      BY <3>2, <3>3, <2>2
    <3>4. CASE k # m
      BY <3>2, <3>4, <2>1, <2>2
    <3> QED BY <3>3, <3>4
  <2> HIDE DEF Next1
  <2> QED BY <2>3, <2>4, <2>5
<1>3. To(Len(s))
  <2> HIDE DEF To
  <2>1. Len(s) \in Nat /\ 0 \in S
    BY <1>1
  <2>2. \A k \in 1..Len(s) : k - 1 \in S => k \in S
    BY <1>2
  <2>3. \A k \in 0..Len(s) : k \in S
    <3> HIDE DEF S
    <3> QED BY <2>1, <2>2, EveryLength
  <2> QED BY <2>1, <2>3
<1>4. PICK f \in [0..Len(s) -> Seq(T)] :
          f[0] = <<>> /\ \A k \in 1..Len(s) : f[k] = Next1(f, k)
  BY <1>3
<1>5. Len(s) \in Nat
  OBVIOUS
<1>6. f = [k \in 0..Len(s) |-> f[k]]
  OBVIOUS
<1>7. \A k \in 0..Len(s) : f[k] = IF k = 0 THEN <<>> ELSE Next1(f, k)
  <2> HIDE DEF Next1
  <2> QED BY <1>4, <1>5
<1>8. Leaves(f, s, D)
  BY <1>6, <1>7 DEF Leaves
<1> QED BY <1>8

(* Without looks up the last entry of that function.                       *)
LEMMA WithoutTable ==
    ASSUME NEW T, NEW s \in Seq(T), NEW D
    PROVE  \E f \in [0..Len(s) -> Seq(T)] :
              /\ Without(s, D) = f[Len(s)]
              /\ f[0] = <<>>
              /\ \A k \in 1..Len(s) :
                    f[k] = IF s[k] \in D THEN f[k - 1] ELSE Append(f[k - 1], s[k])
<1> DEFINE g == CHOOSE f : Leaves(f, s, D)
<1>1. PICK f \in [0..Len(s) -> Seq(T)] : Leaves(f, s, D)
  BY LeavesExists
<1>2. Leaves(g, s, D)
  BY <1>1
<1>3. Without(s, D) = g[Len(s)]
  BY DEF Without, Leaves
<1> HIDE DEF g
<1>5. Len(s) \in Nat
  OBVIOUS
<1> DEFINE S == {k \in 0..Len(s) : f[k] = g[k]}
<1>6. /\ f[0] = <<>> /\ g[0] = <<>>
      /\ \A k \in 1..Len(s) :
           /\ f[k] = IF s[k] \in D THEN f[k - 1] ELSE Append(f[k - 1], s[k])
           /\ g[k] = IF s[k] \in D THEN g[k - 1] ELSE Append(g[k - 1], s[k])
  <2>1. 0 \in 0..Len(s) /\ \A k \in 1..Len(s) : k \in 0..Len(s) /\ k # 0
    BY <1>5
  <2>2. \A k \in 0..Len(s) :
          /\ f[k] = IF k = 0 THEN <<>>
                    ELSE IF s[k] \in D THEN f[k - 1] ELSE Append(f[k - 1], s[k])
          /\ g[k] = IF k = 0 THEN <<>>
                    ELSE IF s[k] \in D THEN g[k - 1] ELSE Append(g[k - 1], s[k])
    BY <1>1, <1>2 DEF Leaves
  <2> QED BY <2>1, <2>2
<1>7. 0 \in S /\ \A k \in 1..Len(s) : k - 1 \in S => k \in S
  BY <1>5, <1>6
<1>8. \A k \in 0..Len(s) : k \in S
  <2> HIDE DEF S
  <2> QED BY <1>5, <1>7, EveryLength
<1>9. f[Len(s)] = g[Len(s)]
  BY <1>5, <1>8
<1> QED BY <1>1, <1>3, <1>6, <1>9

(* What is left of the beginning of a list is the beginning of what is     *)
(* left of the list.                                                       *)
LEMMA WithoutGrows ==
    ASSUME NEW T, NEW s \in Seq(T), NEW D, NEW k \in 0..Len(s)
    PROVE  LET u == Without(SubSeq(s, 1, k), D)
               w == Without(s, D)
           IN  /\ u \in Seq(T) /\ w \in Seq(T)
               /\ Len(u) <= Len(w) /\ Len(w) <= Len(s)
               /\ \A i \in 1..Len(u) : u[i] = w[i]
<1> DEFINE t == SubSeq(s, 1, k)
           u == Without(t, D)
           w == Without(s, D)
<1>1. Len(s) \in Nat /\ k \in Nat /\ k <= Len(s)
  OBVIOUS
<1>2. t \in Seq(T) /\ Len(t) = k /\ \A i \in 1..k : t[i] = s[i]
  BY <1>1
<1> HIDE DEF t, u, w
<1>3. PICK f \in [0..Len(s) -> Seq(T)] :
        /\ w = f[Len(s)]
        /\ f[0] = <<>>
        /\ \A i \in 1..Len(s) : f[i] = IF s[i] \in D THEN f[i - 1] ELSE Append(f[i - 1], s[i])
  <2>1. w = Without(s, D)
    BY DEF w
  <2> QED BY <2>1, WithoutTable
<1>4. PICK g \in [0..Len(t) -> Seq(T)] :
        /\ u = g[Len(t)]
        /\ g[0] = <<>>
        /\ \A i \in 1..Len(t) : g[i] = IF t[i] \in D THEN g[i - 1] ELSE Append(g[i - 1], t[i])
  <2>1. u = Without(t, D)
    BY DEF u
  <2>2. t \in Seq(T)
    BY <1>2
  <2> QED BY <2>1, <2>2, WithoutTable
<1>5. u = f[k]
  <2> DEFINE S == {i \in 0..k : f[i] = g[i]}
  <2>1. 0 \in S
    BY <1>1, <1>3, <1>4
  <2>2. \A i \in 1..k : i - 1 \in S => i \in S
    <3> TAKE i \in 1..k
    <3>1. HAVE i - 1 \in S
    <3>2. t[i] = s[i] /\ f[i - 1] = g[i - 1] /\ i \in 1..Len(s) /\ i \in 1..Len(t)
      BY <1>1, <1>2, <3>1
    <3>3. f[i] = g[i]
      BY <1>3, <1>4, <3>2
    <3> QED BY <3>3
  <2>3. \A i \in 0..k : i \in S
    <3> HIDE DEF S
    <3> QED BY <1>1, <2>1, <2>2, EveryLength
  <2> QED BY <1>1, <1>2, <1>4, <2>3
<1>6. f[k] \in Seq(T) /\ f[Len(s)] \in Seq(T)
  BY <1>1, <1>3
<1> DEFINE Extends(i) == /\ Len(f[k]) <= Len(f[i])
                         /\ \A j \in 1..Len(f[k]) : f[i][j] = f[k][j]
           E == {i \in 0..Len(s) : i >= k => Extends(i)}
<1>7. 0 \in E
  BY <1>1
<1>8. \A i \in 1..Len(s) : i - 1 \in E => i \in E
  <2> TAKE i \in 1..Len(s)
  <2>1. HAVE i - 1 \in E
  <2>2. SUFFICES ASSUME i > k PROVE Extends(i)
    BY <1>1
  <2>3. Extends(i - 1)
    BY <1>1, <2>1, <2>2
  <2>4. f[i - 1] \in Seq(T) /\ s[i] \in T
    BY <1>1, <1>3
  <2>5. CASE s[i] \in D
    BY <1>3, <2>3, <2>5
  <2>6. CASE s[i] \notin D
    <3>1. f[i] = Append(f[i - 1], s[i])
      BY <1>3, <2>6
    <3>2. /\ Len(f[i]) = Len(f[i - 1]) + 1
          /\ \A j \in 1..Len(f[i - 1]) : f[i][j] = f[i - 1][j]
      BY <3>1, <2>4
    <3>3. Len(f[i - 1]) \in Nat /\ Len(f[k]) \in Nat
      BY <2>4, <1>6
    <3> QED BY <3>2, <3>3, <2>3
  <2> QED BY <2>5, <2>6
<1>9. \A i \in 0..Len(s) : i \in E
  <2> HIDE DEF E
  <2> QED BY <1>1, <1>7, <1>8, EveryLength
<1>10. Extends(Len(s))
  BY <1>1, <1>9
<1> DEFINE B == {i \in 0..Len(s) : Len(f[i]) <= i}
<1>11. 0 \in B
  BY <1>1, <1>3
<1>12. \A i \in 1..Len(s) : i - 1 \in B => i \in B
  <2> TAKE i \in 1..Len(s)
  <2>1. HAVE i - 1 \in B
  <2>2. f[i - 1] \in Seq(T) /\ s[i] \in T /\ Len(f[i - 1]) <= i - 1 /\ Len(f[i - 1]) \in Nat
    BY <1>1, <1>3, <2>1
  <2>3. CASE s[i] \in D
    BY <1>3, <2>2, <2>3
  <2>4. CASE s[i] \notin D
    <3>1. f[i] = Append(f[i - 1], s[i])
      BY <1>3, <2>4
    <3> QED BY <3>1, <2>2
  <2> QED BY <2>3, <2>4
<1>13. \A i \in 0..Len(s) : i \in B
  <2> HIDE DEF B
  <2> QED BY <1>1, <1>11, <1>12, EveryLength
<1>14. Len(w) <= Len(s)
  BY <1>1, <1>3, <1>13
<1> HIDE DEF Extends
<1>15. u \in Seq(T) /\ w \in Seq(T) /\ Len(u) <= Len(w) /\ \A i \in 1..Len(u) : u[i] = w[i]
  BY <1>3, <1>5, <1>6, <1>10 DEF Extends
<1> QED BY <1>14, <1>15 DEF t, u, w

(* Only the place p of a list holds an element to leave out, or none does  *)
(* and p is the place behind the last.                                     *)
LEMMA WithoutOne ==
    ASSUME NEW T, NEW s \in Seq(T), NEW D, NEW p \in 1..Len(s) + 1,
           p <= Len(s) => s[p] \in D,
           \A i \in 1..Len(s) : i # p => s[i] \notin D
    PROVE  /\ Without(s, D) \in Seq(T)
           /\ Len(Without(s, D)) = IF p <= Len(s) THEN Len(s) - 1 ELSE Len(s)
           /\ \A i \in 1..Len(Without(s, D)) :
                Without(s, D)[i] = IF i < p THEN s[i] ELSE s[i + 1]
<1>1. Len(s) \in Nat /\ p \in Nat
  OBVIOUS
<1>2. PICK f \in [0..Len(s) -> Seq(T)] :
        /\ Without(s, D) = f[Len(s)]
        /\ f[0] = <<>>
        /\ \A i \in 1..Len(s) : f[i] = IF s[i] \in D THEN f[i - 1] ELSE Append(f[i - 1], s[i])
  BY WithoutTable
<1> DEFINE size(i) == IF i < p THEN i ELSE i - 1
           Is(i) == /\ Len(f[i]) = size(i)
                    /\ \A j \in 1..size(i) : f[i][j] = IF j < p THEN s[j] ELSE s[j + 1]
           S == {i \in 0..Len(s) : Is(i)}
<1>3. 0 \in S
  BY <1>1, <1>2
<1>4. \A i \in 1..Len(s) : i - 1 \in S => i \in S
  <2> TAKE i \in 1..Len(s)
  <2>1. HAVE i - 1 \in S
  <2>2. f[i - 1] \in Seq(T) /\ s[i] \in T /\ Is(i - 1) /\ i \in Nat
    BY <1>1, <1>2, <2>1
  <2>3. CASE i = p
    <3>1. f[i] = f[i - 1]
      BY <1>2, <2>3
    <3>2. size(i) = size(i - 1)
      BY <1>1, <2>3
    <3>3. Is(i)
      BY <2>2, <3>1, <3>2
    <3> QED BY <3>3
  <2>4. CASE i # p
    <3>1. f[i] = Append(f[i - 1], s[i])
      BY <1>2, <2>4
    <3>2. size(i) = size(i - 1) + 1 /\ size(i - 1) \in Nat
      BY <1>1, <2>2, <2>4
    <3>3. Len(f[i]) = size(i)
      BY <2>2, <3>1, <3>2
    <3>4. ASSUME NEW j \in 1..size(i) PROVE f[i][j] = IF j < p THEN s[j] ELSE s[j + 1]
      <4>1. CASE j <= size(i - 1)
        <5>1. j \in 1..size(i - 1) /\ j \in 1..Len(f[i - 1])
          BY <4>1, <3>2, <2>2
        <5>2. f[i][j] = f[i - 1][j]
          BY <5>1, <3>1, <2>2
        <5> QED BY <5>1, <5>2, <2>2
      <4>2. CASE j = size(i)
        <5>1. f[i][j] = s[i]
          BY <4>2, <3>1, <3>2, <2>2
        <5>2. IF j < p THEN j = i ELSE j + 1 = i
          BY <4>2, <1>1, <2>4
        <5> QED BY <5>1, <5>2
      <4> QED BY <4>1, <4>2, <3>2
    <3> QED BY <3>3, <3>4
  <2> QED BY <2>3, <2>4
<1>5. \A i \in 0..Len(s) : i \in S
  <2> HIDE DEF S
  <2> QED BY <1>1, <1>3, <1>4, EveryLength
<1>6. Is(Len(s))
  <2> HIDE DEF Is
  <2> QED BY <1>1, <1>5
<1> QED BY <1>1, <1>2, <1>6

(* What SubSeq returns, in a form to cite.                                 *)
LEMMA Part ==
    ASSUME NEW T, NEW s \in Seq(T), NEW n \in Nat, NEW k \in 1..Len(s) + 1, k + n <= Len(s) + 1
    PROVE  /\ SubSeq(s, k, k + n - 1) \in Seq(T) /\ Len(SubSeq(s, k, k + n - 1)) = n
           /\ \A i \in 1..n : SubSeq(s, k, k + n - 1)[i] = s[k + i - 1]
<1> DEFINE t == SubSeq(s, k, k + n - 1)
<1>1. s \in Seq(T) /\ k \in Nat /\ k + n - 1 \in Nat
  OBVIOUS
<1>2. t = [i \in 1..(k + n - 1 - k + 1) |-> s[k + i - 1]]
  OBVIOUS
<1>3. k + n - 1 - k + 1 = n
  BY <1>1
<1>4. t = [i \in 1..n |-> s[k + i - 1]]
  BY <1>2, <1>3
<1>5. \A i \in 1..n : k + i - 1 \in 1..Len(s)
  OBVIOUS
<1>6. \A i \in 1..n : s[k + i - 1] \in T
  BY <1>5
<1> HIDE DEF t
<1>7. t \in Seq(T) /\ Len(t) = n
  BY <1>4, <1>6
<1> QED BY <1>4, <1>7 DEF t

\* The place i of the list l after e, which stood at place q, has been moved
\* to the place behind idx; what was between moves on by one.
Shifted(l, idx, e, q, i) ==
    IF i <= idx THEN l[i]
    ELSE IF i = idx + 1 THEN e
    ELSE IF i <= q THEN l[i - 1] ELSE l[i]

\* That is what `new` has up to m, and up to q.
AsShifted(T, l, idx, e, m, q, new) ==
    /\ new \in Seq(T) /\ Len(new) = Len(l)
    /\ \A i \in 1..Len(l) : i <= m \/ i <= q => new[i] = Shifted(l, idx, e, q, i)

(* The code's shifting and compaction (dpb.rs:386-407) of a list that has  *)
(* e once, at place q, between idx and m, or there not at all.             *)
LEMMA MovedToShifts ==
    ASSUME NEW T, NEW l \in Seq(T), NEW idx \in 0..Len(l) - 1, NEW e \in T,
           NEW m \in idx..Len(l), NEW q \in idx + 1..m + 1,
           q <= m => l[q] = e,
           \A i \in idx + 1..m : i # q => l[i] # e
    PROVE  AsShifted(T, l, idx, e, m, q, MovedTo(l, idx, e, {e}))
<1> DEFINE tail  == SubSeq(l, idx + 1, Len(l))
           pre   == SubSeq(tail, 1, m - idx)
           front == Append(SubSeq(l, 1, idx), e)
           w     == Without(tail, {e})
           u     == Without(pre, {e})
           kept  == front \o w
           old   == SubSeq(front \o tail, Len(kept) + 1, Len(l) + 1)
<1>1. /\ Len(l) \in Nat /\ idx \in Nat /\ m \in Nat /\ q \in Nat
      /\ idx < Len(l) /\ idx <= m /\ m <= Len(l) /\ idx < q /\ q <= m + 1
  OBVIOUS
<1>2. /\ tail \in Seq(T) /\ Len(tail) = Len(l) - idx
      /\ \A i \in 1..Len(l) - idx : tail[i] = l[idx + i]
  BY <1>1
<1>3. /\ front \in Seq(T) /\ Len(front) = idx + 1 /\ front[idx + 1] = e
      /\ \A i \in 1..idx : front[i] = l[i]
  <2>1. /\ SubSeq(l, 1, idx) \in Seq(T) /\ Len(SubSeq(l, 1, idx)) = idx
        /\ \A i \in 1..idx : SubSeq(l, 1, idx)[i] = l[i]
    BY <1>1
  <2> QED BY <1>1, <2>1
<1> HIDE DEF tail, front
<1>4. /\ pre \in Seq(T) /\ Len(pre) = m - idx
      /\ \A i \in 1..m - idx : pre[i] = l[idx + i]
  BY <1>1, <1>2
<1>5. /\ u \in Seq(T)
      /\ Len(u) = IF q <= m THEN m - idx - 1 ELSE m - idx
      /\ \A i \in 1..Len(u) : u[i] = IF i < q - idx THEN l[idx + i] ELSE l[idx + i + 1]
  <2> HIDE DEF pre, u
  <2>0. u = Without(pre, {e})
    BY DEF u
  <2> DEFINE D == {e}
             p == q - idx
  <2>1. p \in 1..Len(pre) + 1
    BY <1>1, <1>4
  <2>2. p <= Len(pre) => pre[p] \in D
    BY <1>1, <1>4
  <2>3. \A i \in 1..Len(pre) : i # p => pre[i] \notin D
    BY <1>1, <1>4
  <2>4. pre \in Seq(T)
    BY <1>4
  <2>5. /\ u \in Seq(T)
        /\ Len(u) = IF p <= Len(pre) THEN Len(pre) - 1 ELSE Len(pre)
        /\ \A i \in 1..Len(u) : u[i] = IF i < p THEN pre[i] ELSE pre[i + 1]
    <3> HIDE DEF D, p
    <3>1. u = Without(pre, D)
      BY <2>0 DEF D
    <3> QED BY ONLY <3>1, <2>1, <2>2, <2>3, <2>4, WithoutOne
  <2>6. Len(u) = IF q <= m THEN m - idx - 1 ELSE m - idx
    BY <1>1, <1>4, <2>5
  <2>7. ASSUME NEW i \in 1..Len(u)
        PROVE  u[i] = IF i < q - idx THEN l[idx + i] ELSE l[idx + i + 1]
    <3>1. CASE i < q - idx
      <4>1. i \in 1..m - idx
        BY <3>1, <1>1, <2>6
      <4> QED BY <4>1, <3>1, <1>4, <2>5
    <3>2. CASE ~ (i < q - idx)
      <4>1. i + 1 \in 1..m - idx
        BY <3>2, <1>1, <2>6
      <4>2. pre[i + 1] = l[idx + (i + 1)] /\ idx + (i + 1) = idx + i + 1
        BY <4>1, <1>1, <1>4
      <4> QED BY <4>2, <3>2, <2>5
    <3> QED BY <3>1, <3>2
  <2> QED BY <2>5, <2>6, <2>7
<1>6. /\ w \in Seq(T)
      /\ Len(u) <= Len(w) /\ Len(w) <= Len(l) - idx
      /\ \A i \in 1..Len(u) : u[i] = w[i]
  <2> DEFINE D == {e}
             k == m - idx
  <2>1. tail \in Seq(T) /\ k \in 0..Len(tail)
    BY <1>1, <1>2
  <2>2. u = Without(SubSeq(tail, 1, k), D) /\ w = Without(tail, D)
    OBVIOUS
  <2> HIDE DEF D, k, u, w, pre
  <2>3. /\ w \in Seq(T)
        /\ Len(u) <= Len(w) /\ Len(w) <= Len(tail)
        /\ \A i \in 1..Len(u) : u[i] = w[i]
    BY ONLY <2>1, <2>2, WithoutGrows
  <2> QED BY <2>3, <1>2
<1> HIDE DEF w, u, pre
<1>7. /\ kept \in Seq(T) /\ Len(kept) = idx + 1 + Len(w) /\ Len(kept) <= Len(l) + 1
      /\ \A i \in 1..idx + 1 : kept[i] = front[i]
      /\ \A i \in 1..Len(w) : kept[idx + 1 + i] = w[i]
  <2>1. /\ kept \in Seq(T) /\ Len(kept) = Len(front) + Len(w)
        /\ \A i \in 1..Len(front) : kept[i] = front[i]
        /\ \A i \in 1..Len(w) : kept[Len(front) + i] = w[i]
    <3>1. front \in Seq(T) /\ w \in Seq(T)
      BY <1>3, <1>6
    <3> QED BY ONLY <3>1
  <2>2. Len(w) \in Nat
    BY <1>6
  <2> HIDE DEF kept
  <2> QED BY <2>1, <2>2, <1>1, <1>3, <1>6
<1> HIDE DEF kept
<1>8. old \in Seq(T) /\ Len(old) = Len(l) + 1 - Len(kept)
  <2> DEFINE whole == front \o tail
             n == Len(l) + 1 - Len(kept)
             k == Len(kept) + 1
  <2>1. whole \in Seq(T) /\ Len(whole) = Len(l) + 1
    <3>1. whole \in Seq(T) /\ Len(whole) = Len(front) + Len(tail)
      <4>1. front \in Seq(T) /\ tail \in Seq(T)
        BY <1>2, <1>3
      <4> QED BY ONLY <4>1
    <3> HIDE DEF whole
    <3> QED BY <3>1, <1>1, <1>2, <1>3
  <2> HIDE DEF whole
  <2>2. Len(kept) \in Nat
    BY <1>7
  <2>3. n \in Nat /\ k \in 1..Len(whole) + 1 /\ k + n <= Len(whole) + 1 /\ k + n - 1 = Len(l) + 1
    BY <1>1, <1>7, <2>1, <2>2
  <2>4. old = SubSeq(whole, k, Len(l) + 1)
    BY DEF whole
  <2> HIDE DEF n, k, old
  <2>5. SubSeq(whole, k, k + n - 1) \in Seq(T) /\ Len(SubSeq(whole, k, k + n - 1)) = n
    BY ONLY <2>1, <2>3, Part
  <2> QED BY <2>3, <2>4, <2>5 DEF n
<1> HIDE DEF old
<1>9. /\ kept \o old \in Seq(T) /\ Len(kept \o old) = Len(l) + 1
      /\ \A i \in 1..Len(kept) : (kept \o old)[i] = kept[i]
  <2> DEFINE whole == kept \o old
  <2>1. /\ whole \in Seq(T) /\ Len(whole) = Len(kept) + Len(old)
        /\ \A i \in 1..Len(kept) : whole[i] = kept[i]
    <3>1. kept \in Seq(T) /\ old \in Seq(T)
      BY <1>7, <1>8
    <3> QED BY ONLY <3>1
  <2>2. Len(kept) \in Nat
    BY <1>7
  <2> HIDE DEF whole
  <2>3. Len(whole) = Len(l) + 1
    BY <2>1, <2>2, <1>1, <1>8
  <2> QED BY <2>1, <2>3 DEF whole
<1>10. MovedTo(l, idx, e, {e}) = SubSeq(kept \o old, 1, Len(l))
  BY DEF MovedTo, kept, old, front, tail, w
<1>11. /\ MovedTo(l, idx, e, {e}) \in Seq(T) /\ Len(MovedTo(l, idx, e, {e})) = Len(l)
       /\ \A i \in 1..Len(l) : MovedTo(l, idx, e, {e})[i] = (kept \o old)[i]
  <2> DEFINE whole == kept \o old
  <2>1. whole \in Seq(T) /\ Len(whole) = Len(l) + 1
    BY <1>9
  <2> HIDE DEF whole
  <2>2. /\ SubSeq(whole, 1, Len(l)) \in Seq(T) /\ Len(SubSeq(whole, 1, Len(l))) = Len(l)
        /\ \A i \in 1..Len(l) : SubSeq(whole, 1, Len(l))[i] = whole[i]
    BY <1>1, <2>1
  <2> QED BY <1>10, <2>2 DEF whole
<1>12. ASSUME NEW i \in 1..Len(l), i <= m \/ i <= q
       PROVE  MovedTo(l, idx, e, {e})[i] = Shifted(l, idx, e, q, i)
  <2>1. i <= Len(kept)
    <3>1. Len(w) \in Nat /\ Len(u) \in Nat /\ Len(kept) \in Nat
      BY <1>5, <1>6, <1>7
    <3>2. m <= idx + 1 + Len(u) /\ q <= idx + 1 + Len(u)
      BY <1>1, <1>5, <3>1
    <3>3. idx + 1 + Len(u) <= Len(kept)
      BY <1>1, <1>6, <1>7, <3>1
    <3>4. i <= idx + 1 + Len(u)
      BY <1>1, <1>12, <3>1, <3>2
    <3>5. \A x, y, z \in Int : x <= y /\ y <= z => x <= z
      OBVIOUS
    <3>6. i \in Int /\ Len(kept) \in Int /\ idx + 1 + Len(u) \in Int
      BY <1>1, <3>1
    <3> HIDE DEF kept
    <3> QED BY ONLY <3>3, <3>4, <3>5, <3>6
  <2>2. MovedTo(l, idx, e, {e})[i] = kept[i]
    <3>1. i \in 1..Len(kept)
      BY <1>7, <2>1
    <3>2. (kept \o old)[i] = kept[i]
      BY ONLY <1>9, <3>1
    <3> QED BY ONLY <1>11, <3>2, i \in 1..Len(l)
  <2>3. CASE i <= idx
    BY <1>1, <1>3, <1>7, <2>2, <2>3 DEF Shifted
  <2>4. CASE i = idx + 1
    BY <1>1, <1>3, <1>7, <2>2, <2>4 DEF Shifted
  <2>5. CASE i > idx + 1
    <3> DEFINE j == i - (idx + 1)
    <3>1. j \in 1..Len(u)
      <4>1. CASE q <= m
        BY <1>1, <1>5, <1>12, <2>5, <4>1
      <4>2. CASE q = m + 1
        BY <1>1, <1>5, <1>12, <2>5, <4>2
      <4> QED BY <1>1, <4>1, <4>2
    <3>2. j \in 1..Len(w) /\ kept[idx + 1 + j] = w[j] /\ idx + 1 + j = i
      <4>1. Len(w) \in Nat /\ Len(u) \in Nat
        BY <1>5, <1>6
      <4>2. j \in 1..Len(w) /\ idx + 1 + j = i
        BY <1>1, <1>6, <3>1, <4>1
      <4> QED BY <1>7, <4>2
    <3>3. kept[i] = u[j]
      BY <3>1, <3>2, <1>6
    <3>4. j < q - idx <=> i <= q
      BY <1>1
    <3>5. idx + j = i - 1 /\ idx + j + 1 = i
      BY <1>1
    <3>6. kept[i] = IF i <= q THEN l[i - 1] ELSE l[i]
      BY <1>5, <3>1, <3>3, <3>4, <3>5
    <3>7. ~ (i <= idx) /\ i # idx + 1
      BY <1>1, <2>5
    <3> QED BY <2>2, <3>6, <3>7 DEF Shifted
  <2> QED BY <1>1, <2>3, <2>4, <2>5
<1> QED BY <1>11, <1>12 DEF AsShifted

(* The same of the standard's list, which has e behind idx once, at place  *)
(* q, or not at all.                                                       *)
LEMMA PlacedShifts ==
    ASSUME NEW T, NEW l \in Seq(T), NEW idx \in 0..Len(l) - 1, NEW e \in T,
           NEW q \in idx + 1..Len(l) + 1,
           q <= Len(l) => l[q] = e,
           \A i \in idx + 1..Len(l) : i # q => l[i] # e
    PROVE  AsShifted(T, l, idx, e, Len(l), q, Placed(l, idx, e))
<1> DEFINE tail  == SubSeq(l, idx + 1, Len(l))
           front == SubSeq(l, 1, idx) \o <<e>>
           w     == Without(tail, {e})
           kept  == front \o w
<1>1. /\ Len(l) \in Nat /\ idx \in Nat /\ q \in Nat
      /\ idx < Len(l) /\ idx < q /\ q <= Len(l) + 1
  OBVIOUS
<1>2. /\ tail \in Seq(T) /\ Len(tail) = Len(l) - idx
      /\ \A i \in 1..Len(l) - idx : tail[i] = l[idx + i]
  BY <1>1
<1>3. /\ front \in Seq(T) /\ Len(front) = idx + 1 /\ front[idx + 1] = e
      /\ \A i \in 1..idx : front[i] = l[i]
  <2>1. /\ SubSeq(l, 1, idx) \in Seq(T) /\ Len(SubSeq(l, 1, idx)) = idx
        /\ \A i \in 1..idx : SubSeq(l, 1, idx)[i] = l[i]
    BY <1>1
  <2> QED BY <1>1, <2>1
<1> HIDE DEF tail, front
<1>5. /\ w \in Seq(T)
      /\ Len(w) = IF q <= Len(l) THEN Len(l) - idx - 1 ELSE Len(l) - idx
      /\ \A i \in 1..Len(w) : w[i] = IF i < q - idx THEN tail[i] ELSE tail[i + 1]
  <2> HIDE DEF w
  <2>0. w = Without(tail, {e})
    BY DEF w
  <2> DEFINE D == {e}
             p == q - idx
  <2>1. p \in 1..Len(tail) + 1
    BY <1>1, <1>2
  <2>2. p <= Len(tail) => tail[p] \in D
    BY <1>1, <1>2
  <2>3. \A i \in 1..Len(tail) : i # p => tail[i] \notin D
    BY <1>1, <1>2
  <2>4. tail \in Seq(T)
    BY <1>2
  <2>5. /\ w \in Seq(T)
        /\ Len(w) = IF p <= Len(tail) THEN Len(tail) - 1 ELSE Len(tail)
        /\ \A i \in 1..Len(w) : w[i] = IF i < p THEN tail[i] ELSE tail[i + 1]
    <3> HIDE DEF D, p
    <3>1. w = Without(tail, D)
      BY <2>0 DEF D
    <3> QED BY ONLY <3>1, <2>1, <2>2, <2>3, <2>4, WithoutOne
  <2> QED BY <1>1, <1>2, <2>5
<1> HIDE DEF w
<1>7. /\ kept \in Seq(T) /\ Len(kept) = idx + 1 + Len(w) /\ Len(kept) >= Len(l)
      /\ \A i \in 1..idx + 1 : kept[i] = front[i]
      /\ \A i \in 1..Len(w) : kept[idx + 1 + i] = w[i]
  <2>1. /\ kept \in Seq(T) /\ Len(kept) = Len(front) + Len(w)
        /\ \A i \in 1..Len(front) : kept[i] = front[i]
        /\ \A i \in 1..Len(w) : kept[Len(front) + i] = w[i]
    <3>1. front \in Seq(T) /\ w \in Seq(T)
      BY <1>3, <1>5
    <3> QED BY ONLY <3>1
  <2>2. Len(w) \in Nat /\ Len(w) >= Len(l) - idx - 1
    BY <1>1, <1>5
  <2> HIDE DEF kept
  <2>3. Len(kept) = idx + 1 + Len(w) /\ Len(kept) >= Len(l)
    BY <1>1, <1>3, <2>1, <2>2
  <2> QED BY <2>1, <2>3, <1>3
<1> HIDE DEF kept
<1>10. Placed(l, idx, e) = SubSeq(kept, 1, Len(l))
  BY DEF Placed, kept, front, tail, w
<1>11. /\ Placed(l, idx, e) \in Seq(T) /\ Len(Placed(l, idx, e)) = Len(l)
       /\ \A i \in 1..Len(l) : Placed(l, idx, e)[i] = kept[i]
  BY <1>1, <1>7, <1>10
<1>12. ASSUME NEW i \in 1..Len(l)
       PROVE  Placed(l, idx, e)[i] = Shifted(l, idx, e, q, i)
  <2>3. CASE i <= idx
    BY <1>1, <1>3, <1>7, <1>11, <2>3 DEF Shifted
  <2>4. CASE i = idx + 1
    BY <1>1, <1>3, <1>7, <1>11, <2>4 DEF Shifted
  <2>5. CASE i > idx + 1
    <3> DEFINE j == i - (idx + 1)
    <3>1. j \in 1..Len(w)
      BY <1>1, <1>5, <2>5
    <3>2. kept[idx + 1 + j] = w[j] /\ idx + 1 + j = i
      BY <1>1, <1>7, <3>1
    <3>3. j < q - idx <=> i <= q
      BY <1>1
    <3>4. CASE i <= q
      <4>1. j \in 1..Len(l) - idx /\ idx + j = i - 1
        BY <1>1, <2>5
      <4>2. w[j] = tail[j] /\ tail[j] = l[i - 1]
        BY <4>1, <3>1, <3>3, <3>4, <1>5, <1>2
      <4> QED BY <4>2, <3>2, <3>4, <1>11, <1>1, <2>5 DEF Shifted
    <3>5. CASE ~ (i <= q)
      <4>1. j + 1 \in 1..Len(l) - idx /\ idx + (j + 1) = i
        BY <1>1, <2>5
      <4>2. w[j] = tail[j + 1] /\ tail[j + 1] = l[i]
        BY <4>1, <3>1, <3>3, <3>5, <1>5, <1>2
      <4> QED BY <4>2, <3>2, <3>5, <1>11, <1>1, <2>5 DEF Shifted
    <3> QED BY <3>4, <3>5
  <2> QED BY <1>1, <2>3, <2>4, <2>5
<1> QED BY <1>11, <1>12 DEF AsShifted

-----------------------------------------------------------------------------
(* The modification commands.                                              *)

\* The buffers in which a picture has a number of its own: frames, or fields
\* that are all short-term references.
Numbered(es, s) ==
    /\ s \in [kind : {"P", "B0", "B1"}, poc : Int, frame_num : 0..MaxFrameNum - 1,
              structure : Structures, num_active : Nat \ {0}]
    /\ \A e \in es : /\ e.pic.id \in Int /\ e.pic.poc \in Int /\ e.ref.idx \in Nat
                     /\ e.pic.frame_num \in 0..MaxFrameNum - 1
                     /\ e # NoPicture
                     /\ e.ref = ShortTerm \/ e.ref.kind = "long"
                     /\ IF IsField(s) THEN e.ref = ShortTerm /\ e.pic.structure # "Frame"
                                      ELSE e.pic.structure = "Frame"
                     /\ e.pic.structure \in Structures
    /\ \A e, f \in es : e.pic.frame_num = f.pic.frame_num /\ e.pic.structure = f.pic.structure
                           => e = f

(* The code's search for a picture (dpb.rs:320, 386) finds that picture.   *)
LEMMA FirstInList ==
    ASSUME NEW T, NEW l \in Seq(T), NEW e, NEW i \in DOMAIN l, l[i] = e
    PROVE  FirstIn(l, {e}) = e
<1> DEFINE S == {j \in DOMAIN l : l[j] = e}
           First(j) == l[j] \in {e} /\ \A k \in 1..(j - 1) : l[k] \notin {e}
<1>1. S \in SUBSET Nat /\ S # {}
  OBVIOUS
<1>2. PICK m \in S : \A j \in S : m <= j
  <2> HIDE DEF S
  <2> QED BY <1>1, LeastExists
<1>3. m \in DOMAIN l /\ l[m] = e /\ m \in 1..Len(l) /\ Len(l) \in Nat
  OBVIOUS
<1>4. ASSUME NEW k \in 1..(m - 1) PROVE l[k] \notin {e}
  <2>1. k \in 1..Len(l) /\ ~ (m <= k)
    BY <1>3
  <2>2. k \in DOMAIN l
    BY <2>1
  <2> QED BY <1>2, <2>1, <2>2
<1>5. First(m)
  BY <1>3, <1>4
<1>6. (CHOOSE j \in DOMAIN l : First(j)) \in DOMAIN l /\ First(CHOOSE j \in DOMAIN l : First(j))
  <2> HIDE DEF First
  <2> QED BY <1>3, <1>5
<1>7. FirstIn(l, {e}) = l[CHOOSE j \in DOMAIN l : First(j)]
  BY DEF FirstIn
<1> QED BY <1>6, <1>7

(* A number stays within its range, and the code's case distinctions       *)
(* (dpb.rs:354-370) lead to the number the standard's lead to.             *)
LEMMA NextNumber ==
    ASSUME NEW es, NEW s, Numbered(es, s), NEW n \in 0..MaxPicNum(s) - 1, NEW idc \in {0, 1},
           NEW val \in 0..MaxPicNum(s) - 1
    PROVE  /\ NumberAfter(n, idc, val, s) \in 0..MaxPicNum(s) - 1
           /\ NextPicNum(n, idc, val, s) = NumberAfter(n, idc, val, s)
<1>1. MaxPicNum(s) \in Nat
  BY RefListAssumption DEF MaxPicNum
<1> QED BY <1>1 DEF NumberAfter, NextPicNum

(* The comparison of dpb.rs:376-385 finds the picture whose PicNum it is,  *)
(* and no other.                                                           *)
LEMMA OneMatch ==
    ASSUME NEW es, NEW s, Numbered(es, s), NEW n \in 0..MaxPicNum(s) - 1,
           NEW e \in es, PicNum(e, s) = PicNumOf(n, s), NEW f \in es
    PROVE  PicNumMatch(f, n, s) <=> f = e
<1>1. /\ MaxFrameNum \in Nat /\ s.frame_num \in 0..MaxFrameNum - 1
      /\ e.pic.frame_num \in 0..MaxFrameNum - 1 /\ f.pic.frame_num \in 0..MaxFrameNum - 1
  BY RefListAssumption DEF Numbered
<1>2. s.structure \in Structures
  BY DEF Numbered
<1>3. CASE IsField(s)
  <2>1. /\ e.pic.structure \in {"TopField", "BottomField"}
        /\ f.pic.structure \in {"TopField", "BottomField"}
        /\ s.structure \in {"TopField", "BottomField"}
    BY <1>2, <1>3 DEF Numbered, IsField, Structures
  <2> DEFINE b == IF Parity(e, s) THEN 1 ELSE 0
             c == IF Parity(f, s) THEN 1 ELSE 0
  <2>2. b \in {0, 1} /\ c \in {0, 1}
    OBVIOUS
  <2>3. PicNum(e, s) = 2 * FrameNumWrap(e, s) + b
    BY <1>1, <1>3 DEF PicNum, OfField, FrameNumWrap
  <2>4. PicNumMatch(f, n, s) <=> 2 * f.pic.frame_num + c = n
    BY <1>3, <2>1 DEF PicNumMatch, SameParity, Parity
  <2>5. b = c <=> e.pic.structure = f.pic.structure
    BY <2>1 DEF Parity
  <2> HIDE DEF b, c
  <2>6. 2 * e.pic.frame_num + b = n
    BY <1>1, <1>3, <2>2, <2>3 DEF FrameNumWrap, PicNumOf, MaxPicNum, CurrPicNum
  <2>7. 2 * f.pic.frame_num + c = n <=> f.pic.frame_num = e.pic.frame_num /\ b = c
    BY <1>1, <2>2, <2>6
  <2> QED BY <2>4, <2>5, <2>7 DEF Numbered
<1>4. CASE ~IsField(s)
  <2>1. e.pic.frame_num = n
    BY <1>1, <1>4 DEF PicNum, OfField, FrameNumWrap, PicNumOf, MaxPicNum, CurrPicNum
  <2>2. PicNumMatch(f, n, s) <=> f.pic.frame_num = n
    BY <1>4 DEF PicNumMatch
  <2>3. e.pic.structure = f.pic.structure
    BY <1>4 DEF Numbered
  <2> QED BY <2>1, <2>2, <2>3 DEF Numbered
<1> QED BY <1>3, <1>4

\* There is a place idx in the list l of the entries es, and e is in it.
HasBoth(es, l, idx, e) ==
    /\ l \in Seq(es) /\ idx \in 0..Len(l) - 1 /\ e \in es
    /\ \E i \in DOMAIN l : l[i] = e

\* From the number n a command of idc 0 or 1 leads to the number next, which
\* is that of e.
Names(s, n, idc, val, next, e) ==
    /\ n \in 0..MaxPicNum(s) - 1 /\ idc \in {0, 1} /\ val \in 0..MaxPicNum(s) - 1
    /\ next = NumberAfter(n, idc, val, s)
    /\ PicNum(e, s) = PicNumOf(next, s)

(* A command of idc 0 or 1 moves the picture the standard names, if it is  *)
(* in the list.                                                            *)
LEMMA ShortTermCommand ==
    ASSUME NEW es, NEW s, Numbered(es, s),
           NEW n, NEW idc, NEW val, NEW next, NEW e, Names(s, n, idc, val, next, e),
           NEW l, NEW idx, HasBoth(es, l, idx, e)
    PROVE  Modified(l, idx, n, idc, val, s)
             = [list |-> MovedTo(l, idx, e, {e}), idx |-> idx + 1, pred |-> next]
<1> DEFINE named == {f \in {l[i] : i \in DOMAIN l} : PicNumMatch(f, next, s)}
<1>0. /\ l \in Seq(es) /\ idx \in 0..Len(l) - 1 /\ e \in es
      /\ \E i \in DOMAIN l : l[i] = e
  BY DEF HasBoth
<1>1. /\ next \in 0..MaxPicNum(s) - 1 /\ NextPicNum(n, idc, val, s) = next /\ idc \in {0, 1}
      /\ PicNum(e, s) = PicNumOf(next, s)
  BY NextNumber DEF Names
<1>2. \A f \in es : PicNumMatch(f, next, s) <=> f = e
  <2> TAKE f \in es
  <2> QED BY <1>0, <1>1, OneMatch
<1>3. PICK i \in DOMAIN l : l[i] = e
  BY <1>0
<1>4. \A j \in DOMAIN l : l[j] \in es
  BY <1>0
<1>5. named = {e}
  BY <1>2, <1>3, <1>4
<1>6. FirstIn(l, {e}) = e
  BY <1>0, <1>3, FirstInList
<1>7. ~ (idx >= Len(l)) /\ idc \in {0, 1, 2} /\ idc # 2
  BY <1>0, <1>1
<1>8. Modified(l, idx, n, idc, val, s)
        = [list |-> IF named = {} THEN l ELSE MovedTo(l, idx, FirstIn(l, named), named),
           idx |-> idx + 1, pred |-> next]
  <2> HIDE DEF named
  <2>1. {f \in {l[j] : j \in DOMAIN l} : PicNumMatch(f, next, s)} = named
    BY DEF named
  <2> QED BY <1>1, <1>7, <2>1 DEF Modified
<1> HIDE DEF named
<1>9. named # {}
  BY <1>5
<1> QED BY <1>5, <1>6, <1>8, <1>9

NamesLongTerm(es, e) == e \in Longs(es) /\ e.pic.frame_num = e.ref.idx

(* So does a command of idc 2, if the index of the picture is its          *)
(* frame_num.                                                              *)
LEMMA LongTermCommand ==
    ASSUME NEW es, NEW s, Numbered(es, s), NEW n,
           NEW l, NEW idx, NEW e, HasBoth(es, l, idx, e), NamesLongTerm(es, e)
    PROVE  Modified(l, idx, n, 2, LongTermPicNum(e, s), s)
             = [list |-> MovedTo(l, idx, e, {e}), idx |-> idx + 1, pred |-> n]
<1> DEFINE val == LongTermPicNum(e, s)
           named == {f \in {l[i] : i \in DOMAIN l} : f.pic.frame_num = val}
<1>0. /\ l \in Seq(es) /\ idx \in 0..Len(l) - 1 /\ e \in es
      /\ \E i \in DOMAIN l : l[i] = e
  BY DEF HasBoth
<1>1. e \in es /\ e.ref.kind = "long" /\ e \in Longs(es) /\ e.pic.frame_num = e.ref.idx
  BY DEF NamesLongTerm, Longs
<1>2. ~IsField(s)
  <2>1. ShortTerm.kind = "short"
    BY DEF ShortTerm
  <2>2. IsField(s) => e.ref = ShortTerm
    BY <1>1 DEF Numbered
  <2> QED BY <1>1, <2>1, <2>2
<1>3. val = e.pic.frame_num
  BY <1>1, <1>2 DEF LongTermPicNum, OfField
<1> HIDE DEF val
<1>4. \A f \in es : f.pic.frame_num = val <=> f = e
  BY <1>1, <1>2, <1>3 DEF Numbered
<1>5. PICK i \in DOMAIN l : l[i] = e
  BY <1>0
<1>6. \A j \in DOMAIN l : l[j] \in es
  BY <1>0
<1>7. named = {e}
  BY <1>4, <1>5, <1>6
<1>8. FirstIn(l, {e}) = e
  BY <1>0, <1>5, FirstInList
<1>9. ~ (idx >= Len(l))
  BY <1>0
<1>10. Modified(l, idx, n, 2, val, s)
        = [list |-> IF named = {} THEN l
                    ELSE MovedTo(l, idx, FirstIn(l, named), {FirstIn(l, named)}),
           idx |-> idx + 1, pred |-> n]
  <2> HIDE DEF named
  <2>1. {f \in {l[j] : j \in DOMAIN l} : f.pic.frame_num = val} = named
    BY DEF named
  <2> QED BY <1>9, <2>1 DEF Modified
<1> HIDE DEF named
<1>11. named # {}
  BY <1>7
<1> QED BY <1>7, <1>8, <1>10, <1>11 DEF val

-----------------------------------------------------------------------------
(* The invariant.                                                          *)

\* The first m places of the standard's list have pictures, those behind r
\* different ones.
Pictures(std, r, m) ==
    /\ \A i \in 1..Len(std) : std[i] = NoPicture <=> i > m
    /\ \A i, j \in r + 1..m : i # j => std[i] # std[j]

\* l is a list of the pictures T of the length len, and std the standard's,
\* whose pictures l has and of which those behind r are different ones.
Alike(T, l, len, std, n, r) ==
    /\ l \in Seq(T) /\ Len(l) = len
    /\ std \in Seq(T \cup {NoPicture}) /\ Len(std) = n
    /\ \E m \in r..n : Pictures(std, r, m)
    /\ \A i \in 1..n : std[i] # NoPicture => l[i] = std[i]

IInv ==
    /\ Numbered(entries, slice)
    /\ pred_pic_num = number
    /\ number \in 0..MaxPicNum(slice) - 1
    /\ ref_idx_lx \in 0..MaxCommands
    /\ entries # {} => Len(list) >= slice.num_active
    /\ Alike(entries, list, Len(list), standard, slice.num_active, ref_idx_lx)

(* A command for the same picture keeps the two lists alike.               *)
LEMMA SameCommand ==
    ASSUME NEW T, NoPicture \notin T, NEW l, NEW len, NEW std, NEW n, len >= n,
           NEW r \in 0..n - 1, NEW e \in T, Alike(T, l, len, std, n, r)
    PROVE  Alike(T, MovedTo(l, r, e, {e}), len, Placed(std, r, e), n, r + 1)
<1> DEFINE P == Placed(std, r, e)
           M == MovedTo(l, r, e, {e})
<1>0. /\ l \in Seq(T) /\ Len(l) = len /\ std \in Seq(T \cup {NoPicture}) /\ Len(std) = n
      /\ \A i \in 1..n : std[i] # NoPicture => l[i] = std[i]
  BY DEF Alike
<1>m. PICK m \in r..n : Pictures(std, r, m)
  BY DEF Alike
<1>1. /\ n \in Nat /\ Len(l) \in Nat /\ r \in Nat /\ m \in Nat
      /\ r < n /\ n <= Len(l) /\ r <= m /\ m <= n
  BY <1>0
<1>2. /\ \A i \in 1..n : std[i] = NoPicture <=> i > m
      /\ \A i, j \in r + 1..m : i # j => std[i] # std[j]
  BY <1>0, <1>m DEF Pictures
<1>3. \A i \in 1..m : l[i] = std[i] /\ std[i] # NoPicture
  BY <1>0, <1>1, <1>2
<1>4. e # NoPicture
  OBVIOUS
<1>5. PICK q \in r + 1..m + 1 : /\ q <= m => std[q] = e
                                /\ \A i \in r + 1..m : i # q => std[i] # e
  <2>1. CASE \E i \in r + 1..m : std[i] = e
    <3>1. PICK i \in r + 1..m : std[i] = e
      BY <2>1
    <3>2. i \in r + 1..m + 1 /\ \A j \in r + 1..m : j # i => std[j] # e
      BY <1>1, <1>2, <3>1
    <3> QED BY <3>1, <3>2
  <2>2. CASE ~ \E i \in r + 1..m : std[i] = e
    <3>1. m + 1 \in r + 1..m + 1 /\ ~ (m + 1 <= m)
      BY <1>1
    <3> QED BY <2>2, <3>1
  <2> QED BY <2>1, <2>2
<1>6. /\ M \in Seq(T) /\ Len(M) = Len(l)
      /\ \A i \in 1..Len(l) : i <= m \/ i <= q => M[i] = Shifted(l, r, e, q, i)
  <2>1. r \in 0..Len(l) - 1 /\ m \in r..Len(l)
    BY <1>1
  <2>2. q <= m => l[q] = e
    BY <1>1, <1>3, <1>5
  <2>3. \A i \in r + 1..m : i # q => l[i] # e
    BY <1>1, <1>3, <1>5
  <2> HIDE DEF M
  <2>4. AsShifted(T, l, r, e, m, q, MovedTo(l, r, e, {e}))
    BY <1>0, <2>1, <2>2, <2>3, MovedToShifts
  <2> QED BY <2>4 DEF M, AsShifted
<1> DEFINE p == IF q <= m THEN q ELSE n + 1
<1>7. /\ P \in Seq(T \cup {NoPicture}) /\ Len(P) = n
      /\ \A i \in 1..n : P[i] = Shifted(std, r, e, p, i)
  <2> DEFINE U == T \cup {NoPicture}
  <2>1. std \in Seq(U) /\ e \in U
    BY <1>0
  <2>2. p \in r + 1..Len(std) + 1
    BY <1>0, <1>1, <1>5
  <2>3. p <= Len(std) => std[p] = e
    BY <1>0, <1>1, <1>5
  <2>4. \A i \in r + 1..Len(std) : i # p => std[i] # e
    BY <1>0, <1>1, <1>2, <1>4, <1>5
  <2>5. r \in 0..Len(std) - 1
    BY <1>0
  <2> HIDE DEF p, U, P
  <2>6. AsShifted(U, std, r, e, Len(std), p, Placed(std, r, e))
    BY ONLY <2>1, <2>2, <2>3, <2>4, <2>5, PlacedShifts
  <2> QED BY <1>0, <1>1, <2>6 DEF P, U, AsShifted
<1> DEFINE k == IF q <= m \/ m = n THEN m ELSE m + 1
<1>8. k \in r + 1..n /\ k \in Nat
  BY <1>1, <1>5
<1> HIDE DEF M, P
\* What the two lists have in the places that hold pictures.
<1>9. ASSUME NEW i \in 1..k
      PROVE  /\ P[i] = Shifted(std, r, e, q, i) /\ M[i] = P[i] /\ P[i] # NoPicture
  <2>1. i \in 1..n /\ i \in 1..Len(l) /\ (i <= m \/ i <= q)
    BY <1>1, <1>5, <1>8
  <2>2. P[i] = Shifted(std, r, e, q, i)
    <3>1. i <= p <=> i <= q
      BY <1>1, <1>5, <1>9, <2>1
    <3> QED BY <1>7, <2>1, <3>1 DEF Shifted
  <2>3. M[i] = Shifted(l, r, e, q, i)
    BY <1>6, <2>1
  <2>4. CASE i <= r
    BY <1>1, <1>3, <2>2, <2>3, <2>4, <2>1 DEF Shifted
  <2>5. CASE i = r + 1
    BY <1>1, <1>4, <2>2, <2>3, <2>5 DEF Shifted
  <2>6. CASE i > r + 1 /\ i <= q
    <3>1. i - 1 \in 1..m
      BY <1>1, <1>5, <2>1, <2>6
    <3> QED BY <1>1, <1>3, <3>1, <2>1, <2>2, <2>3, <2>6 DEF Shifted
  <2>7. CASE i > r + 1 /\ ~ (i <= q)
    <3>1. i \in 1..m
      BY <1>1, <1>5, <2>1, <2>7
    <3> QED BY <1>1, <1>3, <3>1, <2>1, <2>2, <2>3, <2>7 DEF Shifted
  <2> QED BY <1>1, <2>1, <2>4, <2>5, <2>6, <2>7
<1>10. ASSUME NEW i \in 1..n, i > k PROVE P[i] = NoPicture
  <2>1. P[i] = Shifted(std, r, e, p, i)
    BY <1>7
  <2>2. i > r + 1 /\ ~ (i <= r) /\ i # r + 1
    BY <1>1, <1>8, <1>10
  <2>3. CASE q <= m
    <3>1. ~ (i <= p) /\ i > m
      BY <1>1, <1>5, <1>10, <2>3
    <3> QED BY <1>2, <2>1, <2>2, <3>1 DEF Shifted
  <2>4. CASE ~ (q <= m)
    <3>1. i <= p /\ i - 1 \in 1..n /\ i - 1 > m
      BY <1>1, <1>5, <1>8, <1>10, <2>2, <2>4
    <3>2. std[i - 1] = NoPicture
      BY <1>2, <3>1
    <3> QED BY <2>1, <2>2, <3>1, <3>2 DEF Shifted
  <2> QED BY <2>3, <2>4
\* The place behind r + 1 that a picture of the new list came from.
<1> DEFINE from(i) == IF i <= q THEN i - 1 ELSE i
<1>11. ASSUME NEW i \in r + 2..k
       PROVE  P[i] = std[from(i)] /\ from(i) \in r + 1..m /\ from(i) # q
  <2>1. i \in 1..k /\ ~ (i <= r) /\ i # r + 1
    BY <1>1, <1>8
  <2>2. P[i] = std[from(i)]
    BY <1>9, <2>1 DEF Shifted
  <2>3. from(i) \in r + 1..m /\ from(i) # q
    BY <1>1, <1>5, <1>8
  <2> QED BY <2>2, <2>3
<1>12. ASSUME NEW i \in r + 2..k, NEW j \in r + 2..k, i # j
       PROVE  P[i] # P[j]
  <2>1. from(i) # from(j)
    BY <1>1, <1>5, <1>8, <1>12
  <2> HIDE DEF from
  <2> QED BY <1>2, <1>11, <2>1
<1>13. Pictures(P, r + 1, k)
  <2>1. \A i \in 1..n : P[i] = NoPicture <=> i > k
    <3> TAKE i \in 1..n
    <3>1. i \in 1..k \/ i > k
      BY <1>1, <1>8
    <3>2. ~ (i \in 1..k /\ i > k)
      BY <1>1, <1>8
    <3> QED BY <1>9, <1>10, <3>1, <3>2
  <2>2. r + 1 + 1 = r + 2
    BY <1>1
  <2> HIDE DEF k
  <2> QED BY <1>7, <1>12, <2>1, <2>2 DEF Pictures
<1>14. \A i \in 1..n : P[i] # NoPicture => M[i] = P[i]
  <2> TAKE i \in 1..n
  <2>1. i \in 1..k \/ i > k
    BY <1>1, <1>8
  <2> HIDE DEF k
  <2> QED BY <1>9, <1>10, <2>1
<1> HIDE DEF k
<1> QED BY <1>0, <1>6, <1>7, <1>8, <1>13, <1>14 DEF M, P, Alike

(* What both commands do to the invariant: n is the number they lead to.   *)
LEMMA CommandStep ==
    ASSUME IInv, ref_idx_lx < slice.num_active, ref_idx_lx < MaxCommands,
           NEW e \in entries, NEW n \in 0..MaxPicNum(slice) - 1,
           list' = MovedTo(list, ref_idx_lx, e, {e}),
           standard' = Placed(standard, ref_idx_lx, e),
           ref_idx_lx' = ref_idx_lx + 1,
           pred_pic_num' = n, number' = n, UNCHANGED <<entries, slice>>
    PROVE  IInv'
<1>1. /\ Numbered(entries, slice) /\ slice.num_active \in Nat \ {0} /\ NoPicture \notin entries
      /\ MaxCommands \in Nat /\ ref_idx_lx \in Nat
  BY RefListAssumption DEF IInv, Numbered
<1>2. Alike(entries, list, Len(list), standard, slice.num_active, ref_idx_lx)
  BY DEF IInv
<1>3. ref_idx_lx \in 0..slice.num_active - 1 /\ Len(list) >= slice.num_active
  BY <1>1 DEF IInv
<1>4. Alike(entries, MovedTo(list, ref_idx_lx, e, {e}), Len(list),
            Placed(standard, ref_idx_lx, e), slice.num_active, ref_idx_lx + 1)
  BY <1>1, <1>2, <1>3, SameCommand
<1>5. Alike(entries, list', Len(list), standard', slice.num_active, ref_idx_lx')
  BY <1>4
<1>6. /\ entries' = entries /\ slice' = slice /\ ref_idx_lx' \in 0..MaxCommands
  BY <1>1
<1>7. MaxPicNum(slice)' = MaxPicNum(slice)
  BY <1>6
<1> QED BY <1>1, <1>3, <1>5, <1>6, <1>7 DEF IInv, Alike

(* A command of the slice header keeps the invariant, unless it is one of  *)
(* those RefList says the code goes wrong with.                            *)
LEMMA Step ==
    ASSUME Avoids("long_term_command"), Avoids("pushed_out"), IInv, [Next]_vars
    PROVE  IInv'
<1>1. /\ list \in Seq(entries) /\ number \in 0..MaxPicNum(slice) - 1 /\ pred_pic_num = number
      /\ Numbered(entries, slice) /\ slice.num_active \in Nat \ {0} /\ Len(list) \in Nat
      /\ MaxCommands \in Nat /\ ref_idx_lx \in Nat
      /\ entries # {} => Len(list) >= slice.num_active
  BY RefListAssumption DEF IInv, Numbered, Alike
<1>2. CASE ModifyShortTerm
  <2>1. PICK idc \in {0, 1}, val \in 0..MaxPicNum(slice) - 1, e \in Shorts(entries) :
          /\ PicNum(e, slice) = PicNumOf(NumberAfter(number, idc, val, slice), slice)
          /\ InList(e)
          /\ Modify(idc, val)
          /\ standard' = Placed(standard, ref_idx_lx, e)
          /\ number' = NumberAfter(number, idc, val, slice)
    BY <1>2 DEF ModifyShortTerm
  <2>2. e \in entries /\ ref_idx_lx < slice.num_active /\ ref_idx_lx < MaxCommands
    BY <1>2 DEF ModifyShortTerm, Shorts
  <2>3. HasBoth(entries, list, ref_idx_lx, e)
    BY <1>1, <2>1, <2>2 DEF InList, HasBoth
  <2> DEFINE n == NumberAfter(number, idc, val, slice)
  <2>4. n \in 0..MaxPicNum(slice) - 1
    BY <1>1, NextNumber
  <2>5. Modified(list, ref_idx_lx, number, idc, val, slice)
          = [list |-> MovedTo(list, ref_idx_lx, e, {e}), idx |-> ref_idx_lx + 1, pred |-> n]
    <3>1. Numbered(entries, slice) /\ Names(slice, number, idc, val, n, e)
      BY <1>1, <2>1 DEF Names
    <3> HIDE DEF n
    <3> QED BY ONLY <3>1, <2>3, ShortTermCommand
  <2> HIDE DEF n
  <2>6. /\ list' = MovedTo(list, ref_idx_lx, e, {e}) /\ ref_idx_lx' = ref_idx_lx + 1
        /\ pred_pic_num' = n /\ UNCHANGED <<entries, slice>>
    BY <1>1, <2>1, <2>5 DEF Modify
  <2>7. number' = n
    BY <2>1 DEF n
  <2> QED BY <2>1, <2>2, <2>4, <2>6, <2>7, CommandStep
<1>3. CASE ModifyLongTerm
  <2>1. PICK e \in Longs(entries) :
          /\ e.pic.frame_num = e.ref.idx
          /\ InList(e)
          /\ Modify(2, LongTermPicNum(e, slice))
          /\ standard' = Placed(standard, ref_idx_lx, e)
          /\ number' = number
    BY <1>3 DEF ModifyLongTerm
  <2>2. e \in entries /\ ref_idx_lx < slice.num_active /\ ref_idx_lx < MaxCommands
    BY <1>3 DEF ModifyLongTerm, Longs
  <2>3. HasBoth(entries, list, ref_idx_lx, e)
    BY <1>1, <2>1, <2>2 DEF InList, HasBoth
  <2>5. Modified(list, ref_idx_lx, number, 2, LongTermPicNum(e, slice), slice)
          = [list |-> MovedTo(list, ref_idx_lx, e, {e}), idx |-> ref_idx_lx + 1, pred |-> number]
    <3>1. Numbered(entries, slice) /\ NamesLongTerm(entries, e)
      BY <1>1, <2>1 DEF NamesLongTerm
    <3> QED BY ONLY <3>1, <2>3, LongTermCommand
  <2>6. /\ list' = MovedTo(list, ref_idx_lx, e, {e}) /\ ref_idx_lx' = ref_idx_lx + 1
        /\ pred_pic_num' = number /\ UNCHANGED <<entries, slice>>
    BY <1>1, <2>1, <2>5 DEF Modify
  <2> QED BY <1>1, <2>1, <2>2, <2>6, CommandStep
<1>4. CASE UNCHANGED vars
  <2>1. /\ entries' = entries /\ slice' = slice /\ list' = list /\ ref_idx_lx' = ref_idx_lx
        /\ pred_pic_num' = pred_pic_num /\ standard' = standard /\ number' = number
    BY <1>4 DEF vars
  <2>3. MaxPicNum(slice)' = MaxPicNum(slice)
    BY <2>1
  <2> QED BY <2>1, <2>3 DEF IInv
<1> QED BY <1>2, <1>3, <1>4 DEF Next

-----------------------------------------------------------------------------
(* The lists modification begins with.                                     *)

(* The list and the standard's list before modification.                   *)
LEMMA Beginning ==
    ASSUME NEW es, NoPicture \notin es, NEW s, NEW n, n = s.num_active, n \in Nat \ {0},
           NEW l, Lists(l, es), l = Swapped(es, s)
    PROVE  /\ Alike(es, Padded(l, n), Len(Padded(l, n)), StandardList(es, s), n, 0)
           /\ es # {} => Len(Padded(l, n)) >= n
<1> DEFINE p == Padded(l, n)
           std == StandardList(es, s)
           m == IF Len(l) <= n THEN Len(l) ELSE n
<1>1. l \in Seq(es) /\ Len(l) \in Nat /\ l \in [1..Len(l) -> es] /\ n \in Nat /\ n > 0
  BY DEF Lists
<1>2. std = [i \in 1..n |-> IF i <= Len(l) THEN l[i] ELSE NoPicture]
  BY Zenon DEF StandardList
<1>3. \A i \in 1..n : IF i <= Len(l) THEN std[i] = l[i] /\ std[i] \in es
                      ELSE std[i] = NoPicture
  <2> HIDE DEF std
  <2> TAKE i \in 1..n
  <2>1. CASE i <= Len(l)
    <3>1. i \in 1..Len(l)
      BY <1>1, <2>1
    <3> QED BY <1>1, <1>2, <2>1, <3>1
  <2>2. CASE ~ (i <= Len(l))
    BY <1>2, <2>2
  <2> QED BY <2>1, <2>2
<1>4. std \in Seq(es \cup {NoPicture}) /\ Len(std) = n
  <2> HIDE DEF std
  <2>1. std \in [1..n -> es \cup {NoPicture}]
    BY <1>2, <1>3
  <2> QED BY <1>1, <2>1
<1>5. CASE l = <<>>
  <2>1. p = <<>> /\ es = {}
    BY <1>5 DEF Padded, Lists
  <2>2. p \in Seq(es) /\ m = 0 /\ Len(l) = 0
    <3>1. <<>> \in Seq(es) /\ Len(<<>>) = 0
      OBVIOUS
    <3>2. Len(l) = 0
      BY <1>5, <3>1
    <3>3. m = 0
      BY <1>1, <3>2
    <3> HIDE DEF p, m
    <3> QED BY <2>1, <3>1, <3>2, <3>3
  <2>3. \A i \in 1..n : std[i] = NoPicture
    BY <1>3, <2>2
  <2> HIDE DEF p, std
  <2>4. Pictures(std, 0, 0)
    BY <1>4, <2>3 DEF Pictures
  <2>5. 0 \in 0..n
    BY <1>1
  <2>6. Alike(es, p, Len(p), std, n, 0)
    BY <1>1, <1>4, <2>2, <2>3, <2>4, <2>5 DEF Alike
  <2> QED BY <2>1, <2>6 DEF p, std
<1>6. CASE l # <<>>
  <2> DEFINE k == Max0(Len(l), n)
  <2>1. Len(l) # 0
    BY <1>1, <1>6
  <2>2. k \in Nat /\ k >= n /\ k >= Len(l) /\ Len(l) \in 1..Len(l)
    BY <1>1, <2>1 DEF Max0
  <2> HIDE DEF k
  <2>3. p = [i \in 1..k |-> IF i <= Len(l) THEN l[i] ELSE l[Len(l)]]
    BY <1>6 DEF Padded, k
  <2>4. ASSUME NEW i \in 1..k PROVE p[i] \in es /\ (i <= Len(l) => p[i] = l[i])
    <3>1. p[i] = IF i <= Len(l) THEN l[i] ELSE l[Len(l)]
      BY <2>3
    <3>2. i <= Len(l) => i \in 1..Len(l)
      BY <1>1, <2>2
    <3> HIDE DEF p
    <3> QED BY <1>1, <2>2, <3>1, <3>2
  <2>5. p \in Seq(es) /\ Len(p) = k
    <3>1. p \in [1..k -> es]
      BY <2>3, <2>4
    <3> HIDE DEF p
    <3> QED BY <2>2, <3>1
  <2> HIDE DEF p, std
  <2>6. m \in 0..n
    BY <1>1
  <2>7. Pictures(std, 0, m)
    <3>1. \A i \in 1..n : std[i] = NoPicture <=> i > m
      BY <1>1, <1>3
    <3>2. ASSUME NEW i \in 1..m, NEW j \in 1..m, i # j PROVE std[i] # std[j]
      <4>1. /\ i \in 1..n /\ j \in 1..n /\ i <= Len(l) /\ j <= Len(l)
            /\ i \in 1..Len(l) /\ j \in 1..Len(l)
        BY <1>1
      <4>2. l[i] # l[j]
        BY <3>2, <4>1 DEF Lists
      <4> QED BY <1>3, <4>1, <4>2
    <3> QED BY <1>4, <3>1, <3>2 DEF Pictures
  <2> HIDE DEF m
  <2>8. ASSUME NEW i \in 1..n, std[i] # NoPicture PROVE p[i] = std[i]
    <3>1. i <= Len(l) /\ std[i] = l[i]
      BY <1>3, <2>8
    <3>2. i \in 1..k
      BY <1>1, <2>2
    <3> QED BY <2>4, <3>1, <3>2
  <2>9. Alike(es, p, Len(p), std, n, 0)
    BY <1>4, <2>5, <2>6, <2>7, <2>8 DEF Alike
  <2> QED BY <2>2, <2>5, <2>9 DEF p, std
<1> QED BY <1>5, <1>6

(* A frame_num that is g behind f, before the range begins or after.       *)
LEMMA Behind ==
    ASSUME NEW f \in 0..MaxFrameNum - 1, NEW g \in 1..MaxFrameNum - 1
    PROVE  (f - g + MaxFrameNum) % MaxFrameNum = IF g <= f THEN f - g ELSE f - g + MaxFrameNum
<1> DEFINE N == MaxFrameNum
<1>1. N \in Nat /\ N > 0
  BY RefListAssumption
<1> HIDE DEF N
<1>2. CASE g <= f
  <2>1. f - g \in 0..N - 1
    BY <1>1, <1>2 DEF N
  <2>2. \A x \in 0..N - 1 : (x + N) % N = x
    BY <1>1
  <2> QED BY <1>2, <2>1, <2>2 DEF N
<1>3. CASE ~ (g <= f)
  <2>1. f - g + N \in 0..N - 1
    BY <1>1, <1>3 DEF N
  <2>2. \A x \in 0..N - 1 : x % N = x
    BY <1>1
  <2> QED BY <1>3, <2>1, <2>2 DEF N
<1> QED BY <1>2, <1>3

\* The picture of the slice is decoded after those of n frames.
Current(s, frame_num, rank, n) ==
    /\ s \in Slices /\ s.frame_num = frame_num /\ s.poc = 2 * rank[n + 1]

(* What the numbers of a buffer are, frame by frame.                       *)
LEMMA FrameNumbers ==
    ASSUME NEW n \in Nat, NEW frame_num \in 0..MaxFrameNum - 1, NEW gap \in Increasing(n),
           NEW rank \in Orders(n), NEW s, Current(s, frame_num, rank, n)
    PROVE  LET num(i) == (frame_num - gap[i] + MaxFrameNum) % MaxFrameNum
               wrap(i) == IF num(i) > s.frame_num THEN num(i) - MaxFrameNum ELSE num(i)
           IN  /\ \A i \in 1..n : /\ num(i) \in 0..MaxFrameNum - 1 /\ wrap(i) \in Int
                                  /\ rank[i] \in Int /\ rank[i] # rank[n + 1]
               /\ \A i, j \in 1..n : i # j => num(i) # num(j) /\ rank[i] # rank[j]
               /\ \A i, j \in 1..n : i < j => wrap(i) < wrap(j)
               /\ rank[n + 1] \in Int
<1> DEFINE num(i) == (frame_num - gap[i] + MaxFrameNum) % MaxFrameNum
           wrap(i) == IF num(i) > s.frame_num THEN num(i) - MaxFrameNum ELSE num(i)
<1>1. MaxFrameNum \in Nat /\ MaxFrameNum > 0
  BY RefListAssumption
<1>2. /\ \A i \in 1..n : gap[i] \in 1..MaxFrameNum - 1
      /\ \A i, j \in 1..n : i < j => gap[i] > gap[j]
  BY DEF Increasing
<1>3. /\ \A i \in 1..n + 1 : rank[i] \in Int
      /\ \A i, j \in 1..n + 1 : i # j => rank[i] # rank[j]
  BY DEF Orders
<1>4. ASSUME NEW i \in 1..n
      PROVE  num(i) = IF gap[i] <= frame_num THEN frame_num - gap[i]
                      ELSE frame_num - gap[i] + MaxFrameNum
  BY <1>2, Behind
<1> HIDE DEF num
<1>5. ASSUME NEW i \in 1..n
      PROVE  num(i) \in 0..MaxFrameNum - 1 /\ wrap(i) = frame_num - gap[i]
  <2>1. gap[i] \in 1..MaxFrameNum - 1
    BY <1>2
  <2>2. s.frame_num = frame_num
    BY DEF Current
  <2> QED BY <1>1, <1>4, <2>1, <2>2
<1> HIDE DEF wrap
<1>6. ASSUME NEW i \in 1..n, NEW j \in 1..n, i < j PROVE wrap(i) < wrap(j) /\ num(i) # num(j)
  <2>1. gap[i] \in 1..MaxFrameNum - 1 /\ gap[j] \in 1..MaxFrameNum - 1 /\ gap[i] > gap[j]
    BY <1>2, <1>6
  <2>2. wrap(i) < wrap(j)
    BY <1>5, <2>1
  <2>3. num(i) # num(j)
    BY <1>1, <1>4, <2>1
  <2> QED BY <2>2, <2>3
<1>7. \A i \in 1..n : /\ num(i) \in 0..MaxFrameNum - 1 /\ wrap(i) \in Int
                      /\ rank[i] \in Int /\ rank[i] # rank[n + 1]
  <2> TAKE i \in 1..n
  <2>1. i \in 1..n + 1 /\ n + 1 \in 1..n + 1 /\ i # n + 1
    OBVIOUS
  <2>2. rank[i] \in Int /\ rank[i] # rank[n + 1]
    BY <1>3, <2>1
  <2>3. wrap(i) \in Int
    BY <1>2, <1>5
  <2> QED BY <1>5, <2>2, <2>3
<1>8. \A i, j \in 1..n : i # j => num(i) # num(j) /\ rank[i] # rank[j]
  <2> TAKE i, j \in 1..n
  <2> HAVE i # j
  <2>1. i \in 1..n + 1 /\ j \in 1..n + 1 /\ (i < j \/ j < i)
    OBVIOUS
  <2> QED BY <1>3, <1>6, <2>1
<1>9. rank[n + 1] \in Int
  <2>1. n + 1 \in 1..n + 1
    OBVIOUS
  <2> QED BY <1>3, <2>1
<1> QED BY <1>6, <1>7, <1>8, <1>9 DEF num, wrap

(* The buffers of frames.                                                  *)
LEMMA OfFrames ==
    ASSUME NEW n \in Nat, NEW frame_num \in 0..MaxFrameNum - 1, NEW gap \in Increasing(n),
           NEW rank \in Orders(n), NEW refs \in References(n),
           NEW s, Current(s, frame_num, rank, n), s.structure = "Frame",
           NEW es, es = FramesOf(frame_num, gap, rank, refs)
    PROVE  FrameBuffer(es, s) /\ Numbered(es, s)
<1> DEFINE num(i) == (frame_num - gap[i] + MaxFrameNum) % MaxFrameNum
           wrap(i) == IF num(i) > s.frame_num THEN num(i) - MaxFrameNum ELSE num(i)
           E == [i \in 1..n |-> Entry(Picture(i, num(i), 2 * rank[i], "Frame"), refs[i])]
<1>1. /\ \A i \in 1..n : /\ num(i) \in 0..MaxFrameNum - 1 /\ wrap(i) \in Int
                         /\ rank[i] \in Int /\ rank[i] # rank[n + 1]
      /\ \A i, j \in 1..n : i # j => num(i) # num(j) /\ rank[i] # rank[j]
      /\ \A i, j \in 1..n : i < j => wrap(i) < wrap(j)
      /\ rank[n + 1] \in Int
  BY FrameNumbers
<1> HIDE DEF num
<1>2. DOMAIN refs = 1..n
  BY DEF References
<1>3. \A e \in es : \E i \in 1..n : e = E[i]
  BY <1>2 DEF FramesOf, num
<1>4. \A i \in 1..n : E[i] \in es
  BY <1>2 DEF FramesOf, num
<1>5. ASSUME NEW i \in 1..n
      PROVE  /\ E[i].pic.id = i /\ E[i].pic.frame_num = num(i) /\ E[i].pic.poc = 2 * rank[i]
             /\ E[i].pic.structure = "Frame" /\ E[i].ref = refs[i]
             /\ E[i] = [pic |-> E[i].pic, ref |-> refs[i]]
             /\ E[i].pic \in [id : Nat, frame_num : Nat, poc : Int, structure : Structures]
  <2>1. num(i) \in Nat /\ rank[i] \in Int
    BY <1>1, RefListAssumption
  <2>2. E[i].pic = [id |-> i, frame_num |-> num(i), poc |-> 2 * rank[i], structure |-> "Frame"]
    BY DEF Entry, Picture
  <2>3. E[i] = [pic |-> E[i].pic, ref |-> refs[i]]
    BY DEF Entry, Picture
  <2> HIDE DEF E
  <2> QED BY <2>1, <2>2, <2>3 DEF Structures
<1>6. ASSUME NEW i \in 1..n
      PROVE  /\ refs[i] \in [kind : {"short", "long"}, idx : Nat]
             /\ refs[i] = ShortTerm \/ refs[i].kind = "long"
  <2>1. refs[i] = ShortTerm \/ \E k \in 0..n - 1 : refs[i] = LongTerm(k)
    BY DEF References
  <2>2. CASE refs[i] = ShortTerm
    BY <2>2 DEF ShortTerm
  <2>3. CASE \E k \in 0..n - 1 : refs[i] = LongTerm(k)
    <3>1. PICK k \in 0..n - 1 : refs[i] = LongTerm(k)
      BY <2>3
    <3>2. refs[i] = [kind |-> "long", idx |-> k] /\ k \in Nat
      BY <3>1 DEF LongTerm
    <3> QED BY <3>2
  <2> QED BY <2>1, <2>2, <2>3
<1>7. ASSUME NEW i \in 1..n, NEW j \in 1..n, i # j, refs[i].kind = "long", refs[j].kind = "long"
      PROVE  refs[i].idx # refs[j].idx
  <2>1. refs[i] # refs[j]
    BY <1>7 DEF References, ShortTerm
  <2> QED BY <1>7, <2>1 DEF References, ShortTerm, LongTerm
<1> HIDE DEF E, wrap
<1>8. \A i \in 1..n : FrameNumWrap(E[i], s) = wrap(i)
  BY <1>5 DEF FrameNumWrap, wrap
<1>9. IsFiniteSet(es)
  <2>1. E \in Surjection(1..n, es)
    BY <1>3, <1>4 DEF Surjection, E
  <2>2. IsFiniteSet(1..n)
    BY Interval
  <2> QED BY <2>1, <2>2, FS_Surjection
<1>10. s \in Slices /\ s.poc = 2 * rank[n + 1] /\ s.poc \in Int /\ s.frame_num = frame_num
  BY <1>1 DEF Current
<1>11. ~ IsField(s)
  BY DEF IsField
<1>12. ASSUME NEW e \in es
       PROVE  /\ e.pic.id \in Int /\ e.pic.poc \in Int /\ e.ref.idx \in Nat
              /\ e.pic.frame_num \in 0..MaxFrameNum - 1 /\ FrameNumWrap(e, s) \in Int
              /\ e.ref = ShortTerm \/ e.ref.kind = "long"
              /\ e.pic.structure = "Frame" /\ e # NoPicture
  <2>1. PICK i \in 1..n : e = E[i]
    BY <1>3
  <2>2. /\ e.pic.id = i /\ e.pic.frame_num = num(i) /\ e.pic.poc = 2 * rank[i]
        /\ e.pic.structure = "Frame" /\ e.ref = refs[i]
    BY <1>5, <2>1
  <2>3. refs[i].idx \in Nat /\ (refs[i] = ShortTerm \/ refs[i].kind = "long")
    BY <1>6
  <2>4. e # NoPicture
    <3>1. /\ e = [pic |-> e.pic, ref |-> refs[i]]
          /\ refs[i] \in [kind : {"short", "long"}, idx : Nat]
          /\ e.pic \in [id : Nat, frame_num : Nat, poc : Int, structure : Structures]
      BY <1>5, <1>6, <2>1
    <3>2. e \in [pic : [id : Nat, frame_num : Nat, poc : Int, structure : Structures],
                 ref : [kind : {"short", "long"}, idx : Nat]]
      BY <3>1
    <3> QED BY <3>2, RefListAssumption
  <2>5. FrameNumWrap(e, s) \in Int /\ num(i) \in 0..MaxFrameNum - 1 /\ rank[i] \in Int
    BY <1>1, <1>8, <2>1
  <2> QED BY <2>2, <2>3, <2>4, <2>5
<1>13. ASSUME NEW e \in es, NEW f \in es
       PROVE  /\ e # f => /\ e.pic.poc # f.pic.poc /\ e.pic.id # f.pic.id
                          /\ e.pic.frame_num # f.pic.frame_num
                          /\ e \in Longs(es) /\ f \in Longs(es) => e.ref.idx # f.ref.idx
              /\ e.pic.id < f.pic.id => FrameNumWrap(e, s) < FrameNumWrap(f, s)
  <2>1. PICK i \in 1..n : e = E[i]
    BY <1>3
  <2>2. PICK j \in 1..n : f = E[j]
    BY <1>3
  <2>3. /\ e.pic.id = i /\ e.pic.frame_num = num(i) /\ e.pic.poc = 2 * rank[i] /\ e.ref = refs[i]
        /\ f.pic.id = j /\ f.pic.frame_num = num(j) /\ f.pic.poc = 2 * rank[j] /\ f.ref = refs[j]
        /\ FrameNumWrap(e, s) = wrap(i) /\ FrameNumWrap(f, s) = wrap(j)
    BY <1>5, <1>8, <2>1, <2>2
  <2>4. i < j => wrap(i) < wrap(j)
    BY <1>1
  <2>5. ASSUME e # f
        PROVE  /\ e.pic.poc # f.pic.poc /\ e.pic.id # f.pic.id
               /\ e.pic.frame_num # f.pic.frame_num
               /\ e \in Longs(es) /\ f \in Longs(es) => e.ref.idx # f.ref.idx
    <3>1. i # j
      BY <2>1, <2>2, <2>5
    <3>2. rank[i] \in Int /\ rank[j] \in Int /\ rank[i] # rank[j] /\ num(i) # num(j)
      BY <1>1, <3>1
    <3>3. e \in Longs(es) /\ f \in Longs(es) => e.ref.idx # f.ref.idx
      BY <1>7, <2>3, <3>1 DEF Longs
    <3> QED BY <2>3, <3>1, <3>2, <3>3
  <2> QED BY <2>3, <2>4, <2>5
<1>14. FrameBuffer(es, s)
  BY <1>9, <1>10, <1>11, <1>12, <1>13 DEF FrameBuffer
<1>15. Numbered(es, s)
  <2>1. s \in [kind : {"P", "B0", "B1"}, poc : Int, frame_num : 0..MaxFrameNum - 1,
               structure : Structures, num_active : Nat \ {0}]
    BY <1>10 DEF Slices
  <2>2. "Frame" \in Structures
    BY DEF Structures
  <2> QED BY <1>11, <1>12, <1>13, <2>1, <2>2 DEF Numbered
<1> QED BY <1>14, <1>15

(* The buffers of fields.                                                  *)
LEMMA OfFields ==
    ASSUME NEW n \in Nat, NEW frame_num \in 0..MaxFrameNum - 1, NEW gap \in Increasing(n),
           NEW rank \in Orders(n), NEW first \in {"TopField", "BottomField"},
           NEW s, Current(s, frame_num, rank, n), s.structure \in {"TopField", "BottomField"},
           NEW es, es = FieldsOf(frame_num, gap, rank, n, first),
           s.kind = "P" => InOutputOrder(es)
    PROVE  (\E D, O, c, d : FieldBuffer(es, s, n, D, O, c, d)) /\ Numbered(es, s)
<1> DEFINE num(i) == (frame_num - gap[i] + MaxFrameNum) % MaxFrameNum
           wrap(i) == IF num(i) > s.frame_num THEN num(i) - MaxFrameNum ELSE num(i)
           X == [i \in 1..n |-> Entry(Picture(2 * i, num(i), 2 * rank[i], first), ShortTerm)]
           Y == [i \in 1..n |-> Entry(Picture(2 * i + 1, num(i), 2 * rank[i] + 1, Other(first)),
                                      ShortTerm)]
           c == [i \in 1..n |-> 2 * rank[i]]
           same == first = s.structure
<1>1. /\ \A i \in 1..n : /\ num(i) \in 0..MaxFrameNum - 1 /\ wrap(i) \in Int
                         /\ rank[i] \in Int /\ rank[i] # rank[n + 1]
      /\ \A i, j \in 1..n : i # j => num(i) # num(j) /\ rank[i] # rank[j]
      /\ \A i, j \in 1..n : i < j => wrap(i) < wrap(j)
      /\ rank[n + 1] \in Int
  BY FrameNumbers
<1>2. s \in Slices /\ s.poc = 2 * rank[n + 1] /\ s.poc \in Int /\ s.frame_num = frame_num
  BY <1>1 DEF Current
<1>3. IsField(s)
  BY DEF IsField
<1> DEFINE E(i, k) == Entry(Picture(2 * i + k, num(i), 2 * rank[i] + k,
                                    IF k = 0 THEN first ELSE Other(first)), ShortTerm)
<1>4. es = UNION {{E(i, k) : k \in {0, 1}} : i \in 1..n}
  BY Zenon DEF FieldsOf
<1>5. ASSUME NEW i \in 1..n PROVE E(i, 0) = X[i] /\ E(i, 1) = Y[i]
  <2>1. 2 * i + 0 = 2 * i /\ 2 * rank[i] + 0 = 2 * rank[i]
    BY <1>1
  <2> HIDE DEF num
  <2> QED BY <2>1
<1> HIDE DEF num, wrap, E
<1>6. \A e \in es : \E i \in 1..n : e = X[i] \/ e = Y[i]
  BY <1>4, <1>5
<1>7. \A i \in 1..n : X[i] \in es /\ Y[i] \in es
  BY <1>4, <1>5
<1>8. ASSUME NEW i \in 1..n
      PROVE  /\ X[i].pic.id = 2 * i /\ X[i].pic.frame_num = num(i) /\ X[i].pic.poc = c[i]
             /\ X[i].pic.structure = first /\ X[i].ref = ShortTerm
             /\ Y[i].pic.id = 2 * i + 1 /\ Y[i].pic.frame_num = num(i) /\ Y[i].pic.poc = c[i] + 1
             /\ Y[i].pic.structure = Other(first) /\ Y[i].ref = ShortTerm
             /\ X[i] = [pic |-> X[i].pic, ref |-> ShortTerm]
             /\ X[i].pic \in [id : Nat, frame_num : Nat, poc : Int, structure : Structures]
             /\ Y[i] = [pic |-> Y[i].pic, ref |-> ShortTerm]
             /\ Y[i].pic \in [id : Nat, frame_num : Nat, poc : Int, structure : Structures]
  <2>1. num(i) \in Nat /\ rank[i] \in Int /\ 2 * rank[i] \in Int /\ 2 * rank[i] + 1 \in Int
    BY <1>1, RefListAssumption
  <2>2. /\ X[i].pic = [id |-> 2 * i, frame_num |-> num(i), poc |-> 2 * rank[i], structure |-> first]
        /\ X[i] = [pic |-> X[i].pic, ref |-> ShortTerm]
    BY DEF Entry, Picture
  <2>3. /\ Y[i].pic = [id |-> 2 * i + 1, frame_num |-> num(i), poc |-> 2 * rank[i] + 1,
                       structure |-> Other(first)]
        /\ Y[i] = [pic |-> Y[i].pic, ref |-> ShortTerm]
    BY DEF Entry, Picture
  <2>4. c[i] = 2 * rank[i]
    OBVIOUS
  <2>5. first \in Structures /\ Other(first) \in Structures
    BY DEF Structures, Other
  <2> HIDE DEF X, Y, c
  <2> QED BY <2>1, <2>2, <2>3, <2>4, <2>5
<1>9. /\ \A i \in 1..n : c[i] = 2 * rank[i] /\ c[i] \in Int /\ c[i] # s.poc
      /\ \A i, j \in 1..n : i # j => c[i] # c[j] /\ c[i] + 1 # c[j]
  BY <1>1, <1>2
<1>10. c \in [1..n -> Int] /\ X \in [1..n -> es] /\ Y \in [1..n -> es]
  BY <1>7, <1>9
<1> HIDE DEF X, Y, c
<1>11. \A i \in 1..n : FrameNumWrap(X[i], s) = wrap(i) /\ FrameNumWrap(Y[i], s) = wrap(i)
  BY <1>8 DEF FrameNumWrap, wrap
<1>12. Other(first) \in {"TopField", "BottomField"} /\ Other(first) # first
       /\ \A p \in {"TopField", "BottomField"} : p = first \/ p = Other(first)
  BY DEF Other
<1>13. \A i \in 1..n : /\ Parity(X[i], s) <=> same
                       /\ SameParity(X[i], s) <=> same
                       /\ Parity(Y[i], s) <=> ~same
                       /\ SameParity(Y[i], s) <=> ~same
  BY <1>8, <1>12 DEF Parity, SameParity
<1>14. ASSUME s.kind = "P", NEW i \in 1..n, NEW j \in 1..n, i < j PROVE c[i] < c[j]
  <2>1. X[i] \in Shorts(es) /\ X[j] \in Shorts(es)
    BY <1>7, <1>8 DEF Shorts
  <2>2. X[i].pic.id < X[j].pic.id
    <3>1. X[i].pic.id = 2 * i /\ X[j].pic.id = 2 * j
      BY <1>8
    <3> QED BY <1>14, <3>1
  <2>3. X[i].pic.poc < X[j].pic.poc
    BY <1>14, <2>1, <2>2 DEF InOutputOrder
  <2> QED BY <1>8, <2>3
<1>15. ASSUME NEW e \in es
       PROVE  /\ e.pic.id \in Int /\ e.pic.poc \in Int /\ e.ref = ShortTerm /\ e.ref.idx \in Nat
              /\ e.pic.frame_num \in 0..MaxFrameNum - 1
              /\ e.pic.structure # "Frame" /\ e.pic.structure \in Structures /\ e # NoPicture
  <2>1. PICK i \in 1..n : e = X[i] \/ e = Y[i]
    BY <1>6
  <2>2. /\ e.ref = ShortTerm /\ e.pic.frame_num = num(i) /\ e = [pic |-> e.pic, ref |-> ShortTerm]
        /\ e.pic \in [id : Nat, frame_num : Nat, poc : Int, structure : Structures]
        /\ e.pic.structure \in {first, Other(first)}
    BY <1>8, <2>1
  <2>3. ShortTerm \in [kind : {"short", "long"}, idx : Nat]
    BY DEF ShortTerm
  <2>4. e \in [pic : [id : Nat, frame_num : Nat, poc : Int, structure : Structures],
               ref : [kind : {"short", "long"}, idx : Nat]]
    BY <2>2, <2>3
  <2>5. e # NoPicture
    BY <2>4, RefListAssumption
  <2>6. e.ref.idx \in Nat
    BY <2>4
  <2>7. num(i) \in 0..MaxFrameNum - 1
    BY <1>1
  <2> QED BY <1>12, <2>2, <2>5, <2>6, <2>7
<1>16. Numbered(es, s)
  <2>1. s \in [kind : {"P", "B0", "B1"}, poc : Int, frame_num : 0..MaxFrameNum - 1,
               structure : Structures, num_active : Nat \ {0}]
    BY <1>2 DEF Slices
  <2>2. ASSUME NEW e \in es, NEW f \in es, e.pic.frame_num = f.pic.frame_num,
               e.pic.structure = f.pic.structure
        PROVE  e = f
    <3>1. PICK i \in 1..n : e = X[i] \/ e = Y[i]
      BY <1>6
    <3>2. PICK j \in 1..n : f = X[j] \/ f = Y[j]
      BY <1>6
    <3>3. num(i) = num(j)
      BY <1>8, <2>2, <3>1, <3>2
    <3>4. i = j
      BY <1>1, <3>3
    <3> QED BY <1>8, <1>12, <2>2, <3>1, <3>2, <3>4
  <2> QED BY <1>3, <1>15, <2>1, <2>2 DEF Numbered
<1>17. CASE same
  <2>1. \A i \in 1..n : /\ Parity(X[i], s) /\ ~Parity(Y[i], s)
                        /\ SameParity(X[i], s) /\ ~SameParity(Y[i], s)
                        /\ X[i].pic.frame_num = Y[i].pic.frame_num
                        /\ c[i] # s.poc /\ FrameNumWrap(X[i], s) \in Int
    <3> TAKE i \in 1..n
    <3>1. X[i].pic.frame_num = num(i) /\ Y[i].pic.frame_num = num(i)
      BY <1>8
    <3>2. c[i] # s.poc /\ FrameNumWrap(X[i], s) \in Int
      BY <1>1, <1>9, <1>11
    <3>3. Parity(X[i], s) /\ ~Parity(Y[i], s) /\ SameParity(X[i], s) /\ ~SameParity(Y[i], s)
      BY <1>13, <1>17
    <3> QED BY <3>1, <3>2, <3>3
  <2>2. \A i \in 1..n : X[i].pic.poc = c[i] + 0 /\ Y[i].pic.poc = c[i] + 1 - 0
    <3> TAKE i \in 1..n
    <3>1. X[i].pic.poc = c[i] /\ Y[i].pic.poc = c[i] + 1 /\ c[i] \in Int
      BY <1>8, <1>9
    <3> QED BY <3>1
  <2>3. \A i, j \in 1..n : i # j => X[i].pic.frame_num # X[j].pic.frame_num
    <3> TAKE i, j \in 1..n
    <3>1. X[i].pic.frame_num = num(i) /\ X[j].pic.frame_num = num(j)
      BY <1>8
    <3> QED BY <1>1, <3>1
  <2>4. \A i, j \in 1..n : i < j => FrameNumWrap(X[i], s) < FrameNumWrap(X[j], s)
    <3> TAKE i, j \in 1..n
    <3>1. FrameNumWrap(X[i], s) = wrap(i) /\ FrameNumWrap(X[j], s) = wrap(j)
      BY <1>11
    <3> QED BY <1>1, <3>1
  <2>5. \A e \in es : \E i \in 1..n : e = X[i] \/ e = Y[i]
    BY <1>6
  <2>6. FieldBuffer(es, s, n, X, Y, c, 0)
    BY <1>2, <1>3, <1>9, <1>10, <1>14, <1>15, <2>1, <2>2, <2>3, <2>4, <2>5 DEF FieldBuffer
  <2> QED BY <1>16, <2>6
<1>18. CASE ~same
  <2>1. \A i \in 1..n : /\ Parity(Y[i], s) /\ ~Parity(X[i], s)
                        /\ SameParity(Y[i], s) /\ ~SameParity(X[i], s)
                        /\ Y[i].pic.frame_num = X[i].pic.frame_num
                        /\ c[i] # s.poc /\ FrameNumWrap(Y[i], s) \in Int
    <3> TAKE i \in 1..n
    <3>1. X[i].pic.frame_num = num(i) /\ Y[i].pic.frame_num = num(i)
      BY <1>8
    <3>2. c[i] # s.poc /\ FrameNumWrap(Y[i], s) \in Int
      BY <1>1, <1>9, <1>11
    <3>3. Parity(Y[i], s) /\ ~Parity(X[i], s) /\ SameParity(Y[i], s) /\ ~SameParity(X[i], s)
      BY <1>13, <1>18
    <3> QED BY <3>1, <3>2, <3>3
  <2>2. \A i \in 1..n : Y[i].pic.poc = c[i] + 1 /\ X[i].pic.poc = c[i] + 1 - 1
    <3> TAKE i \in 1..n
    <3>1. X[i].pic.poc = c[i] /\ Y[i].pic.poc = c[i] + 1 /\ c[i] \in Int
      BY <1>8, <1>9
    <3> QED BY <3>1
  <2>3. \A i, j \in 1..n : i # j => Y[i].pic.frame_num # Y[j].pic.frame_num
    <3> TAKE i, j \in 1..n
    <3>1. Y[i].pic.frame_num = num(i) /\ Y[j].pic.frame_num = num(j)
      BY <1>8
    <3> QED BY <1>1, <3>1
  <2>4. \A i, j \in 1..n : i < j => FrameNumWrap(Y[i], s) < FrameNumWrap(Y[j], s)
    <3> TAKE i, j \in 1..n
    <3>1. FrameNumWrap(Y[i], s) = wrap(i) /\ FrameNumWrap(Y[j], s) = wrap(j)
      BY <1>11
    <3> QED BY <1>1, <3>1
  <2>5. \A e \in es : \E i \in 1..n : e = Y[i] \/ e = X[i]
    BY <1>6
  <2>6. FieldBuffer(es, s, n, Y, X, c, 1)
    BY <1>2, <1>3, <1>9, <1>10, <1>14, <1>15, <2>1, <2>2, <2>3, <2>4, <2>5 DEF FieldBuffer
  <2> QED BY <1>16, <2>6
<1> QED BY <1>17, <1>18

(* The invariant holds of every list decode_slice begins with, unless a P  *)
(* slice meets pictures that were not decoded in output order.             *)
LEMMA Start ==
    ASSUME Avoids("p_after_reordering"), Init
    PROVE  IInv
<1>1. ASSUME FrameBuffer(entries, slice) \/ \E n, D, O, c, d :
               FieldBuffer(entries, slice, n, D, O, c, d),
             slice \in Slices, slice.kind = "P" => InOutputOrder(entries)
      PROVE  /\ Lists(InitialList(entries, slice), entries)
             /\ InitialList(entries, slice) = Swapped(entries, slice)
  BY <1>1, FrameLists, FieldLists
<1> DEFINE Begun(n, frame_num, active, kind, gap, rank) ==
        \/ \E refs \in References(n) :
              /\ entries = FramesOf(frame_num, gap, rank, refs)
              /\ slice = [kind |-> kind, poc |-> 2 * rank[n + 1], frame_num |-> frame_num,
                          structure |-> "Frame", num_active |-> active]
        \/ \E first, parity \in {"TopField", "BottomField"} :
              /\ entries = FieldsOf(frame_num, gap, rank, n, first)
              /\ slice = [kind |-> kind, poc |-> 2 * rank[n + 1], frame_num |-> frame_num,
                          structure |-> parity, num_active |-> active]
<1>2. PICK n \in 0..MaxRefs, frame_num \in 0..(MaxFrameNum - 1), active \in Actives,
           kind \in {"P", "B0", "B1"} :
        \E gap \in Increasing(n), rank \in Orders(n) :
          Begun(n, frame_num, active, kind, gap, rank)
  BY DEF Init
<1>13. PICK gap \in Increasing(n), rank \in Orders(n) :
         Begun(n, frame_num, active, kind, gap, rank)
  BY <1>2
<1>3. slice.kind = "P" => InOutputOrder(entries)
  BY DEF Init
<1>4. /\ n \in Nat /\ active \in Nat \ {0} /\ frame_num \in Nat /\ MaxFrameNum \in Nat
      /\ MaxCommands \in Nat
  BY RefListAssumption
<1>5. 2 * rank[n + 1] \in Int
  <2>1. n + 1 \in 1..n + 1
    BY <1>4
  <2> QED BY <2>1 DEF Orders
<1>6. /\ slice \in Slices /\ Current(slice, frame_num, rank, n)
      /\ slice.frame_num = frame_num /\ slice.num_active = active
  BY <1>13, <1>4, <1>5 DEF Slices, Structures, Current
<1>7. /\ Numbered(entries, slice)
      /\ \/ FrameBuffer(entries, slice)
         \/ \E D, O, c, d : FieldBuffer(entries, slice, n, D, O, c, d)
  <2>1. CASE \E refs \in References(n) :
                /\ entries = FramesOf(frame_num, gap, rank, refs)
                /\ slice.structure = "Frame"
    BY <1>4, <1>6, <2>1, OfFrames
  <2>2. CASE \E first \in {"TopField", "BottomField"} :
                /\ entries = FieldsOf(frame_num, gap, rank, n, first)
                /\ slice.structure \in {"TopField", "BottomField"}
    BY <1>3, <1>4, <1>6, <2>2, OfFields
  <2> QED BY <1>13, <2>1, <2>2
<1>8. /\ Lists(InitialList(entries, slice), entries)
      /\ InitialList(entries, slice) = Swapped(entries, slice)
  BY <1>1, <1>3, <1>4, <1>6, <1>7
<1>9. NoPicture \notin entries
  BY <1>7 DEF Numbered
<1>10. /\ list = Padded(InitialList(entries, slice), active)
       /\ standard = StandardList(entries, slice)
       /\ ref_idx_lx = 0 /\ pred_pic_num = CurrPicNum(slice) /\ number = CurrPicNum(slice)
  BY <1>6 DEF Init
<1>11. /\ Alike(entries, list, Len(list), standard, active, 0)
       /\ entries # {} => Len(list) >= active
  BY <1>4, <1>6, <1>8, <1>9, <1>10, Beginning
<1>12. CurrPicNum(slice) \in 0..MaxPicNum(slice) - 1
  BY <1>4, <1>6 DEF CurrPicNum, MaxPicNum
<1> QED BY <1>4, <1>6, <1>7, <1>10, <1>11, <1>12 DEF IInv

-----------------------------------------------------------------------------
(* The theorems.                                                           *)

(* The invariant gives both properties.                                    *)
LEMMA Consequences ==
    ASSUME IInv
    PROVE  TypeOK /\ ListFollowsStandard
<1>1. TypeOK
  BY DEF IInv, Alike, TypeOK
<1>2. ListFollowsStandard
  <2>1. standard \in Seq(entries \cup {NoPicture}) /\ Len(standard) = slice.num_active
        /\ \A i \in 1..slice.num_active : standard[i] # NoPicture => list[i] = standard[i]
    BY DEF IInv, Alike
  <2>2. DOMAIN standard = 1..slice.num_active
    BY <2>1
  <2> QED BY <2>1, <2>2 DEF ListFollowsStandard
<1> QED BY <1>1, <1>2

(* Whatever frames or field pairs the buffer holds, and however many       *)
(* commands the slice header has: every place of the list (dpb.rs:122-412, *)
(* decode_slice) for which the standard names a picture has that picture.  *)
(* The code goes wrong in the three situations that are kept out, see      *)
(* Avoids.                                                                 *)
THEOREM ListsCorrect ==
    ASSUME Avoids("p_after_reordering"), Avoids("long_term_command"), Avoids("pushed_out")
    PROVE  Spec => []ListFollowsStandard
<1>1. Init => IInv
  BY Start
<1>2. IInv /\ [Next]_vars => IInv'
  BY Step
<1>3. IInv => ListFollowsStandard
  BY Consequences
<1> QED BY <1>1, <1>2, <1>3, PTL DEF Spec

(* On the same streams the list holds references only, and whenever there  *)
(* is one, a ref_idx below num_ref_idx_active finds a picture: filling up  *)
(* (decoder.rs:547-553) and truncating (dpb.rs:407) keep the length.       *)
THEOREM TypeCorrect ==
    ASSUME Avoids("p_after_reordering"), Avoids("long_term_command"), Avoids("pushed_out")
    PROVE  Spec => []TypeOK
<1>1. Init => IInv
  BY Start
<1>2. IInv /\ [Next]_vars => IInv'
  BY Step
<1>3. IInv => TypeOK
  BY Consequences
<1> QED BY <1>1, <1>2, <1>3, PTL DEF Spec
=============================================================================

---------------------------- MODULE SearchProofs ----------------------------
(***************************************************************************)
(* Proofs about the searches of a field's evidence (module Retrieval), for  *)
(* every text, every table of chunks, every list of keywords, every order   *)
(* and all limits.                                                          *)
(*                                                                         *)
(* A search sorts, cuts and mixes hits.  What it returns follows from where *)
(* each hit comes from: sorting rearranges places, cutting keeps some of    *)
(* them, the round robin takes from each group its first, its second, its   *)
(* third hit, and no step has a place twice.  So hits that differ in their  *)
(* groups differ in the result, and each group keeps one as long as there   *)
(* is room for so many.  The search by vectors keeps the best because each  *)
(* of its steps leaves out only what is not better than what stays.         *)
(***************************************************************************)
EXTENDS IndexingProofs

-----------------------------------------------------------------------------
(* Sorting *)

(* The numbers 1..n in another order. *)
Permutes(p, n) ==
  /\ p \in [1..n -> 1..n]
  /\ \A i \in 1..n : \E m \in 1..n : p[m] = i
  /\ \A a, b \in 1..n : a # b => p[a] # p[b]

(* A strict order of 1..n. *)
StrictOrder(R, n) ==
  /\ \A i \in 1..n : <<i, i>> \notin R
  /\ \A i, j, k \in 1..n : <<i, j>> \in R /\ <<j, k>> \in R => <<i, k>> \in R
  /\ \A i, j \in 1..n : i # j => <<i, j>> \in R \/ <<j, i>> \in R

(* Where an element stands is how many stand before it. *)
LEMMA RanksOnto ==
  ASSUME NEW n \in Nat, NEW R, StrictOrder(R, n)
  PROVE  LET p == [m \in 1..n |-> CHOOSE i \in 1..n : Cardinality({j \in 1..n : <<j, i>> \in R}) = m - 1]
         IN Permutes(p, n) /\ \A a, b \in 1..n : a < b => <<p[a], p[b]>> \in R
<1> DEFINE S == 1..n
           Ahead(x) == {y \in S : <<y, x>> \in R}
           rank == [x \in S |-> Cardinality(Ahead(x))]
           holder(m) == CHOOSE i \in 1..n : Cardinality(Ahead(i)) = m - 1
           p == [m \in 1..n |-> holder(m)]
<1>1. IsFiniteSet(S) /\ Cardinality(S) = n  BY FS_Interval
<1>2. IsFiniteSet(0..n - 1) /\ Cardinality(0..n - 1) = n
  <2>1. n - 1 \in Int  OBVIOUS
  <2>2. IsFiniteSet(0..n - 1) /\ Cardinality(0..n - 1) = IF 0 > n - 1 THEN 0 ELSE (n - 1) - 0 + 1
    BY <2>1, FS_Interval
  <2> QED  BY <2>2
<1>3. \A x \in S : IsFiniteSet(Ahead(x)) /\ Cardinality(Ahead(x)) \in 0..n - 1
  <2> TAKE x \in S
  <2>1. IsFiniteSet(S \ {x}) /\ Cardinality(S \ {x}) = n - 1  BY <1>1, FS_RemoveElement
  <2>2. Ahead(x) \in SUBSET (S \ {x})  BY DEF StrictOrder
  <2>3. IsFiniteSet(Ahead(x)) /\ Cardinality(Ahead(x)) <= n - 1
    BY <2>1, <2>2, FS_Subset, ZenonT(60)
  <2>4. Cardinality(Ahead(x)) \in Nat  BY <2>3, FS_CardinalityType
  <2> QED  BY <2>3, <2>4
<1>4. \A x, y \in S : <<x, y>> \in R => Cardinality(Ahead(x)) < Cardinality(Ahead(y))
  <2> SUFFICES ASSUME NEW x \in S, NEW y \in S, <<x, y>> \in R
      PROVE  Cardinality(Ahead(x)) < Cardinality(Ahead(y))
    OBVIOUS
  <2>1. Ahead(x) \in SUBSET Ahead(y) /\ x \in Ahead(y) /\ x \notin Ahead(x)
    BY DEF StrictOrder
  <2> HIDE DEF Ahead
  <2>2. Ahead(x) # Ahead(y)  BY <2>1
  <2>3. Cardinality(Ahead(x)) <= Cardinality(Ahead(y))  BY <1>3, <2>1, FS_Subset
  <2>4. Cardinality(Ahead(x)) # Cardinality(Ahead(y))  BY <1>3, <2>1, <2>2, FS_Subset
  <2> QED  BY <1>3, <2>3, <2>4
<1>5. \A x, y \in S : Cardinality(Ahead(x)) = Cardinality(Ahead(y)) => x = y
  <2> SUFFICES ASSUME NEW x \in S, NEW y \in S, Cardinality(Ahead(x)) = Cardinality(Ahead(y)), x # y
      PROVE  FALSE
    OBVIOUS
  <2>1. <<x, y>> \in R \/ <<y, x>> \in R  BY DEF StrictOrder
  <2>2. Cardinality(Ahead(x)) \in Int  BY <1>3
  <2> HIDE DEF Ahead
  <2> QED  BY <1>4, <2>1, <2>2
<1>6. rank \in Injection(S, 0..n - 1)
  <2>1. rank \in [S -> 0..n - 1]  BY <1>3
  <2>2. \A x, y \in S : rank[x] = rank[y] => x = y  BY <1>5
  <2> HIDE DEF rank
  <2> QED  BY <2>1, <2>2 DEF Injection, IsInjective
<1>7. rank \in Surjection(S, 0..n - 1)
  BY <1>1, <1>2, <1>6, FS_Injection
<1>8. \A m \in 1..n : \E x \in S : Cardinality(Ahead(x)) = m - 1
  <2> TAKE m \in 1..n
  <2>1. m - 1 \in 0..n - 1  OBVIOUS
  <2>2. PICK x \in S : rank[x] = m - 1  BY <1>7, <2>1 DEF Surjection
  <2> QED  BY <2>2
<1>9. \A m \in 1..n : p[m] \in S /\ Cardinality(Ahead(p[m])) = m - 1
  <2> TAKE m \in 1..n
  <2>1. p[m] = CHOOSE x \in S : Cardinality(Ahead(x)) = m - 1  OBVIOUS
  <2> HIDE DEF p
  <2> QED  BY <1>8, <2>1
<1>10. p \in [1..n -> 1..n]
  <2>1. \A m \in 1..n : holder(m) \in 1..n  BY <1>9
  <2> HIDE DEF holder
  <2> QED  BY <2>1
<1> HIDE DEF p, rank, Ahead
<1>11. \A x \in 1..n : \E m \in 1..n : p[m] = x
  <2> TAKE x \in 1..n
  <2>1. Cardinality(Ahead(x)) \in 0..n - 1  BY <1>3
  <2>2. Cardinality(Ahead(x)) + 1 \in 1..n
        /\ (Cardinality(Ahead(x)) + 1) - 1 = Cardinality(Ahead(x))  BY <2>1
  <2>3. p[Cardinality(Ahead(x)) + 1] = x  BY <1>5, <1>9, <2>2
  <2> QED  BY <2>2, <2>3
<1>12. ASSUME NEW a \in 1..n, NEW b \in 1..n, a < b PROVE p[a] # p[b] /\ <<p[a], p[b]>> \in R
  <2>1. /\ p[a] \in S /\ p[b] \in S
        /\ Cardinality(Ahead(p[a])) = a - 1 /\ Cardinality(Ahead(p[b])) = b - 1
    BY <1>9
  <2>2. a - 1 # b - 1 /\ ~(b - 1 < a - 1)  BY <1>12
  <2>3. p[a] # p[b]  BY <2>1, <2>2
  <2>4. ~(<<p[b], p[a]>> \in R)  BY <1>4, <2>1, <2>2
  <2> QED  BY <2>1, <2>3, <2>4 DEF StrictOrder
<1>13. \A a, b \in 1..n : a # b => p[a] # p[b]
  <2> TAKE a, b \in 1..n
  <2>1. a = b \/ a < b \/ b < a  OBVIOUS
  <2> QED  BY <1>12, <2>1
<1>14. Permutes(p, n)  BY <1>10, <1>11, <1>13 DEF Permutes
<1> QED  BY <1>12, <1>14 DEF p, Ahead

-----------------------------------------------------------------------------
(* Sorting by two keys, the second where the first is the same, and equal   *)
(* elements as they stood.                                                  *)
Sooner(a, b, i, j) == a[i] < a[j] \/ (a[i] = a[j] /\ b[i] < b[j])
Before2(a, b, i, j) == Sooner(a, b, i, j) \/ (~Sooner(a, b, j, i) /\ i < j)

SortedBy(t, s, n, a, b) ==
  t = [m \in 1..n |-> s[CHOOSE i \in 1..n : Cardinality({j \in 1..n : Before2(a, b, j, i)}) = m - 1]]
Rearranged(t, s, n, a, b, p) ==
  /\ Permutes(p, n) /\ t = [m \in 1..n |-> s[p[m]]]
  /\ \A x, y \in 1..n : x < y => ~Sooner(a, b, p[y], p[x])

(* Such a sort rearranges, and no element is behind one it belongs before.  *)
LEMMA Sorting ==
  ASSUME NEW n \in Nat, NEW a \in [1..n -> Int], NEW b \in [1..n -> Int],
         NEW s, DOMAIN s = 1..n, NEW t, SortedBy(t, s, n, a, b)
  PROVE  \E p : Rearranged(t, s, n, a, b, p)
<1> DEFINE R == {r \in (1..n) \X (1..n) : Before2(a, b, r[1], r[2])}
           p == [m \in 1..n |-> CHOOSE i \in 1..n : Cardinality({j \in 1..n : <<j, i>> \in R}) = m - 1]
<1>1. \A i \in 1..n : a[i] \in Int /\ b[i] \in Int  OBVIOUS
<1>2. \A i, j \in 1..n : <<i, j>> \in R <=> Before2(a, b, i, j)  OBVIOUS
<1> HIDE DEF R
<1>3. StrictOrder(R, n)
  <2>1. \A i \in 1..n : ~Before2(a, b, i, i)  BY <1>1 DEF Before2, Sooner
  <2>2. ASSUME NEW i \in 1..n, NEW j \in 1..n, NEW k \in 1..n,
               Before2(a, b, i, j), Before2(a, b, j, k)
        PROVE  Before2(a, b, i, k)
    <3>1. a[i] \in Int /\ b[i] \in Int /\ a[j] \in Int /\ b[j] \in Int /\ a[k] \in Int /\ b[k] \in Int
      BY <1>1
    <3> QED  BY <2>2, <3>1 DEF Before2, Sooner
  <2>3. ASSUME NEW i \in 1..n, NEW j \in 1..n, i # j
        PROVE  Before2(a, b, i, j) \/ Before2(a, b, j, i)
    <3>1. a[i] \in Int /\ b[i] \in Int /\ a[j] \in Int /\ b[j] \in Int /\ (i < j \/ j < i)
      BY <1>1, <2>3
    <3> QED  BY <3>1 DEF Before2, Sooner
  <2> QED  BY <1>2, <2>1, <2>2, <2>3 DEF StrictOrder
<1>4. Permutes(p, n) /\ \A x, y \in 1..n : x < y => <<p[x], p[y]>> \in R  BY <1>3, RanksOnto
<1>5. \A i \in 1..n : {j \in 1..n : <<j, i>> \in R} = {j \in 1..n : Before2(a, b, j, i)}  BY <1>2
<1>6. \A m \in 1..n : p[m] = CHOOSE i \in 1..n :
                               Cardinality({j \in 1..n : Before2(a, b, j, i)}) = m - 1
  <2> DEFINE C(i) == Cardinality({j \in 1..n : <<j, i>> \in R})
             D(i) == Cardinality({j \in 1..n : Before2(a, b, j, i)})
  <2>1. \A i \in 1..n : C(i) = D(i)  BY <1>5
  <2>2. \A m \in 1..n : p[m] = CHOOSE i \in 1..n : C(i) = m - 1  OBVIOUS
  <2> HIDE DEF C, D, p
  <2>3. \A m \in 1..n : (CHOOSE i \in 1..n : C(i) = m - 1) = CHOOSE i \in 1..n : D(i) = m - 1
    BY <2>1
  <2> QED  BY <2>2, <2>3 DEF D
<1>7. t = [m \in 1..n |-> s[p[m]]]
  <2> DEFINE holder(m) == CHOOSE i \in 1..n :
                            Cardinality({j \in 1..n : Before2(a, b, j, i)}) = m - 1
  <2>1. t = [m \in 1..n |-> s[holder(m)]]  BY DEF SortedBy
  <2>2. \A m \in 1..n : p[m] = holder(m)  BY <1>6
  <2> HIDE DEF p, holder
  <2> QED  BY <2>1, <2>2
<1> HIDE DEF p
<1>8. \A x, y \in 1..n : x < y => ~Sooner(a, b, p[y], p[x])
  <2> SUFFICES ASSUME NEW x \in 1..n, NEW y \in 1..n, x < y PROVE ~Sooner(a, b, p[y], p[x])
    OBVIOUS
  <2>1. p[x] \in 1..n /\ p[y] \in 1..n  BY <1>4 DEF Permutes
  <2>2. Before2(a, b, p[x], p[y])  BY <1>2, <1>4, <2>1
  <2>3. a[p[x]] \in Int /\ b[p[x]] \in Int /\ a[p[y]] \in Int /\ b[p[y]] \in Int  BY <1>1, <2>1
  <2> QED  BY <2>2, <2>3 DEF Before2, Sooner
<1> QED  BY <1>4, <1>7, <1>8 DEF Rearranged

-----------------------------------------------------------------------------
(* The chosen elements are in order, and they are all that were chosen. *)
Ascends(e, m, K) ==
  /\ m \in Nat /\ e \in [1..m -> K] /\ K \subseteq Nat
  /\ \A i, j \in 1..m : i < j => e[i] < e[j]
  /\ \A x \in K : \E j \in 1..m : e[j] = x

PickedBy(t, s, K, e) ==
  Ascends(e, Cardinality(K), K) /\ t = [j \in 1..Cardinality(K) |-> s[e[j]]]

(* Picked returns the elements at the places of K, in their order.          *)
LEMMA PickedAre ==
  ASSUME NEW n \in Nat, NEW s, DOMAIN s = 1..n, NEW K \in SUBSET (1..n)
  PROVE  \E e : PickedBy(Picked(s, K), s, K, e)
<1> DEFINE e == Ordered(K)
           m == Cardinality(K)
<1>1. IsFiniteSet(1..n)  BY FS_Interval
<1>2. IsFiniteSet(K)  BY <1>1, FS_Subset
<1>3. m \in Nat  BY <1>2, FS_CardinalityType
<1>4. K \in SUBSET Int /\ K \subseteq Nat  OBVIOUS
<1>5. /\ e \in Seq(K) /\ Len(e) = m
      /\ \A x \in K : \E j \in 1..Len(e) : e[j] = x
      /\ \A i, j \in 1..Len(e) : i < j => e[i] < e[j]
  BY <1>2, <1>4, OrderedOnto
<1>6. DOMAIN e = 1..m  BY <1>3, <1>5
<1>7. Picked(s, K) = [j \in 1..m |-> s[e[j]]]  BY <1>6 DEF Picked
<1> HIDE DEF e, m
<1>8. e \in [1..m -> K]  BY <1>3, <1>5, <1>6
<1>9. Ascends(e, m, K)  BY <1>3, <1>4, <1>5, <1>8 DEF Ascends
<1> QED  BY <1>7, <1>9 DEF m, PickedBy

(* A prefix. *)
LEMMA PrefixHas ==
  ASSUME NEW X, NEW s \in Seq(X), NEW n \in Nat
  PROVE  /\ Prefix(s, n) \in Seq(X) /\ Len(Prefix(s, n)) = Smaller(n, Len(s))
         /\ Len(Prefix(s, n)) <= n /\ Len(Prefix(s, n)) <= Len(s)
         /\ \A i \in 1..Len(Prefix(s, n)) : Prefix(s, n)[i] = s[i]
<1> DEFINE k == Smaller(n, Len(s))
<1>1. k \in Nat /\ k <= Len(s) /\ k <= n /\ Len(s) \in Nat  BY DEF Smaller
<1>2. Prefix(s, n) = SubSeq(s, 1, k)  BY DEF Prefix
<1> HIDE DEF k
<1>3. Prefix(s, n) \in Seq(X) /\ Len(Prefix(s, n)) = k /\ \A i \in 1..k : Prefix(s, n)[i] = s[i]
  BY <1>1, <1>2
<1> QED  BY <1>1, <1>3 DEF k

(* A finite set of integers that is not empty has a greatest element.       *)
LEMMA GreatestOf ==
  ASSUME NEW S, S \subseteq Int, IsFiniteSet(S), S # {}
  PROVE  Most(S) \in S /\ \A x \in S : x <= Most(S)
<1>1. Ordered(S) \in Seq(S) /\ Len(Ordered(S)) = Cardinality(S)
      /\ (\A x \in S : \E j \in 1..Len(Ordered(S)) : Ordered(S)[j] = x)
      /\ \A i, j \in 1..Len(Ordered(S)) : i < j => Ordered(S)[i] < Ordered(S)[j]
  BY OrderedOnto
<1>2. Cardinality(S) \in Nat /\ Cardinality(S) > 0
  BY FS_CardinalityType, FS_EmptySet
<1> DEFINE m == Ordered(S)[Len(Ordered(S))]
<1>3. m \in S  BY <1>1, <1>2
<1>4. \A x \in S : x <= m
  <2> TAKE x \in S
  <2>1. PICK j \in 1..Len(Ordered(S)) : Ordered(S)[j] = x  BY <1>1
  <2>2. j = Len(Ordered(S)) \/ x < m  BY <1>1, <1>2, <2>1
  <2>3. x \in Int /\ m \in Int  BY <1>3
  <2> HIDE DEF m
  <2> QED  BY <2>1, <2>2, <2>3 DEF m
<1> HIDE DEF m
<1>5. \E x \in S : \A y \in S : x >= y
  <2>1. \A y \in S : m >= y  BY <1>3, <1>4
  <2> QED  BY <1>3, <2>1
<1>6. Most(S) \in S /\ \A y \in S : Most(S) >= y  BY <1>5 DEF Most
<1> QED  BY <1>6

(* And a least one.                                                         *)
LEMMA SmallestOf ==
  ASSUME NEW S, S \subseteq Int, IsFiniteSet(S), S # {}
  PROVE  Least(S) \in S /\ \A x \in S : Least(S) <= x
<1>1. Ordered(S) \in Seq(S) /\ Len(Ordered(S)) = Cardinality(S)
      /\ (\A x \in S : \E j \in 1..Len(Ordered(S)) : Ordered(S)[j] = x)
      /\ \A i, j \in 1..Len(Ordered(S)) : i < j => Ordered(S)[i] < Ordered(S)[j]
  BY OrderedOnto
<1>2. Cardinality(S) \in Nat /\ Cardinality(S) > 0
  BY FS_CardinalityType, FS_EmptySet
<1> DEFINE m == Ordered(S)[1]
<1>3. m \in S  BY <1>1, <1>2
<1>4. \A x \in S : m <= x
  <2> TAKE x \in S
  <2>1. PICK j \in 1..Len(Ordered(S)) : Ordered(S)[j] = x  BY <1>1
  <2>2. j = 1 \/ m < x  BY <1>1, <1>2, <2>1
  <2>3. x \in Int /\ m \in Int  BY <1>3
  <2> HIDE DEF m
  <2> QED  BY <2>1, <2>2, <2>3 DEF m
<1> HIDE DEF m
<1>5. \E x \in S : \A y \in S : x <= y  BY <1>3, <1>4
<1>6. Least(S) \in S /\ \A y \in S : Least(S) <= y  BY <1>5 DEF Least
<1> QED  BY <1>6

-----------------------------------------------------------------------------
(* Different elements of P, the best first, and none that is left out is    *)
(* better than one that is there.                                           *)
Topmost(s, best, P) ==
  /\ s \in Seq(P)
  /\ \A i, j \in 1..Len(s) : i < j => s[i] # s[j] /\ best[s[i]] >= best[s[j]]
  /\ \A p \in P : (\A i \in 1..Len(s) : s[i] # p) => \A i \in 1..Len(s) : best[p] <= best[s[i]]

(* Leaving out elements that are worse than all that stay keeps the best.   *)
LEMMA TopPicked ==
  ASSUME NEW P, NEW best \in [P -> Int], NEW s, Topmost(s, best, P), NEW K \in SUBSET (1..Len(s)),
         \A j \in K, i \in (1..Len(s)) \ K : best[s[i]] <= best[s[j]]
  PROVE  Topmost(Picked(s, K), best, P) /\ Len(Picked(s, K)) <= Len(s)
<1>1. s \in Seq(P) /\ Len(s) \in Nat /\ DOMAIN s = 1..Len(s)  BY DEF Topmost
<1> DEFINE m == Cardinality(K)
           t == Picked(s, K)
<1>2. PICK e : Ascends(e, m, K) /\ t = [j \in 1..m |-> s[e[j]]]
  <2>1. \E e : PickedBy(t, s, K, e)  BY <1>1, PickedAre
  <2> QED  BY <2>1 DEF PickedBy
<1>3. m <= Len(s)
  <2>1. 1 \in Int /\ Len(s) \in Int  BY <1>1
  <2>2. /\ IsFiniteSet(1..Len(s))
        /\ Cardinality(1..Len(s)) = IF 1 > Len(s) THEN 0 ELSE Len(s) - 1 + 1
    BY <2>1, FS_Interval
  <2>3. Cardinality(1..Len(s)) = Len(s)  BY <1>1, <2>2
  <2> QED  BY <2>2, <2>3, FS_Subset
<1> HIDE DEF m, t
<1>4. m \in Nat /\ \A j \in 1..m : e[j] \in K /\ e[j] \in 1..Len(s)  BY <1>2 DEF Ascends
<1>5. t \in Seq(P) /\ Len(t) = m /\ \A j \in 1..m : t[j] = s[e[j]]
  <2>1. \A j \in 1..m : s[e[j]] \in P  BY <1>1, <1>4
  <2> QED  BY <1>2, <1>4, <2>1
<1>6. \A i, j \in 1..m : i < j => t[i] # t[j] /\ best[t[i]] >= best[t[j]]
  <2>1. \A i, j \in 1..m : i < j => e[i] < e[j]  BY <1>2 DEF Ascends
  <2>2. \A i, j \in 1..Len(s) : i < j => s[i] # s[j] /\ best[s[i]] >= best[s[j]]  BY DEF Topmost
  <2> TAKE i, j \in 1..m
  <2> HAVE i < j
  <2>3. e[i] < e[j] /\ e[i] \in 1..Len(s) /\ e[j] \in 1..Len(s)  BY <1>4, <2>1
  <2> QED  BY <1>5, <2>2, <2>3
<1>7. ASSUME NEW p \in P, \A i \in 1..m : t[i] # p, NEW i \in 1..m
      PROVE  best[p] <= best[t[i]]
  <2>1. CASE \E x \in 1..Len(s) : s[x] = p
    <3>1. PICK x \in 1..Len(s) : s[x] = p  BY <2>1
    <3>2. x \notin K
      <4> SUFFICES ASSUME x \in K PROVE FALSE  OBVIOUS
      <4>1. PICK j \in 1..m : e[j] = x  BY <1>2 DEF Ascends
      <4> QED  BY <1>5, <1>7, <3>1, <4>1
    <3> QED  BY <1>4, <1>5, <3>1, <3>2
  <2>2. CASE ~\E x \in 1..Len(s) : s[x] = p
    <3>1. best[p] <= best[s[e[i]]]  BY <1>4, <2>2 DEF Topmost
    <3> QED  BY <1>5, <3>1
  <2> QED  BY <2>1, <2>2
<1>8. Topmost(t, best, P)  BY <1>5, <1>6, <1>7 DEF Topmost
<1> QED  BY <1>3, <1>5, <1>8 DEF t

(* So does cutting behind the first n.                                      *)
LEMMA TopPrefix ==
  ASSUME NEW P, NEW best \in [P -> Int], NEW s, Topmost(s, best, P), NEW n \in Nat
  PROVE  Topmost(Prefix(s, n), best, P) /\ Len(Prefix(s, n)) <= n
<1> DEFINE t == Prefix(s, n)
<1>1. s \in Seq(P) /\ Len(s) \in Nat  BY DEF Topmost
<1>2. /\ t \in Seq(P) /\ Len(t) <= n /\ Len(t) <= Len(s) /\ Len(t) \in Nat
      /\ \A i \in 1..Len(t) : t[i] = s[i]
  BY <1>1, PrefixHas
<1> HIDE DEF t
<1>3. \A i, j \in 1..Len(t) : i < j => t[i] # t[j] /\ best[t[i]] >= best[t[j]]
  <2> TAKE i, j \in 1..Len(t)
  <2> HAVE i < j
  <2>1. i \in 1..Len(s) /\ j \in 1..Len(s) /\ t[i] = s[i] /\ t[j] = s[j]  BY <1>1, <1>2
  <2>2. s[i] # s[j] /\ best[s[i]] >= best[s[j]]  BY <2>1 DEF Topmost
  <2> QED  BY <2>1, <2>2
<1>4. ASSUME NEW p \in P, \A i \in 1..Len(t) : t[i] # p, NEW i \in 1..Len(t)
      PROVE  best[p] <= best[t[i]]
  <2>1. i \in 1..Len(s) /\ t[i] = s[i] /\ s[i] \in P  BY <1>1, <1>2
  <2>2. CASE \E x \in 1..Len(s) : s[x] = p
    <3>1. PICK x \in 1..Len(s) : s[x] = p  BY <2>2
    <3>2. ~(x \in 1..Len(t))  BY <1>2, <1>4, <3>1
    <3>3. i < x  BY <1>1, <1>2, <2>1, <3>2
    <3>4. best[s[i]] >= best[s[x]]  BY <2>1, <3>3 DEF Topmost
    <3>5. best[s[i]] \in Int /\ best[s[x]] \in Int  BY <2>1, <3>1
    <3> QED  BY <2>1, <3>1, <3>4, <3>5
  <2>3. CASE ~\E x \in 1..Len(s) : s[x] = p
    BY <2>1, <2>3 DEF Topmost
  <2> QED  BY <2>2, <2>3
<1> QED  BY <1>2, <1>3, <1>4 DEF Topmost, t

(* The size of 1..n.                                                        *)
LEMMA IntervalSize ==
  ASSUME NEW n \in Nat
  PROVE  IsFiniteSet(1..n) /\ Cardinality(1..n) = n
<1>1. 1 \in Int /\ n \in Int  OBVIOUS
<1>2. IsFiniteSet(1..n) /\ Cardinality(1..n) = IF 1 > n THEN 0 ELSE n - 1 + 1
  BY <1>1, FS_Interval
<1> QED  BY <1>2

(* The parents of the rows, each with its best row and its first one.        *)
ParentsOf(listed) == {listed[i].parent : i \in DOMAIN listed}
BestOf(listed, score, p) == Most({score[i] : i \in {j \in DOMAIN listed : listed[j].parent = p}})
FirstPlace(listed, p) == Least({i \in DOMAIN listed : listed[i].parent = p})
InTurn(listed) ==
  LET parents == ParentsOf(listed)
  IN [j \in 1..Cardinality(parents) |->
        listed[Ordered({FirstPlace(listed, p) : p \in parents})[j]].parent]

(* They are finitely many, and both are found among the rows.               *)
LEMMA ParentsHave ==
  ASSUME NEW n \in Nat, NEW listed, DOMAIN listed = 1..n, NEW score \in [1..n -> Int]
  PROVE  /\ IsFiniteSet(ParentsOf(listed))
         /\ \A p \in ParentsOf(listed) :
              /\ BestOf(listed, score, p) \in Int
              /\ FirstPlace(listed, p) \in 1..n /\ listed[FirstPlace(listed, p)].parent = p
<1> DEFINE parents == ParentsOf(listed)
           f == [i \in 1..n |-> listed[i].parent]
<1>0. IsFiniteSet(1..n)  BY IntervalSize
<1>1. f \in Surjection(1..n, parents)  BY DEF Surjection, ParentsOf
<1>2. IsFiniteSet(parents)  BY <1>0, <1>1, FS_Surjection
<1>3. ASSUME NEW p \in parents
      PROVE  /\ BestOf(listed, score, p) \in Int
             /\ FirstPlace(listed, p) \in 1..n /\ listed[FirstPlace(listed, p)].parent = p
  <2> DEFINE mine == {j \in 1..n : listed[j].parent = p}
             marks == {score[i] : i \in mine}
             g == [i \in mine |-> score[i]]
  <2>1. mine # {}  BY DEF ParentsOf
  <2>2. mine \in SUBSET (1..n)  OBVIOUS
  <2>3. IsFiniteSet(mine)  BY <1>0, <2>2, FS_Subset
  <2>4. g \in Surjection(mine, marks)  BY DEF Surjection
  <2>5. IsFiniteSet(marks)  BY <2>3, <2>4, FS_Surjection
  <2>6. marks \subseteq Int /\ marks # {}  BY <2>1
  <2>7. Most(marks) \in marks  BY <2>5, <2>6, GreatestOf
  <2>8. BestOf(listed, score, p) = Most(marks)  BY DEF BestOf
  <2>9. mine \subseteq Int  OBVIOUS
  <2>10. Least(mine) \in mine  BY <2>1, <2>3, <2>9, SmallestOf
  <2>11. FirstPlace(listed, p) = Least(mine)  BY DEF FirstPlace
  <2> QED  BY <2>6, <2>7, <2>8, <2>10, <2>11
<1> QED  BY <1>2, <1>3

(* Each parent has its turn.                                                *)
LEMMA TurnsOnce ==
  ASSUME NEW n \in Nat, NEW listed, DOMAIN listed = 1..n, NEW score \in [1..n -> Int]
  PROVE  LET parents == ParentsOf(listed)
             k == Cardinality(parents)
         IN /\ k \in Nat /\ InTurn(listed) \in [1..k -> parents]
            /\ \A p \in parents : \E j \in 1..k : InTurn(listed)[j] = p
            /\ \A i, j \in 1..k : i < j => InTurn(listed)[i] # InTurn(listed)[j]
<1> DEFINE parents == ParentsOf(listed)
           k == Cardinality(parents)
           firsts == {FirstPlace(listed, p) : p \in parents}
           g == [p \in parents |-> FirstPlace(listed, p)]
           turn == Ordered(firsts)
<1>1. /\ IsFiniteSet(parents)
      /\ \A p \in parents : FirstPlace(listed, p) \in 1..n /\ listed[FirstPlace(listed, p)].parent = p
  BY ParentsHave
<1>2. k \in Nat  BY <1>1, FS_CardinalityType
<1>3. g \in Surjection(parents, firsts)  BY DEF Surjection
<1>4. g \in Injection(parents, firsts)
  <2>1. g \in [parents -> firsts]  BY DEF g
  <2>2. \A p, q \in parents : g[p] = g[q] => p = q  BY <1>1
  <2> HIDE DEF g, firsts
  <2> QED  BY <2>1, <2>2 DEF Injection, IsInjective
<1>5. IsFiniteSet(firsts) /\ Cardinality(firsts) = k  BY <1>1, <1>3, <1>4, FS_Surjection
<1>6. firsts \in SUBSET Int  BY <1>1
<1>7. /\ turn \in Seq(firsts) /\ Len(turn) = k
      /\ \A x \in firsts : \E j \in 1..Len(turn) : turn[j] = x
      /\ \A i, j \in 1..Len(turn) : i < j => turn[i] < turn[j]
  BY <1>5, <1>6, OrderedOnto
<1>8. InTurn(listed) = [j \in 1..k |-> listed[turn[j]].parent]  BY DEF InTurn
<1>9. \A x \in firsts : listed[x].parent \in parents /\ FirstPlace(listed, listed[x].parent) = x
  BY <1>1
<1>10. \A p \in parents : FirstPlace(listed, p) \in firsts  OBVIOUS
<1> HIDE DEF turn, firsts, g, k, parents
<1>11. \A j \in 1..k : turn[j] \in firsts  BY <1>7
<1>12. InTurn(listed) \in [1..k -> parents]  BY <1>8, <1>9, <1>11
<1>13. \A p \in parents : \E j \in 1..k : InTurn(listed)[j] = p
  <2> TAKE p \in parents
  <2>1. PICK j \in 1..k : turn[j] = FirstPlace(listed, p)  BY <1>7, <1>10
  <2> QED  BY <1>1, <1>8, <2>1
<1>14. \A i, j \in 1..k : i < j => InTurn(listed)[i] # InTurn(listed)[j]
  <2> TAKE i, j \in 1..k
  <2> HAVE i < j
  <2>1. turn[i] < turn[j] /\ turn[i] \in Int /\ turn[j] \in Int  BY <1>6, <1>7, <1>11
  <2>2. turn[i] # turn[j]  BY <2>1
  <2> QED  BY <1>8, <1>9, <1>11, <2>2
<1> QED  BY <1>2, <1>12, <1>13, <1>14 DEF parents, k

(* The best of them first.                                                  *)
RankedParents(listed, score) ==
  Arranged(InTurn(listed), LAMBDA p, q : BestOf(listed, score, p) > BestOf(listed, score, q))

(* Ranked, each parent is there once, the best first.                       *)
LEMMA ParentsRanked ==
  ASSUME NEW n \in Nat, NEW listed, DOMAIN listed = 1..n, NEW score \in [1..n -> Int],
         NEW best, best = [p \in ParentsOf(listed) |-> BestOf(listed, score, p)]
  PROVE  best \in [ParentsOf(listed) -> Int] /\ Topmost(RankedParents(listed, score), best, ParentsOf(listed))
<1> DEFINE parents == ParentsOf(listed)
           k == Cardinality(parents)
           s == InTurn(listed)
           t == RankedParents(listed, score)
           a == [i \in 1..k |-> -BestOf(listed, score, s[i])]
           b == [i \in 1..k |-> 0]
<1>1. \A p \in parents : BestOf(listed, score, p) \in Int  BY ParentsHave
<1>2. best \in [parents -> Int]  BY <1>1
<1>3. /\ k \in Nat /\ s \in [1..k -> parents]
      /\ \A p \in parents : \E j \in 1..k : s[j] = p
      /\ \A i, j \in 1..k : i < j => s[i] # s[j]
  BY TurnsOnce
<1> DEFINE C(i) == Cardinality({j \in 1..k :
                     \/ BestOf(listed, score, s[j]) > BestOf(listed, score, s[i])
                     \/ ~(BestOf(listed, score, s[i]) > BestOf(listed, score, s[j])) /\ j < i})
           D(i) == Cardinality({j \in 1..k : Before2(a, b, j, i)})
<1>4. t = [m \in 1..k |-> s[CHOOSE i \in 1..k : C(i) = m - 1]]
  <2>1. DOMAIN s = 1..k  BY <1>3
  <2> HIDE DEF s, k
  <2> QED  BY <2>1 DEF RankedParents, Arranged, s
<1>5. \A i \in 1..k : C(i) = D(i)
  <2> TAKE i \in 1..k
  <2>1. ASSUME NEW j \in 1..k
        PROVE  Before2(a, b, j, i) <=>
                 \/ BestOf(listed, score, s[j]) > BestOf(listed, score, s[i])
                 \/ ~(BestOf(listed, score, s[i]) > BestOf(listed, score, s[j])) /\ j < i
    <3>1. s[i] \in parents /\ s[j] \in parents  BY <1>3
    <3>2. BestOf(listed, score, s[i]) \in Int /\ BestOf(listed, score, s[j]) \in Int  BY <1>1, <3>1
    <3>3. /\ a[i] = -BestOf(listed, score, s[i]) /\ a[j] = -BestOf(listed, score, s[j])
          /\ b[i] = 0 /\ b[j] = 0
      OBVIOUS
    <3> HIDE DEF a, b, s, k
    <3> QED  BY <3>2, <3>3 DEF Before2, Sooner
  <2> HIDE DEF a, b, s, k
  <2> QED  BY <2>1
<1>6. a \in [1..k -> Int] /\ b \in [1..k -> Int]
  <2>1. \A i \in 1..k : -BestOf(listed, score, s[i]) \in Int  BY <1>1, <1>3
  <2> HIDE DEF s, k
  <2> QED  BY <2>1
<1>7. DOMAIN s = 1..k  BY <1>3
<1>8. SortedBy(t, s, k, a, b)
  <2> DEFINE one(m) == CHOOSE i \in 1..k : C(i) = m - 1
             other(m) == CHOOSE i \in 1..k : D(i) = m - 1
  <2>1. t = [m \in 1..k |-> s[one(m)]]  BY <1>4
  <2> HIDE DEF C, D
  <2>2. \A m \in 1..k : one(m) = other(m)  BY <1>5
  <2> HIDE DEF t, s, k, a, b, one, other
  <2>3. t = [m \in 1..k |-> s[other(m)]]  BY <2>1, <2>2
  <2> QED  BY <2>3 DEF SortedBy, other, D
<1> HIDE DEF C, D, t, s, k, a, b
<1>9. PICK p : Rearranged(t, s, k, a, b, p)
  <2>1. k \in Nat  BY <1>3
  <2> QED  BY <2>1, <1>6, <1>7, <1>8, Sorting
<1>10. /\ \A m \in 1..k : p[m] \in 1..k
       /\ \A i \in 1..k : \E m \in 1..k : p[m] = i
       /\ \A x, y \in 1..k : x # y => p[x] # p[y]
  BY <1>9 DEF Permutes, Rearranged
<1>11. t \in [1..k -> parents] /\ \A m \in 1..k : t[m] = s[p[m]]
  BY <1>3, <1>9, <1>10 DEF Rearranged
<1>12. t \in Seq(parents) /\ Len(t) = k  BY <1>3, <1>11
<1>13. ASSUME NEW x \in 1..k, NEW y \in 1..k, x < y
       PROVE  t[x] # t[y] /\ best[t[x]] >= best[t[y]]
  <2>1. p[x] \in 1..k /\ p[y] \in 1..k /\ p[x] # p[y]  BY <1>10, <1>13
  <2>2. p[x] < p[y] \/ p[y] < p[x]  BY <2>1, <1>3
  <2>3. s[p[x]] # s[p[y]]  BY <1>3, <2>1, <2>2
  <2>4. ~Sooner(a, b, p[y], p[x])  BY <1>9, <1>13 DEF Rearranged
  <2>5. /\ a[p[x]] = -BestOf(listed, score, t[x]) /\ a[p[y]] = -BestOf(listed, score, t[y])
    BY <1>11, <2>1 DEF a
  <2>6. t[x] \in parents /\ t[y] \in parents  BY <1>11
  <2>7. /\ best[t[x]] = BestOf(listed, score, t[x]) /\ best[t[y]] = BestOf(listed, score, t[y])
        /\ best[t[x]] \in Int /\ best[t[y]] \in Int
    BY <1>2, <2>6
  <2>8. ~(a[p[y]] < a[p[x]])  BY <2>4 DEF Sooner
  <2> QED  BY <1>11, <2>3, <2>5, <2>7, <2>8
<1>14. \A q \in parents : \E m \in 1..k : t[m] = q
  <2> TAKE q \in parents
  <2>1. PICK j \in 1..k : s[j] = q  BY <1>3
  <2>2. PICK m \in 1..k : p[m] = j  BY <1>10
  <2> QED  BY <1>11, <2>1, <2>2
<1>15. Topmost(t, best, parents)  BY <1>12, <1>13, <1>14 DEF Topmost
<1> QED  BY <1>2, <1>15 DEF t, parents

(* What select_parent_hits returns.                                         *)
LEMMA HitsAreBest ==
  ASSUME NEW n \in Nat, NEW listed, DOMAIN listed = 1..n, NEW score \in [1..n -> Int],
         NEW floor \in Int, NEW ratio \in Nat, NEW limit \in Nat,
         NEW best, best = [p \in ParentsOf(listed) |-> BestOf(listed, score, p)]
  PROVE  LET hits == ParentHits(listed, score, floor, ratio, limit)
         IN Topmost(hits, best, ParentsOf(listed)) /\ Len(hits) <= limit
<1> DEFINE P == ParentsOf(listed)
           Best(p) == BestOf(listed, score, p)
           ranked == RankedParents(listed, score)
           high == {j \in DOMAIN ranked : Best(ranked[j]) >= floor}
           above == Picked(ranked, high)
           close == {j \in DOMAIN above : 10 * Best(above[j]) >= ratio * Best(above[1])}
           near == Picked(above, close)
<1>1. ParentHits(listed, score, floor, ratio, limit) = Prefix(IF ratio > 0 THEN near ELSE above, limit)
  BY DEF ParentHits, RankedParents, BestOf, FirstPlace, ParentsOf, InTurn
<1>2. best \in [P -> Int] /\ Topmost(ranked, best, P)  BY ParentsRanked
<1>3. \A p \in P : Best(p) = best[p] /\ best[p] \in Int  BY <1>2
<1> HIDE DEF P, Best, ranked
<1>4. Topmost(above, best, P)
  <2>1. ranked \in Seq(P)  BY <1>2 DEF Topmost
  <2>2. high \in SUBSET (1..Len(ranked))  BY <2>1
  <2>3. \A j \in high, i \in (1..Len(ranked)) \ high : best[ranked[i]] <= best[ranked[j]]
    <3> TAKE j \in high, i \in (1..Len(ranked)) \ high
    <3>1. ranked[j] \in P /\ ranked[i] \in P  BY <2>1, <2>2
    <3>2. Best(ranked[j]) >= floor /\ ~(Best(ranked[i]) >= floor)  BY <2>1
    <3>3. /\ Best(ranked[j]) = best[ranked[j]] /\ best[ranked[j]] \in Int
          /\ Best(ranked[i]) = best[ranked[i]] /\ best[ranked[i]] \in Int
      BY <1>3, <3>1
    <3> QED  BY <3>2, <3>3
  <2> HIDE DEF high
  <2> QED  BY <1>2, <2>2, <2>3, TopPicked
<1> HIDE DEF above
<1>5. Topmost(near, best, P)
  <2>1. above \in Seq(P)  BY <1>4 DEF Topmost
  <2>2. close \in SUBSET (1..Len(above))  BY <2>1
  <2>3. \A j \in close, i \in (1..Len(above)) \ close : best[above[i]] <= best[above[j]]
    <3> TAKE j \in close, i \in (1..Len(above)) \ close
    <3>1. above[j] \in P /\ above[i] \in P /\ above[1] \in P  BY <2>1, <2>2
    <3>2. 10 * Best(above[j]) >= ratio * Best(above[1]) /\ ~(10 * Best(above[i]) >= ratio * Best(above[1]))
      BY <2>1
    <3>3. /\ Best(above[j]) = best[above[j]] /\ best[above[j]] \in Int
          /\ Best(above[i]) = best[above[i]] /\ best[above[i]] \in Int
          /\ Best(above[1]) \in Int
      BY <1>3, <3>1
    <3>4. ratio * Best(above[1]) \in Int  BY <3>3
    <3> QED  BY <3>2, <3>3, <3>4
  <2> HIDE DEF close
  <2> QED  BY <1>2, <1>4, <2>2, <2>3, TopPicked
<1> HIDE DEF near
<1>6. Topmost(IF ratio > 0 THEN near ELSE above, best, P)  BY <1>4, <1>5
<1> QED  BY <1>1, <1>2, <1>6, TopPrefix DEF P

(* Where each element of joined rows comes from: from the first i rows, no  *)
(* place twice and no place left out.                                       *)
Laid(flat, s, i, h) ==
  /\ h \in [1..Len(flat) -> [row : Nat, col : Nat]]
  /\ \A y \in 1..Len(flat) :
       /\ h[y].row \in 1..i /\ h[y].col \in 1..Len(s[h[y].row])
       /\ flat[y] = s[h[y].row][h[y].col]
  /\ \A y, z \in 1..Len(flat) : y # z => h[y] # h[z]
  /\ \A j \in 1..i : \A x \in 1..Len(s[j]) : \E y \in 1..Len(flat) : h[y].row = j /\ h[y].col = x
  /\ i > 0 => \A x \in 1..Len(s[1]) : x \in 1..Len(flat) /\ h[x].row = 1 /\ h[x].col = x

(* One more row is joined.                                                  *)
LEMMA LaidNext ==
  ASSUME NEW X, NEW s, NEW i \in Nat, NEW p \in Seq(X), NEW h, Laid(p, s, i, h), s[i + 1] \in Seq(X)
  PROVE  \E k : Laid(p \o s[i + 1], s, i + 1, k)
<1> DEFINE q == s[i + 1]
           r == p \o q
           m == Len(p)
           k == [y \in 1..Len(r) |-> IF y <= m THEN h[y] ELSE [row |-> i + 1, col |-> y - m]]
<1>1. /\ m \in Nat /\ Len(q) \in Nat /\ Len(r) = m + Len(q) /\ r \in Seq(X)
      /\ \A y \in 1..m : r[y] = p[y]
      /\ \A x \in 1..Len(q) : r[m + x] = q[x]
  OBVIOUS
<1> HIDE DEF q, r
<1>2. \A y \in 1..m : h[y] \in [row : Nat, col : Nat]  BY DEF Laid
<1>3. k \in [1..Len(r) -> [row : Nat, col : Nat]]
  <2>1. ASSUME NEW y \in 1..Len(r)
        PROVE  (IF y <= m THEN h[y] ELSE [row |-> i + 1, col |-> y - m]) \in [row : Nat, col : Nat]
    <3>1. CASE y <= m
      <4>1. y \in 1..m  BY <1>1, <3>1
      <4> QED  BY <1>2, <3>1, <4>1
    <3>2. CASE ~(y <= m)
      <4>1. i + 1 \in Nat /\ y - m \in Nat  BY <1>1, <3>2
      <4> QED  BY <3>2, <4>1
    <3> QED  BY <3>1, <3>2
  <2> QED  BY <2>1
<1>4. \A y \in 1..m : y \in 1..Len(r) /\ k[y] = h[y]  BY <1>1
<1>5. \A x \in 1..Len(q) : m + x \in 1..Len(r) /\ k[m + x].row = i + 1 /\ k[m + x].col = x
  BY <1>1
<1>6. \A y \in 1..Len(r) : y \in 1..m \/ \E x \in 1..Len(q) : y = m + x
  <2> TAKE y \in 1..Len(r)
  <2>1. y \in 1..m \/ (y - m \in 1..Len(q) /\ y = m + (y - m))  BY <1>1
  <2> QED  BY <2>1
<1> HIDE DEF k, m
<1>7. \A y \in 1..m : /\ h[y].row \in 1..i /\ h[y].col \in 1..Len(s[h[y].row])
                      /\ p[y] = s[h[y].row][h[y].col]
  BY DEF Laid, m
<1>8. ASSUME NEW y \in 1..Len(r)
      PROVE  /\ k[y].row \in 1..i + 1 /\ k[y].col \in 1..Len(s[k[y].row])
             /\ r[y] = s[k[y].row][k[y].col]
  <2>1. CASE y \in 1..m
    <3>1. h[y].row \in 1..i + 1  BY <1>7, <2>1
    <3>2. r[y] = p[y] /\ k[y] = h[y]  BY <1>1, <1>4, <2>1
    <3> QED  BY <1>7, <2>1, <3>1, <3>2
  <2>2. CASE \E x \in 1..Len(q) : y = m + x
    <3>1. PICK x \in 1..Len(q) : y = m + x  BY <2>2
    <3>2. k[y].row = i + 1 /\ k[y].col = x /\ r[y] = q[x]  BY <1>1, <1>5, <3>1
    <3>3. i + 1 \in 1..i + 1  OBVIOUS
    <3> QED  BY <3>2, <3>3 DEF q
  <2> QED  BY <1>6, <2>1, <2>2
<1>9. ASSUME NEW y \in 1..Len(r), NEW z \in 1..Len(r), y # z PROVE k[y] # k[z]
  <2>1. CASE y \in 1..m /\ z \in 1..m
    <3>1. h[y] # h[z]  BY <1>9, <2>1 DEF Laid, m
    <3> QED  BY <1>4, <2>1, <3>1
  <2>2. CASE y \in 1..m /\ z \notin 1..m
    <3>1. k[y].row \in 1..i  BY <1>4, <1>7, <2>2
    <3>2. k[z].row = i + 1  BY <1>5, <1>6, <2>2
    <3>3. i + 1 \notin 1..i  OBVIOUS
    <3> QED  BY <3>1, <3>2, <3>3
  <2>3. CASE y \notin 1..m /\ z \in 1..m
    <3>1. k[z].row \in 1..i  BY <1>4, <1>7, <2>3
    <3>2. k[y].row = i + 1  BY <1>5, <1>6, <2>3
    <3>3. i + 1 \notin 1..i  OBVIOUS
    <3> QED  BY <3>1, <3>2, <3>3
  <2>4. CASE y \notin 1..m /\ z \notin 1..m
    <3>1. PICK x \in 1..Len(q) : y = m + x  BY <1>6, <2>4
    <3>2. PICK w \in 1..Len(q) : z = m + w  BY <1>6, <2>4
    <3>3. x # w  BY <1>9, <3>1, <3>2
    <3>4. k[y].col = x /\ k[z].col = w  BY <1>5, <3>1, <3>2
    <3> QED  BY <3>3, <3>4
  <2> QED  BY <2>1, <2>2, <2>3, <2>4
<1>10. ASSUME NEW j \in 1..i + 1, NEW x \in 1..Len(s[j])
       PROVE  \E y \in 1..Len(r) : k[y].row = j /\ k[y].col = x
  <2>1. CASE j \in 1..i
    <3>1. PICK y \in 1..m : h[y].row = j /\ h[y].col = x  BY <2>1 DEF Laid, m
    <3> QED  BY <1>4, <3>1
  <2>2. CASE j = i + 1
    <3>1. x \in 1..Len(q)  BY <2>2 DEF q
    <3> QED  BY <1>5, <2>2, <3>1
  <2> QED  BY <2>1, <2>2
<1>11. ASSUME NEW x \in 1..Len(s[1])
       PROVE  x \in 1..Len(r) /\ k[x].row = 1 /\ k[x].col = x
  <2>1. CASE i > 0
    <3>1. x \in 1..m /\ h[x].row = 1 /\ h[x].col = x  BY <2>1 DEF Laid, m
    <3> QED  BY <1>4, <3>1
  <2>2. CASE i = 0
    <3>1. m = 0
      <4> SUFFICES ASSUME m # 0 PROVE FALSE  OBVIOUS
      <4>1. 1 \in 1..m  BY <1>1
      <4>2. h[1].row \in 1..0  BY <1>7, <2>2, <4>1
      <4> QED  BY <4>2
    <3>2. x \in 1..Len(q)  BY <2>2 DEF q
    <3>3. m + x = x  BY <1>1, <3>1, <3>2
    <3> QED  BY <1>5, <2>2, <3>2, <3>3
  <2> QED  BY <2>1, <2>2
<1>12. Laid(r, s, i + 1, k)  BY <1>3, <1>8, <1>9, <1>10, <1>11 DEF Laid
<1> QED  BY <1>12 DEF r, q

(* FlattenSeq lays out all rows.                                            *)
LEMMA FlattenPlaces ==
  ASSUME NEW X, NEW s \in Seq(Seq(X))
  PROVE  FlattenSeq(s) \in Seq(X) /\ \E h : Laid(FlattenSeq(s), s, Len(s), h)
<1> DEFINE n == Len(s)
           A == Seq(X)
<1>1. PICK g : /\ g[0] = <<>> /\ \A i \in 0..n : g[i] \in Seq(X)
               /\ \A i \in 1..n : g[i] = g[i - 1] \o s[i]
               /\ FlattenSeq(s) = g[n]
  BY FlattenPrefixes
<1>2. n \in Nat /\ \A i \in 1..n : s[i] \in A
  <2> HIDE DEF A
  <2>1. s \in Seq(A)  BY DEF A
  <2> QED  BY <2>1
<1> HIDE DEF n
<1> DEFINE T == {i \in 0..n : \E h : Laid(g[i], s, i, h)}
<1>3. 0 \in T
  <2> DEFINE h == [y \in 1..0 |-> [row |-> 0, col |-> 0]]
  <2>1. Len(g[0]) = 0 /\ 0 \in 0..n  BY <1>1, <1>2
  <2>2. Laid(g[0], s, 0, h)  BY <2>1 DEF Laid
  <2> QED  BY <2>1, <2>2
<1>4. ASSUME NEW i \in 0..n, i \in T, i < n PROVE i + 1 \in T
  <2>1. i + 1 \in 1..n /\ i + 1 \in 0..n /\ (i + 1) - 1 = i /\ i \in Nat  BY <1>2, <1>4
  <2>2. g[i] \in Seq(X) /\ s[i + 1] \in Seq(X) /\ g[i + 1] = g[i] \o s[i + 1]  BY <1>1, <1>2, <2>1
  <2>3. PICK h : Laid(g[i], s, i, h)  BY <1>4
  <2>4. \E k : Laid(g[i] \o s[i + 1], s, i + 1, k)  BY <2>1, <2>2, <2>3, LaidNext
  <2> QED  BY <2>1, <2>2, <2>4
<1>5. n \in T
  <2> HIDE DEF T
  <2>1. 0..n \subseteq T  BY <1>2, <1>3, <1>4, UpTo
  <2> QED  BY <1>2, <2>1
<1>6. n \in 0..n  BY <1>2
<1> QED  BY <1>1, <1>5, <1>6 DEF n

(* Where each hit comes from: a place in a group, no place twice.           *)
Taken(hits, groups, h) ==
  /\ h \in [1..Len(hits) -> [row : Nat, col : Nat]]
  /\ \A y \in 1..Len(hits) :
       /\ h[y].row \in 1..Len(groups) /\ h[y].col \in 1..Len(groups[h[y].row])
       /\ hits[y] = groups[h[y].row][h[y].col]
  /\ \A y, z \in 1..Len(hits) : y # z => h[y] # h[z]

(* Each group is there. *)
AllTaken(hits, groups, h) == \A g \in 1..Len(groups) : \E y \in 1..Len(hits) : h[y].row = g

(* The groups that reach a depth, and what they give there. *)
DeepGroups(groups, d) == {g \in DOMAIN groups : Len(groups[g]) >= d}
TurnOf(groups, d) ==
  LET deep == Picked(groups, DeepGroups(groups, d)) IN [j \in DOMAIN deep |-> deep[j][d]]

TurnIs(t, groups, d, at) ==
  /\ Len(t) = Len(at) /\ Len(at) \in Nat
  /\ \A j \in 1..Len(at) : /\ at[j] \in 1..Len(groups) /\ d \in 1..Len(groups[at[j]])
                           /\ t[j] = groups[at[j]][d]
  /\ \A i, j \in 1..Len(at) : i # j => at[i] # at[j]
  /\ \A g \in DeepGroups(groups, d) : \E j \in 1..Len(at) : at[j] = g

(* A turn of the round robin takes the d-th hit of each group that has one. *)
LEMMA TurnHas ==
  ASSUME NEW X, NEW groups \in Seq(Seq(X)), NEW d \in Nat \ {0}
  PROVE  /\ TurnOf(groups, d) \in Seq(X)
         /\ TurnIs(TurnOf(groups, d), groups, d, Ordered(DeepGroups(groups, d)))
<1> DEFINE K == DeepGroups(groups, d)
           at == Ordered(K)
           A == Seq(X)
           n == Len(groups)
<1>1. n \in Nat /\ DOMAIN groups = 1..n /\ \A g \in 1..n : groups[g] \in A
  <2> HIDE DEF A
  <2>1. groups \in Seq(A)  BY DEF A
  <2> QED  BY <2>1
<1>2. \A g \in 1..n : groups[g] \in Seq(X) /\ Len(groups[g]) \in Nat  BY <1>1
<1>3. K \in SUBSET (1..n) /\ \A g \in K : d \in 1..Len(groups[g])
  BY <1>1, <1>2 DEF DeepGroups
<1>4. IsFiniteSet(K)
  <2>1. IsFiniteSet(1..n)  BY <1>1, IntervalSize
  <2> QED  BY <1>3, <2>1, FS_Subset
<1>5. K \in SUBSET Int  BY <1>3
<1>6. /\ at \in Seq(K) /\ Len(at) = Cardinality(K)
      /\ \A x \in K : \E j \in 1..Len(at) : at[j] = x
      /\ \A i, j \in 1..Len(at) : i < j => at[i] < at[j]
  BY <1>4, <1>5, OrderedOnto
<1>7. TurnOf(groups, d) = [j \in DOMAIN at |-> groups[at[j]][d]]
  BY DEF TurnOf, Picked
<1> HIDE DEF at, K, n, A
<1>8. Len(at) \in Nat /\ DOMAIN at = 1..Len(at) /\ \A j \in 1..Len(at) : at[j] \in K
  BY <1>6
<1>9. \A j \in 1..Len(at) : at[j] \in 1..n /\ d \in 1..Len(groups[at[j]]) /\ groups[at[j]][d] \in X
  <2> TAKE j \in 1..Len(at)
  <2>1. at[j] \in 1..n /\ d \in 1..Len(groups[at[j]])  BY <1>3, <1>8
  <2>2. groups[at[j]] \in Seq(X)  BY <1>2, <2>1
  <2> QED  BY <2>1, <2>2
<1>10. /\ TurnOf(groups, d) \in Seq(X) /\ Len(TurnOf(groups, d)) = Len(at)
       /\ \A j \in 1..Len(at) : TurnOf(groups, d)[j] = groups[at[j]][d]
  BY <1>7, <1>8, <1>9
<1>11. \A i, j \in 1..Len(at) : i # j => at[i] # at[j]
  <2> TAKE i, j \in 1..Len(at)
  <2> HAVE i # j
  <2>1. i < j \/ j < i  BY <1>8
  <2>2. at[i] \in Int /\ at[j] \in Int  BY <1>5, <1>8
  <2> QED  BY <1>6, <2>1, <2>2
<1>12. \A j \in 1..Len(at) : at[j] \in 1..Len(groups)  BY <1>9 DEF n
<1> QED  BY <1>6, <1>8, <1>9, <1>10, <1>11, <1>12 DEF at, K, TurnIs

(* The round robin takes no hit twice, and one of each group if there is    *)
(* room for so many.                                                        *)
LEMMA RoundTaken ==
  ASSUME NEW X, NEW groups \in Seq(Seq(X)), \A g \in 1..Len(groups) : Len(groups[g]) > 0,
         NEW limit \in Nat
  PROVE  LET hits == RoundRobin(groups, limit)
         IN /\ hits \in Seq(X)
            /\ \E h : /\ Taken(hits, groups, h)
                      /\ limit = 0 \/ limit >= Len(groups) => AllTaken(hits, groups, h)
<1> DEFINE n == Len(groups)
           A == Seq(X)
           lens == {Len(groups[g]) : g \in DOMAIN groups}
           deepest == Most({0} \union lens)
           s == [d \in 1..deepest |-> TurnOf(groups, d)]
           all == FlattenSeq(s)
           hits == RoundRobin(groups, limit)
<1>1. n \in Nat /\ DOMAIN groups = 1..n /\ \A g \in 1..n : groups[g] \in A
  <2> HIDE DEF A
  <2>1. groups \in Seq(A)  BY DEF A
  <2> QED  BY <2>1
<1>2. \A g \in 1..n : groups[g] \in Seq(X) /\ Len(groups[g]) \in Nat  BY <1>1
<1>3. deepest \in Nat /\ \A g \in 1..n : Len(groups[g]) <= deepest
  <2> DEFINE f == [g \in 1..n |-> Len(groups[g])]
             S == {0} \union lens
  <2>1. IsFiniteSet(1..n)  BY <1>1, IntervalSize
  <2>2. f \in Surjection(1..n, lens)  BY <1>1 DEF Surjection
  <2>3. IsFiniteSet(lens)  BY <2>1, <2>2, FS_Surjection
  <2>4. IsFiniteSet(lens \union {0})  BY <2>3, FS_AddElement
  <2>5. S = lens \union {0}  OBVIOUS
  <2>6. S \subseteq Nat  BY <1>1, <1>2
  <2>7. 0 \in S /\ S \subseteq Int  BY <2>6
  <2>8. \A g \in 1..n : Len(groups[g]) \in S  BY <1>1
  <2>9. IsFiniteSet(S)  BY <2>4, <2>5
  <2> HIDE DEF S, f
  <2>10. Most(S) \in S /\ \A x \in S : x <= Most(S)  BY <2>7, <2>9, GreatestOf
  <2>11. deepest = Most(S)  BY DEF S
  <2> QED  BY <2>6, <2>8, <2>10, <2>11
<1>4. hits = IF limit = 0 THEN all ELSE Prefix(all, limit)
  BY DEF RoundRobin, TurnOf, DeepGroups
<1> HIDE DEF deepest, hits
<1>5. \A d \in 1..deepest : d \in Nat \ {0} /\ TurnOf(groups, d) \in A
  <2> TAKE d \in 1..deepest
  <2>1. d \in Nat \ {0}  BY <1>3
  <2> QED  BY <2>1, TurnHas
<1>6. s \in Seq(A) /\ Len(s) = deepest /\ \A d \in 1..deepest : s[d] = TurnOf(groups, d)
  <2> HIDE DEF A
  <2> QED  BY <1>3, <1>5
<1> HIDE DEF s, all
<1>7. all \in Seq(X) /\ \E k : Laid(all, s, deepest, k)
  BY <1>6, FlattenPlaces DEF all
<1>8. PICK k : Laid(all, s, deepest, k)  BY <1>7
<1> DEFINE Reached(d) == Ordered(DeepGroups(groups, d))
<1>9. \A d \in 1..deepest :
        /\ Len(s[d]) = Len(Reached(d)) /\ Len(Reached(d)) \in Nat
        /\ \A j \in 1..Len(Reached(d)) : /\ Reached(d)[j] \in 1..n /\ d \in 1..Len(groups[Reached(d)[j]])
                                    /\ s[d][j] = groups[Reached(d)[j]][d]
        /\ \A i, j \in 1..Len(Reached(d)) : i # j => Reached(d)[i] # Reached(d)[j]
        /\ \A g \in DeepGroups(groups, d) : \E j \in 1..Len(Reached(d)) : Reached(d)[j] = g
  <2> TAKE d \in 1..deepest
  <2>1. TurnIs(TurnOf(groups, d), groups, d, Reached(d))  BY <1>5, TurnHas
  <2>2. TurnIs(s[d], groups, d, Reached(d))  BY <1>6, <2>1
  <2> HIDE DEF Reached
  <2> QED  BY <2>2 DEF TurnIs
<1> HIDE DEF Reached, n
<1> DEFINE m == Len(hits)
           h == [y \in 1..m |-> [row |-> Reached(k[y].row)[k[y].col], col |-> k[y].row]]
<1>10. /\ hits \in Seq(X) /\ m \in Nat /\ m <= Len(all) /\ Len(all) \in Nat
       /\ limit = 0 => m = Len(all)
       /\ limit # 0 => m = Smaller(limit, Len(all))
       /\ \A y \in 1..m : hits[y] = all[y]
  <2>1. CASE limit = 0  BY <1>4, <1>7, <2>1
  <2>2. CASE limit # 0
    <3>1. hits = Prefix(all, limit)  BY <1>4, <2>2
    <3>2. all \in Seq(X)  BY <1>7
    <3> QED  BY <2>2, <3>1, <3>2, PrefixHas
  <2> QED  BY <2>1, <2>2
<1>11. \A y \in 1..m : y \in 1..Len(all)  BY <1>10
<1>12. ASSUME NEW y \in 1..m
       PROVE  /\ k[y] \in [row : Nat, col : Nat] /\ k[y].row \in 1..deepest
              /\ k[y].col \in 1..Len(Reached(k[y].row)) /\ hits[y] = s[k[y].row][k[y].col]
  <2>1. y \in 1..Len(all) /\ hits[y] = all[y]  BY <1>10, <1>11
  <2>2. /\ k[y] \in [row : Nat, col : Nat]
        /\ k[y].row \in 1..deepest /\ k[y].col \in 1..Len(s[k[y].row])
        /\ all[y] = s[k[y].row][k[y].col]
    BY <1>8, <2>1 DEF Laid
  <2>3. Len(s[k[y].row]) = Len(Reached(k[y].row))  BY <1>9, <2>2
  <2> QED  BY <2>1, <2>2, <2>3
<1>13. ASSUME NEW y \in 1..m
       PROVE  /\ h[y].row \in 1..n /\ h[y].col \in 1..Len(groups[h[y].row])
              /\ hits[y] = groups[h[y].row][h[y].col]
              /\ h[y] \in [row : Nat, col : Nat]
  <2>1. h[y].row = Reached(k[y].row)[k[y].col] /\ h[y].col = k[y].row  OBVIOUS
  <2>2. /\ Reached(k[y].row)[k[y].col] \in 1..n
        /\ k[y].row \in 1..Len(groups[Reached(k[y].row)[k[y].col]])
        /\ s[k[y].row][k[y].col] = groups[Reached(k[y].row)[k[y].col]][k[y].row]
    BY <1>9, <1>12
  <2>3. h[y] = [row |-> Reached(k[y].row)[k[y].col], col |-> k[y].row]  OBVIOUS
  <2>4. Reached(k[y].row)[k[y].col] \in Nat /\ k[y].row \in Nat  BY <1>1, <1>3, <1>12, <2>2
  <2> QED  BY <1>12, <2>1, <2>2, <2>3, <2>4
<1>14. ASSUME NEW y \in 1..m, NEW z \in 1..m, h[y] = h[z] PROVE y = z
  <2>1. k[y].row = k[z].row /\ Reached(k[y].row)[k[y].col] = Reached(k[z].row)[k[z].col]
    <3>1. h[y].row = h[z].row /\ h[y].col = h[z].col  BY <1>14
    <3> QED  BY <3>1
  <2>2. /\ k[y].row \in 1..deepest /\ k[y].col \in 1..Len(Reached(k[y].row))
        /\ k[z].col \in 1..Len(Reached(k[z].row))
    BY <1>12
  <2>3. k[y].col = k[z].col  BY <1>9, <2>1, <2>2, SMTT(40)
  <2>4. k[y] \in [row : Nat, col : Nat] /\ k[z] \in [row : Nat, col : Nat]  BY <1>12
  <2>5. k[y] = k[z]  BY <2>1, <2>3, <2>4, SMTT(40)
  <2>6. y \in 1..Len(all) /\ z \in 1..Len(all)  BY <1>11
  <2> QED  BY <1>8, <2>5, <2>6 DEF Laid
<1>15. h \in [1..m -> [row : Nat, col : Nat]]
  <2>1. \A y \in 1..m : [row |-> Reached(k[y].row)[k[y].col], col |-> k[y].row] \in [row : Nat, col : Nat]
    BY <1>13
  <2> QED  BY <2>1
<1>16. Taken(hits, groups, h)
  <2> HIDE DEF h
  <2> QED  BY <1>13, <1>14, <1>15 DEF Taken, n
<1>17. ASSUME limit = 0 \/ limit >= n, NEW g \in 1..n
       PROVE  \E y \in 1..m : h[y].row = g
  <2>1. 1 <= Len(groups[g]) /\ Len(groups[g]) <= deepest  BY <1>2, <1>3 DEF n
  <2>2. 1 \in 1..deepest /\ deepest > 0  BY <1>2, <1>3, <2>1
  <2>3. \A x \in 1..n : x \in DeepGroups(groups, 1)  BY <1>1, <1>2 DEF DeepGroups, n
  <2>4. PICK j \in 1..Len(Reached(1)) : Reached(1)[j] = g  BY <1>9, <2>2, <2>3
  <2>5. Len(s[1]) = Len(Reached(1)) /\ Len(Reached(1)) \in Nat  BY <1>9, <2>2
  <2>6. j \in 1..Len(all) /\ k[j].row = 1 /\ k[j].col = j  BY <1>8, <2>2, <2>4, <2>5 DEF Laid
  <2>7. Len(Reached(1)) <= n
    <3> DEFINE K == DeepGroups(groups, 1)
    <3>1. K \in SUBSET (1..n)  BY <1>1 DEF DeepGroups
    <3>2. IsFiniteSet(1..n) /\ Cardinality(1..n) = n  BY <1>1, IntervalSize
    <3>3. IsFiniteSet(K) /\ Cardinality(K) <= n  BY <3>1, <3>2, FS_Subset
    <3>4. K \in SUBSET Int  BY <3>1
    <3> HIDE DEF K
    <3>5. Len(Ordered(K)) = Cardinality(K)  BY <3>3, <3>4, OrderedOnto
    <3> QED  BY <3>3, <3>5 DEF K, Reached
  <2>8. j \in 1..m
    <3>1. j <= n /\ j <= Len(all) /\ j \in Nat /\ j >= 1  BY <1>1, <1>10, <2>4, <2>5, <2>6, <2>7
    <3> QED  BY <1>1, <1>10, <1>17, <3>1 DEF Smaller
  <2>9. h[j].row = Reached(k[j].row)[k[j].col]  BY <2>8
  <2> QED  BY <2>4, <2>6, <2>8, <2>9
<1>18. limit = 0 \/ limit >= Len(groups) => AllTaken(hits, groups, h)
  <2> HIDE DEF h
  <2> QED  BY <1>17 DEF AllTaken, n
<1> QED  BY <1>10, <1>16, <1>18 DEF hits

(* How rank_and_truncate puts the hits of a keyword in order.               *)
BetterHit(order, r, s) ==
  CASE order = "relevance" -> r.score > s.score \/ (r.score = s.score /\ r.pos < s.pos)
    [] order = "asc" -> r.pos < s.pos
    [] order = "desc" -> r.pos > s.pos
OrderedHits(group, order) == Arranged(group, LAMBDA r, s : BetterHit(order, r, s))

(* And the groups, by their first hits. *)
BetterGroup(order, g, h) ==
  IF order = "relevance" THEN g[1].score > h[1].score ELSE BetterHit(order, g[1], h[1])
OrderedGroups(groups, order) == Arranged(groups, LAMBDA g, h : BetterGroup(order, g, h))

Orders3 == {"relevance", "asc", "desc"}
Sortable(X) == \A x \in X : x.pos \in Int /\ x.score \in Int

Shuffled(t, s, n, p) == Permutes(p, n) /\ t = [m \in 1..n |-> s[p[m]]]

(* Sorting the hits of a keyword rearranges them.                           *)
LEMMA HitsOrdered ==
  ASSUME NEW X, Sortable(X), NEW s \in Seq(X), NEW order \in Orders3
  PROVE  \E p : Shuffled(OrderedHits(s, order), s, Len(s), p)
<1> DEFINE k == Len(s)
           t == OrderedHits(s, order)
           a == [i \in 1..k |-> IF order = "relevance" THEN -s[i].score
                                ELSE IF order = "asc" THEN s[i].pos ELSE -s[i].pos]
           b == [i \in 1..k |-> IF order = "relevance" THEN s[i].pos ELSE 0]
           C(i) == Cardinality({j \in 1..k :
                     \/ BetterHit(order, s[j], s[i])
                     \/ ~BetterHit(order, s[i], s[j]) /\ j < i})
           D(i) == Cardinality({j \in 1..k : Before2(a, b, j, i)})
           one(m) == CHOOSE i \in 1..k : C(i) = m - 1
           other(m) == CHOOSE i \in 1..k : D(i) = m - 1
<1>1. k \in Nat /\ DOMAIN s = 1..k /\ \A i \in 1..k : s[i].pos \in Int /\ s[i].score \in Int
  BY DEF Sortable
<1>2. t = [m \in 1..k |-> s[one(m)]]
  <2>1. DOMAIN s = 1..k  BY <1>1
  <2> HIDE DEF k
  <2> QED  BY <2>1 DEF OrderedHits, Arranged
<1>3. \A i \in 1..k : C(i) = D(i)
  <2> TAKE i \in 1..k
  <2>1. ASSUME NEW j \in 1..k
        PROVE  Before2(a, b, j, i) <=>
                 BetterHit(order, s[j], s[i]) \/ (~BetterHit(order, s[i], s[j]) /\ j < i)
    <3>1. /\ a[i] = IF order = "relevance" THEN -s[i].score
                    ELSE IF order = "asc" THEN s[i].pos ELSE -s[i].pos
          /\ a[j] = IF order = "relevance" THEN -s[j].score
                    ELSE IF order = "asc" THEN s[j].pos ELSE -s[j].pos
          /\ b[i] = (IF order = "relevance" THEN s[i].pos ELSE 0)
          /\ b[j] = (IF order = "relevance" THEN s[j].pos ELSE 0)
      OBVIOUS
    <3>2. /\ s[i].pos \in Int /\ s[i].score \in Int /\ s[j].pos \in Int /\ s[j].score \in Int
      BY <1>1
    <3> HIDE DEF a, b, k
    <3>3. CASE order = "relevance"  BY <3>1, <3>2, <3>3 DEF Before2, Sooner, BetterHit
    <3>4. CASE order = "asc"  BY <3>1, <3>2, <3>4 DEF Before2, Sooner, BetterHit
    <3>5. CASE order = "desc"  BY <3>1, <3>2, <3>5 DEF Before2, Sooner, BetterHit
    <3> QED  BY <3>3, <3>4, <3>5 DEF Orders3
  <2> HIDE DEF a, b, k
  <2> QED  BY <2>1
<1>4. a \in [1..k -> Int] /\ b \in [1..k -> Int]
  <2> HIDE DEF k
  <2> QED  BY <1>1
<1>5. SortedBy(t, s, k, a, b)
  <2> HIDE DEF C, D
  <2>1. \A m \in 1..k : one(m) = other(m)  BY <1>3
  <2> HIDE DEF t, k, a, b, one, other
  <2>2. t = [m \in 1..k |-> s[other(m)]]  BY <1>2, <2>1
  <2> QED  BY <2>2 DEF SortedBy, other, D
<1> HIDE DEF C, D, t, a, b, k
<1>6. \E p : Rearranged(t, s, k, a, b, p)
  <2>1. k \in Nat /\ DOMAIN s = 1..k  BY <1>1
  <2> QED  BY <2>1, <1>4, <1>5, Sorting
<1> QED  BY <1>6 DEF Rearranged, Shuffled, t, k

(* Sorting the groups rearranges them.                                      *)
LEMMA GroupsOrdered ==
  ASSUME NEW X, Sortable(X), NEW n \in Nat, NEW s, DOMAIN s = 1..n, NEW order \in Orders3,
         \A g \in 1..n : s[g][1] \in X
  PROVE  \E p : Shuffled(OrderedGroups(s, order), s, n, p)
<1> DEFINE t == OrderedGroups(s, order)
           a == [i \in 1..n |-> IF order = "relevance" THEN -s[i][1].score
                                ELSE IF order = "asc" THEN s[i][1].pos ELSE -s[i][1].pos]
           b == [i \in 1..n |-> 0]
           C(i) == Cardinality({j \in 1..n :
                     \/ BetterGroup(order, s[j], s[i])
                     \/ ~BetterGroup(order, s[i], s[j]) /\ j < i})
           D(i) == Cardinality({j \in 1..n : Before2(a, b, j, i)})
           one(m) == CHOOSE i \in 1..n : C(i) = m - 1
           other(m) == CHOOSE i \in 1..n : D(i) = m - 1
<1>1. \A i \in 1..n : s[i][1].pos \in Int /\ s[i][1].score \in Int
  BY DEF Sortable
<1>2. t = [m \in 1..n |-> s[one(m)]]
  BY DEF OrderedGroups, Arranged
<1>3. \A i \in 1..n : C(i) = D(i)
  <2> TAKE i \in 1..n
  <2>1. ASSUME NEW j \in 1..n
        PROVE  Before2(a, b, j, i) <=>
                 BetterGroup(order, s[j], s[i]) \/ (~BetterGroup(order, s[i], s[j]) /\ j < i)
    <3>1. /\ a[i] = IF order = "relevance" THEN -s[i][1].score
                    ELSE IF order = "asc" THEN s[i][1].pos ELSE -s[i][1].pos
          /\ a[j] = IF order = "relevance" THEN -s[j][1].score
                    ELSE IF order = "asc" THEN s[j][1].pos ELSE -s[j][1].pos
          /\ b[i] = 0 /\ b[j] = 0
      OBVIOUS
    <3>2. /\ s[i][1].pos \in Int /\ s[i][1].score \in Int /\ s[j][1].pos \in Int /\ s[j][1].score \in Int
      BY <1>1
    <3> HIDE DEF a, b
    <3>3. CASE order = "relevance"  BY <3>1, <3>2, <3>3 DEF Before2, Sooner, BetterHit, BetterGroup
    <3>4. CASE order = "asc"  BY <3>1, <3>2, <3>4 DEF Before2, Sooner, BetterHit, BetterGroup
    <3>5. CASE order = "desc"  BY <3>1, <3>2, <3>5 DEF Before2, Sooner, BetterHit, BetterGroup
    <3> QED  BY <3>3, <3>4, <3>5 DEF Orders3
  <2> HIDE DEF a, b
  <2> QED  BY <2>1
<1>4. a \in [1..n -> Int] /\ b \in [1..n -> Int]
  BY <1>1
<1>5. SortedBy(t, s, n, a, b)
  <2> HIDE DEF C, D
  <2>1. \A m \in 1..n : one(m) = other(m)  BY <1>3
  <2> HIDE DEF t, a, b, one, other
  <2>2. t = [m \in 1..n |-> s[other(m)]]  BY <1>2, <2>1
  <2> QED  BY <2>2 DEF SortedBy, other, D
<1> HIDE DEF C, D, t, a, b
<1>6. \E p : Rearranged(t, s, n, a, b, p)
  BY <1>4, <1>5, Sorting
<1> QED  BY <1>6 DEF Rearranged, Shuffled, t

(* A place is its row and its column.                                       *)
LEMMA SamePlace ==
  ASSUME NEW v \in [row : Nat, col : Nat], NEW w \in [row : Nat, col : Nat],
         v.row = w.row, v.col = w.col
  PROVE  v = w
OBVIOUS

(* Places in groups that were rearranged are places in the groups.          *)
Reshaped(mid, groups, to, in) ==
  /\ \A r \in 1..Len(mid) :
       /\ to[r] \in 1..Len(groups)
       /\ \A c \in 1..Len(mid[r]) : /\ in[r][c] \in 1..Len(groups[to[r]])
                                   /\ mid[r][c] = groups[to[r]][in[r][c]]
       /\ \A c, d \in 1..Len(mid[r]) : c # d => in[r][c] # in[r][d]
  /\ \A r, q \in 1..Len(mid) : r # q => to[r] # to[q]

Through(h, to, k, n) == \A y \in 1..n : k[y].row = to[h[y].row]

(* So hits of the rearranged groups are hits of the groups.                 *)
LEMMA TakenThrough ==
  ASSUME NEW X, NEW hits, NEW mid, NEW groups \in Seq(Seq(X)), NEW h, NEW to, NEW in,
         Taken(hits, mid, h), Reshaped(mid, groups, to, in)
  PROVE  \E k : Taken(hits, groups, k) /\ Through(h, to, k, Len(hits))
<1> DEFINE k == [y \in 1..Len(hits) |-> [row |-> to[h[y].row], col |-> in[h[y].row][h[y].col]]]
<1>1. ASSUME NEW y \in 1..Len(hits)
      PROVE  /\ h[y] \in [row : Nat, col : Nat]
             /\ h[y].row \in 1..Len(mid) /\ h[y].col \in 1..Len(mid[h[y].row])
             /\ hits[y] = mid[h[y].row][h[y].col]
  BY DEF Taken
<1>2. ASSUME NEW y \in 1..Len(hits)
      PROVE  /\ k[y].row = to[h[y].row] /\ k[y].col = in[h[y].row][h[y].col]
             /\ k[y].row \in 1..Len(groups) /\ k[y].col \in 1..Len(groups[k[y].row])
             /\ hits[y] = groups[k[y].row][k[y].col]
  <2>1. k[y].row = to[h[y].row] /\ k[y].col = in[h[y].row][h[y].col]  OBVIOUS
  <2>2. /\ to[h[y].row] \in 1..Len(groups)
        /\ in[h[y].row][h[y].col] \in 1..Len(groups[to[h[y].row]])
        /\ mid[h[y].row][h[y].col] = groups[to[h[y].row]][in[h[y].row][h[y].col]]
    BY <1>1 DEF Reshaped
  <2> HIDE DEF k
  <2> QED  BY <1>1, <2>1, <2>2
<1>3. k \in [1..Len(hits) -> [row : Nat, col : Nat]]
  <2>1. \A y \in 1..Len(hits) : [row |-> to[h[y].row], col |-> in[h[y].row][h[y].col]] \in [row : Nat, col : Nat]
    <3> TAKE y \in 1..Len(hits)
    <3>1. k[y].row \in 1..Len(groups) /\ k[y].col \in 1..Len(groups[k[y].row])  BY <1>2
    <3>2. groups[k[y].row] \in Seq(X)  BY <3>1
    <3>3. Len(groups) \in Nat /\ Len(groups[k[y].row]) \in Nat  BY <3>2
    <3>4. k[y].row \in Nat /\ k[y].col \in Nat  BY <3>1, <3>3
    <3> QED  BY <3>4, <1>2
  <2> QED  BY <2>1
<1> HIDE DEF k
<1>4. ASSUME NEW y \in 1..Len(hits), NEW z \in 1..Len(hits), k[y] = k[z] PROVE y = z
  <2>1. to[h[y].row] = to[h[z].row] /\ in[h[y].row][h[y].col] = in[h[z].row][h[z].col]
    BY <1>2, <1>4
  <2>2. h[y].row = h[z].row  BY <1>1, <2>1 DEF Reshaped
  <2>3. h[y].col = h[z].col
    <3> DEFINE r == h[y].row
               c == h[y].col
               d == h[z].col
    <3>1. r \in 1..Len(mid) /\ c \in 1..Len(mid[r]) /\ d \in 1..Len(mid[r])  BY <1>1, <2>2
    <3>2. in[r][c] = in[r][d]  BY <2>1, <2>2
    <3> HIDE DEF r, c, d
    <3>3. c = d  BY <3>1, <3>2 DEF Reshaped
    <3> QED  BY <3>3 DEF c, d
  <2>4. h[y] = h[z]
    <3>1. h[y] \in [row : Nat, col : Nat] /\ h[z] \in [row : Nat, col : Nat]  BY <1>1
    <3> QED  BY <2>2, <2>3, <3>1, SamePlace
  <2> QED  BY <2>4 DEF Taken
<1>5. Taken(hits, groups, k)  BY <1>2, <1>3, <1>4 DEF Taken
<1>6. Through(h, to, k, Len(hits))  BY <1>2 DEF Through
<1> QED  BY <1>5, <1>6

(* The best hits of a keyword.                                              *)
CutFrom(t, s, u) ==
  /\ \A c \in 1..Len(t) : u[c] \in 1..Len(s) /\ t[c] = s[u[c]]
  /\ \A c, d \in 1..Len(t) : c # d => u[c] # u[d]
IsCut(t, X, s, limit) ==
  t \in Seq(X) /\ (s # <<>> /\ limit > 0 => t # <<>>) /\ \E u : CutFrom(t, s, u)

(* What is kept of a keyword are hits of it, at least one if there is one.  *)
LEMMA GroupCut ==
  ASSUME NEW X, Sortable(X), NEW s \in Seq(X), NEW order \in Orders3, NEW limit \in Nat
  PROVE  IsCut(Prefix(OrderedHits(s, order), limit), X, s, limit)
<1> DEFINE k == Len(s)
           o == OrderedHits(s, order)
           t == Prefix(o, limit)
<1>1. PICK p : Permutes(p, k) /\ o = [m \in 1..k |-> s[p[m]]]
  <2>1. \E p : Shuffled(o, s, k, p)  BY HitsOrdered
  <2> QED  BY <2>1 DEF Shuffled
<1>2. k \in Nat /\ \A m \in 1..k : s[m] \in X  OBVIOUS
<1>3. (\A m \in 1..k : p[m] \in 1..k) /\ \A a, b \in 1..k : a # b => p[a] # p[b]
  BY <1>1 DEF Permutes
<1> HIDE DEF o
<1>4. o \in Seq(X) /\ Len(o) = k /\ \A m \in 1..k : o[m] = s[p[m]]
  <2>1. \A m \in 1..k : s[p[m]] \in X  BY <1>2, <1>3
  <2> HIDE DEF k
  <2> QED  BY <1>1, <1>2, <2>1
<1>5. /\ t \in Seq(X) /\ Len(t) = Smaller(limit, k) /\ Len(t) <= k /\ \A i \in 1..Len(t) : t[i] = o[i]
  BY <1>4, PrefixHas
<1> HIDE DEF t
<1>6. s # <<>> /\ limit > 0 => t # <<>>
  <2> HAVE s # <<>> /\ limit > 0
  <2>1. k > 0  OBVIOUS
  <2>2. Len(t) > 0  BY <1>2, <1>5, <2>1 DEF Smaller
  <2> QED  BY <2>2
<1>7. \A c \in 1..Len(t) : c \in 1..k  BY <1>2, <1>5
<1>8. CutFrom(t, s, p)
  <2>1. \A c \in 1..Len(t) : p[c] \in 1..k /\ t[c] = s[p[c]]  BY <1>3, <1>4, <1>5, <1>7
  <2>2. \A c, d \in 1..Len(t) : c # d => p[c] # p[d]  BY <1>3, <1>7
  <2> QED  BY <2>1, <2>2 DEF CutFrom, k
<1>9. IsCut(t, X, s, limit)  BY <1>5, <1>6, <1>8 DEF IsCut
<1> QED  BY <1>9 DEF t, o

(* Where the hits come from, and that each group has one if the limits      *)
(* leave room for one of each.                                              *)
EachTaken(hits, groups, maxResults, maxTotal, h) ==
  /\ Taken(hits, groups, h)
  /\ maxResults > 0 /\ (maxTotal = 0 \/ maxTotal >= Len(groups)) =>
       \A g \in 1..Len(groups) : groups[g] # <<>> => \E y \in 1..Len(hits) : h[y].row = g

(* What rank_and_truncate returns: hits of the groups, none twice; and as   *)
(* long as the limits leave room for one of each, each group has a hit.     *)
LEMMA RankedTaken ==
  ASSUME NEW X, Sortable(X), NEW groups \in Seq(Seq(X)), NEW order \in Orders3,
         NEW maxResults \in Nat, NEW maxTotal \in Nat
  PROVE  LET hits == Ranked(groups, order, maxResults, maxTotal)
         IN /\ hits \in Seq(X)
            /\ \E h : EachTaken(hits, groups, maxResults, maxTotal, h)
<1> DEFINE n == Len(groups)
           A == Seq(X)
           cut == [g \in DOMAIN groups |-> Prefix(OrderedHits(groups[g], order), maxResults)]
           K == {g \in DOMAIN cut : cut[g] # <<>>}
           kept == Picked(cut, K)
           sorted == OrderedGroups(kept, order)
           hits == Ranked(groups, order, maxResults, maxTotal)
<1>1. n \in Nat /\ DOMAIN groups = 1..n /\ \A g \in 1..n : groups[g] \in A
  <2> HIDE DEF A
  <2>1. groups \in Seq(A)  BY DEF A
  <2> QED  BY <2>1
<1>2. hits = RoundRobin(sorted, maxTotal)
  BY DEF Ranked, Shortened, OrderedGroups, OrderedHits, BetterHit, BetterGroup
<1> HIDE DEF hits
<1>3. \A g \in 1..n : /\ cut[g] \in A
                      /\ groups[g] # <<>> /\ maxResults > 0 => cut[g] # <<>>
                      /\ \E u : CutFrom(cut[g], groups[g], u)
  <2> TAKE g \in 1..n
  <2> DEFINE s == groups[g]
             t == Prefix(OrderedHits(s, order), maxResults)
  <2>1. s \in Seq(X)  BY <1>1
  <2> HIDE DEF s
  <2>2. IsCut(t, X, s, maxResults)  BY <2>1, GroupCut
  <2>3. cut[g] = t  BY <1>1 DEF s
  <2> HIDE DEF t, cut
  <2> QED  BY <2>2, <2>3 DEF s, IsCut
<1>4. DOMAIN cut = 1..n  BY <1>1
<1> DEFINE u == [g \in 1..n |-> CHOOSE v : CutFrom(cut[g], groups[g], v)]
<1>5. \A g \in 1..n : CutFrom(cut[g], groups[g], u[g])
  <2> TAKE g \in 1..n
  <2>1. \E v : CutFrom(cut[g], groups[g], v)  BY <1>3
  <2>2. u[g] = CHOOSE v : CutFrom(cut[g], groups[g], v)  OBVIOUS
  <2> HIDE DEF u
  <2> QED  BY <2>1, <2>2
<1> HIDE DEF u, cut
<1>6. K \in SUBSET (1..n)  BY <1>4
<1> DEFINE m == Cardinality(K)
<1>7. PICK e : Ascends(e, m, K) /\ kept = [j \in 1..m |-> cut[e[j]]]
  <2> HIDE DEF K
  <2>1. \E e : PickedBy(Picked(cut, K), cut, K, e)  BY <1>1, <1>4, <1>6, PickedAre
  <2> QED  BY <2>1 DEF PickedBy
<1>8. m <= n /\ m \in Nat
  <2>1. IsFiniteSet(1..n) /\ Cardinality(1..n) = n  BY <1>1, IntervalSize
  <2>2. m <= n  BY <1>6, <2>1, FS_Subset
  <2>3. m \in Nat  BY <1>7 DEF Ascends
  <2> QED  BY <2>2, <2>3
<1>9. \A j \in 1..m : /\ e[j] \in 1..n /\ kept[j] = cut[e[j]] /\ cut[e[j]] # <<>>
                      /\ kept[j] \in Seq(X) /\ Len(kept[j]) > 0
  <2> TAKE j \in 1..m
  <2>1. e[j] \in K  BY <1>7 DEF Ascends
  <2>2. e[j] \in 1..n /\ cut[e[j]] # <<>>  BY <1>6, <2>1
  <2>3. cut[e[j]] \in Seq(X)  BY <1>3, <2>2
  <2>4. Len(cut[e[j]]) > 0  BY <2>2, <2>3
  <2>5. kept[j] = cut[e[j]]  BY <1>7
  <2> QED  BY <2>2, <2>3, <2>4, <2>5
<1>10. DOMAIN kept = 1..m  BY <1>7
<1>11. /\ \A i, j \in 1..m : i # j => e[i] # e[j]
       /\ \A g \in K : \E j \in 1..m : e[j] = g
  <2>1. \A i, j \in 1..m : i < j => e[i] < e[j]  BY <1>7 DEF Ascends
  <2>2. \A i, j \in 1..m : i # j => e[i] # e[j]
    <3> TAKE i, j \in 1..m
    <3> HAVE i # j
    <3>1. e[i] \in 1..n /\ e[j] \in 1..n  BY <1>9
    <3>2. i < j \/ j < i  BY <1>8
    <3>3. e[i] < e[j] \/ e[j] < e[i]  BY <2>1, <3>2
    <3> QED  BY <1>1, <3>1, <3>3
  <2> QED  BY <2>2, <1>7 DEF Ascends
<1> HIDE DEF kept, K, m
<1>12. PICK q : Permutes(q, m) /\ sorted = [j \in 1..m |-> kept[q[j]]]
  <2>1. \A j \in 1..m : kept[j][1] \in X
    <3> TAKE j \in 1..m
    <3>1. kept[j] \in Seq(X) /\ Len(kept[j]) > 0  BY <1>9
    <3> QED  BY <3>1
  <2>2. \E q : Shuffled(sorted, kept, m, q)  BY <1>8, <1>10, <2>1, GroupsOrdered
  <2> QED  BY <2>2 DEF Shuffled
<1>13. /\ \A j \in 1..m : q[j] \in 1..m
       /\ \A i \in 1..m : \E j \in 1..m : q[j] = i
       /\ \A i, j \in 1..m : i # j => q[i] # q[j]
  BY <1>12 DEF Permutes
<1> HIDE DEF sorted
<1>14. \A j \in 1..m : sorted[j] = kept[q[j]] /\ sorted[j] \in A /\ Len(sorted[j]) > 0
  <2> TAKE j \in 1..m
  <2>1. sorted[j] = kept[q[j]] /\ q[j] \in 1..m  BY <1>12, <1>13
  <2> QED  BY <1>9, <2>1
<1>15. sorted \in Seq(Seq(X)) /\ Len(sorted) = m
  <2> HIDE DEF A
  <2>1. sorted = [j \in 1..m |-> kept[q[j]]] /\ \A j \in 1..m : kept[q[j]] \in A  BY <1>12, <1>14
  <2>2. sorted \in [1..m -> A]  BY <2>1
  <2>3. sorted \in Seq(A) /\ Len(sorted) = m  BY <1>8, <2>2
  <2> QED  BY <2>3 DEF A
<1>16. \A g \in 1..Len(sorted) : Len(sorted[g]) > 0  BY <1>14, <1>15
<1>17. /\ hits \in Seq(X)
       /\ \E h : /\ Taken(hits, sorted, h)
                 /\ maxTotal = 0 \/ maxTotal >= Len(sorted) => AllTaken(hits, sorted, h)
  BY <1>2, <1>15, <1>16, RoundTaken
<1>18. PICK h : /\ Taken(hits, sorted, h)
                /\ maxTotal = 0 \/ maxTotal >= m => AllTaken(hits, sorted, h)
  BY <1>15, <1>17
<1> DEFINE to == [r \in 1..m |-> e[q[r]]]
           in == [r \in 1..m |-> u[e[q[r]]]]
<1>19. ASSUME NEW r \in 1..m
       PROVE  /\ to[r] \in 1..n
              /\ \A c \in 1..Len(sorted[r]) : /\ in[r][c] \in 1..Len(groups[to[r]])
                                              /\ sorted[r][c] = groups[to[r]][in[r][c]]
              /\ \A c, d \in 1..Len(sorted[r]) : c # d => in[r][c] # in[r][d]
  <2>1. q[r] \in 1..m /\ to[r] = e[q[r]] /\ in[r] = u[e[q[r]]]  BY <1>13
  <2>2. e[q[r]] \in 1..n /\ kept[q[r]] = cut[e[q[r]]]  BY <1>9, <2>1
  <2>3. sorted[r] = cut[e[q[r]]]  BY <1>14, <2>2
  <2>4. CutFrom(cut[e[q[r]]], groups[e[q[r]]], u[e[q[r]]])  BY <1>5, <2>2
  <2> HIDE DEF to, in
  <2> QED  BY <2>1, <2>2, <2>3, <2>4 DEF CutFrom
<1>20. \A r, s \in 1..m : r # s => to[r] # to[s]
  <2> TAKE r, s \in 1..m
  <2> HAVE r # s
  <2>1. q[r] \in 1..m /\ q[s] \in 1..m /\ q[r] # q[s]  BY <1>13
  <2>2. e[q[r]] # e[q[s]]  BY <1>11, <2>1
  <2> QED  BY <2>2
<1>21. Reshaped(sorted, groups, to, in)
  <2> HIDE DEF to, in
  <2> QED  BY <1>15, <1>19, <1>20 DEF Reshaped, n
<1>22. PICK k : /\ Taken(hits, groups, k)
                /\ \A y \in 1..Len(hits) : k[y].row = to[h[y].row]
  <2> HIDE DEF to, in
  <2>1. \E k : Taken(hits, groups, k) /\ Through(h, to, k, Len(hits))
    BY <1>18, <1>21, TakenThrough
  <2> QED  BY <2>1 DEF Through
<1>23. ASSUME maxResults > 0, maxTotal = 0 \/ maxTotal >= n, NEW g \in 1..n, groups[g] # <<>>
       PROVE  \E y \in 1..Len(hits) : k[y].row = g
  <2>1. g \in K  BY <1>3, <1>4, <1>23 DEF K
  <2>2. PICK j \in 1..m : e[j] = g  BY <1>11, <2>1
  <2>3. PICK r \in 1..m : q[r] = j  BY <1>13
  <2>4. AllTaken(hits, sorted, h)  BY <1>1, <1>8, <1>18, <1>23
  <2>5. PICK y \in 1..Len(hits) : h[y].row = r  BY <1>15, <2>4 DEF AllTaken
  <2>6. to[r] = g  BY <2>2, <2>3
  <2> HIDE DEF to
  <2> QED  BY <1>22, <2>5, <2>6
<1>24. EachTaken(hits, groups, maxResults, maxTotal, k)  BY <1>22, <1>23 DEF EachTaken, n
<1> QED  BY <1>17, <1>24 DEF hits

(* KeyWindows, and windows that neither meet nor touch.                        *)
Place3 == [pos : Int, start : Int, end : Int]
KeyWindows == {w \in Place3 : w.start <= w.end}
Spread(spans) == \A i, j \in 1..Len(spans) : i < j => spans[i].end < spans[j].start
SpreadSpans == {spans \in Seq(KeyWindows) : Spread(spans)}

(* The fields of a window, in the two orders in which they are written.     *)
LEMMA WindowHas ==
  /\ \A w \in KeyWindows : w.pos \in Int /\ w.start \in Int /\ w.end \in Int /\ w.start <= w.end
  /\ \A p, a, b \in Int : a <= b => [pos |-> p, start |-> a, end |-> b] \in KeyWindows
  /\ \A p, a, b \in Int : a <= b => [start |-> a, end |-> b, pos |-> p] \in KeyWindows
BY DEF KeyWindows, Place3

(* Places in an interval are finitely many.                                 *)
LEMMA PlacesFinite ==
  ASSUME NEW a \in Int, NEW b \in Int, NEW S \in SUBSET (a..b)
  PROVE  IsFiniteSet(S) /\ S \subseteq Int
<1>1. IsFiniteSet(a..b)  BY FS_Interval
<1>2. IsFiniteSet(S)  BY <1>1, FS_Subset
<1> QED  BY <1>2

(* A keyword's window is one. *)
LEMMA WindowsTyped ==
  ASSUME NEW doc \in Seq(CellKinds), NEW i \in 1..Len(doc)
  PROVE  ContextWindow(doc, i) \in KeyWindows /\ RuleWindow(doc, i, "both") \in KeyWindows
<1>0. /\ Before \in Nat /\ After \in Nat /\ Reach \in Nat /\ Len(doc) \in Nat /\ i \in Nat
      /\ 1 <= i /\ i <= Len(doc)
  BY WidthsNatural
<1>1. ContextWindow(doc, i) \in KeyWindows
  <2> DEFINE a == Larger(0, i - 1 - Before)
             b == Smaller(Len(doc), i + After)
  <2>1. a \in Int /\ b \in Int /\ a <= b /\ i - 1 \in Int  BY <1>0 DEF Larger, Smaller
  <2> HIDE DEF a, b
  <2>2. [pos |-> i - 1, start |-> a, end |-> b] \in KeyWindows  BY <2>1, WindowHas
  <2> QED  BY <2>2 DEF ContextWindow, a, b
<1>2. RuleWindow(doc, i, "both") \in KeyWindows
  <2> DEFINE low == Larger(0, i - 1 - Reach)
             high == Smaller(Len(doc), i + Reach)
             behind == {j \in low + 1..i - 1 : doc[j] \in StopKinds}
             ahead == {j \in i + 1..high : doc[j] \in StopKinds}
             start == Most(behind \union {low})
             end == Least({j - 1 : j \in ahead} \union {high})
             ink == {j \in start + 1..end : doc[j] \notin Blanks}
             w == [pos |-> i - 1,
                   start |-> IF ink = {} THEN end ELSE Least(ink) - 1,
                   end |-> IF ink = {} THEN end ELSE Most(ink)]
  <2>0. RuleWindow(doc, i, "both") = w  BY DEF RuleWindow
  <2>1. low \in Int /\ high \in Int  BY <1>0 DEF Larger, Smaller
  <2> HIDE DEF low, high
  <2>2. start \in Int
    <3> DEFINE S == behind \union {low}
    <3>1. low + 1 \in Int /\ i - 1 \in Int  BY <1>0, <2>1
    <3>2. behind \in SUBSET (low + 1..i - 1)  OBVIOUS
    <3> HIDE DEF behind
    <3>3. IsFiniteSet(behind) /\ behind \subseteq Int  BY <3>1, <3>2, PlacesFinite
    <3>4. IsFiniteSet(S) /\ S \subseteq Int /\ S # {}  BY <2>1, <3>3, FS_AddElement
    <3> HIDE DEF S
    <3>5. Most(S) \in Int  BY <3>4, GreatestOf
    <3> QED  BY <3>5 DEF S
  <2> HIDE DEF start
  <2>3. end \in Int
    <3> DEFINE D == {j - 1 : j \in ahead}
               S == D \union {high}
    <3>1. i \in Int /\ high - 1 \in Int  BY <1>0, <2>1
    <3>2. D \in SUBSET (i..high - 1)
      <4>1. \A j \in ahead : j \in Int /\ i + 1 <= j /\ j <= high  BY <1>0, <2>1
      <4>2. \A j \in ahead : j - 1 \in i..high - 1  BY <1>0, <2>1, <4>1
      <4> HIDE DEF ahead
      <4> QED  BY <4>2
    <3> HIDE DEF D
    <3>3. IsFiniteSet(D) /\ D \subseteq Int  BY <3>1, <3>2, PlacesFinite
    <3>4. IsFiniteSet(S) /\ S \subseteq Int /\ S # {}  BY <2>1, <3>3, FS_AddElement
    <3> HIDE DEF S
    <3>5. Least(S) \in Int  BY <3>4, SmallestOf
    <3> QED  BY <3>5 DEF S, D
  <2> HIDE DEF end
  <2>4. i - 1 \in Int  BY <1>0
  <2>5. CASE ink = {}
    <3>1. w = [pos |-> i - 1, start |-> end, end |-> end]  BY <2>5
    <3> HIDE DEF w, ink
    <3>2. end <= end  BY <2>3
    <3>3. [pos |-> i - 1, start |-> end, end |-> end] \in KeyWindows  BY <2>3, <2>4, <3>2, WindowHas
    <3> QED  BY <2>0, <3>1, <3>3
  <2>6. CASE ink # {}
    <3>1. start + 1 \in Int /\ ink \in SUBSET (start + 1..end)  BY <2>2
    <3> HIDE DEF ink
    <3>2. IsFiniteSet(ink) /\ ink \subseteq Int  BY <2>3, <3>1, PlacesFinite
    <3>3. /\ Least(ink) \in ink /\ \A x \in ink : Least(ink) <= x
      BY <2>6, <3>2, SmallestOf
    <3>4. Most(ink) \in ink  BY <2>6, <3>2, GreatestOf
    <3> DEFINE a == Least(ink)
               b == Most(ink)
    <3>5. a \in Int /\ b \in Int /\ a <= b  BY <3>2, <3>3, <3>4
    <3>6. w = [pos |-> i - 1, start |-> a - 1, end |-> b]  BY <2>6
    <3> HIDE DEF a, b, w
    <3>7. a - 1 \in Int /\ a - 1 <= b  BY <3>5
    <3>8. [pos |-> i - 1, start |-> a - 1, end |-> b] \in KeyWindows  BY <2>4, <3>5, <3>7, WindowHas
    <3> QED  BY <2>0, <3>6, <3>8
  <2> QED  BY <2>5, <2>6
<1> QED  BY <1>1, <1>2

(* It is one when it takes a table in.                                      *)
LEMMA WidenedTyped ==
  ASSUME NEW doc \in Seq(CellKinds), NEW w \in KeyWindows
  PROVE  Widened(doc, w) \in KeyWindows
<1> DEFINE ts == Tables(doc)
           hitAt == {m \in DOMAIN ts : ts[m].to > w.start /\ ts[m].from - 1 < w.end}
           met == {ts[j] : j \in hitAt}
           lows == {v.from - 1 : v \in met}
           highs == {v.to : v \in met}
           L == {w.start} \union lows
           H == {w.end} \union highs
<1>1. w.pos \in Int /\ w.start \in Int /\ w.end \in Int /\ w.start <= w.end  BY WindowHas
<1>2. /\ ts \in Seq(Spans) /\ Len(ts) \in Nat /\ DOMAIN ts = 1..Len(ts)
      /\ \A j \in 1..Len(ts) : /\ ts[j].from \in Int /\ ts[j].from >= 1
                               /\ ts[j].to \in Int /\ ts[j].to <= Len(doc) /\ ts[j].from <= ts[j].to
  <2>1. Consecutive(ts, doc, Len(doc))  BY TablesInOrder
  <2>2. ts \in Seq(Spans) /\ \A j \in 1..Len(ts) : IsTable(ts[j], doc)  BY <2>1 DEF Consecutive
  <2>3. Len(doc) \in Nat  OBVIOUS
  <2> HIDE DEF ts
  <2> QED  BY <2>2, <2>3 DEF IsTable
<1>3. Widened(doc, w) = [w EXCEPT !.start = Least(L), !.end = Most(H)]
  BY DEF Widened
<1>4. lows \in SUBSET (0..Len(doc)) /\ highs \in SUBSET (0..Len(doc)) /\ Len(doc) \in Nat
  <2>1. \A v \in met : v.from \in Int /\ v.from >= 1 /\ v.to \in Int /\ v.to <= Len(doc) /\ v.from <= v.to
    BY <1>2
  <2>2. Len(doc) \in Nat  OBVIOUS
  <2> HIDE DEF met
  <2> QED  BY <2>1, <2>2
<1>5. 0 \in Int /\ Len(doc) \in Int  BY <1>4
<1> HIDE DEF lows, highs, ts
<1>6. IsFiniteSet(lows) /\ lows \subseteq Int /\ IsFiniteSet(highs) /\ highs \subseteq Int
  BY <1>4, <1>5, PlacesFinite
<1>7. IsFiniteSet(lows \union {w.start}) /\ IsFiniteSet(highs \union {w.end})
  BY <1>6, FS_AddElement
<1>8. L = lows \union {w.start} /\ H = highs \union {w.end}  OBVIOUS
<1>9. IsFiniteSet(L) /\ L \subseteq Int /\ w.start \in L  BY <1>1, <1>6, <1>7, <1>8
<1>10. IsFiniteSet(H) /\ H \subseteq Int /\ w.end \in H  BY <1>1, <1>6, <1>7, <1>8
<1> HIDE DEF L, H
<1>11. Least(L) \in Int /\ Least(L) <= w.start  BY <1>9, SmallestOf
<1>12. Most(H) \in Int /\ w.end <= Most(H)  BY <1>10, GreatestOf
<1>13. Least(L) <= Most(H)  BY <1>1, <1>11, <1>12
<1>14. w \in Place3  BY DEF KeyWindows
<1> DEFINE a == Least(L)
           b == Most(H)
<1>15. a \in Int /\ b \in Int /\ a <= b  BY <1>11, <1>12, <1>13
<1>16. Widened(doc, w) = [w EXCEPT !.start = a, !.end = b]  BY <1>3
<1> HIDE DEF a, b
<1>17. [w EXCEPT !.start = a, !.end = b] \in KeyWindows  BY <1>14, <1>15 DEF KeyWindows, Place3
<1> QED  BY <1>16, <1>17

(* One window is joined to the spans before it.                             *)
JoinSpan(descending, spans, w) ==
  IF spans = <<>> THEN <<w>>
  ELSE IF Apart(Last(spans), w) THEN Append(spans, w)
  ELSE LET last == Last(spans)
       IN [spans EXCEPT ![Len(spans)] =
             [start |-> last.start, end |-> Larger(last.end, w.end),
              pos |-> IF descending THEN Larger(last.pos, w.pos) ELSE Smaller(last.pos, w.pos)]]

(* Spans stay apart when a window is joined to them.                        *)
LEMMA JoinSpreads ==
  ASSUME NEW descending \in BOOLEAN, NEW spans \in SpreadSpans, NEW w \in KeyWindows
  PROVE  JoinSpan(descending, spans, w) \in SpreadSpans /\ JoinSpan(descending, spans, w) # <<>>
<1> DEFINE n == Len(spans)
           r == JoinSpan(descending, spans, w)
           Y == KeyWindows
<1>1. spans \in Seq(Y) /\ Spread(spans) /\ n \in Nat  BY DEF SpreadSpans
<1>2. \A j \in 1..n : spans[j] \in Y
  <2> HIDE DEF Y
  <2> QED  BY <1>1
<1>3. w.pos \in Int /\ w.start \in Int /\ w.end \in Int /\ w.start <= w.end  BY WindowHas
<1>4. CASE spans = <<>>
  <2>1. r = <<w>>  BY <1>4 DEF JoinSpan
  <2>2. <<w>> \in Seq(Y) /\ Len(<<w>>) = 1  OBVIOUS
  <2>3. Spread(<<w>>)  BY <2>2 DEF Spread
  <2> QED  BY <2>1, <2>2, <2>3 DEF SpreadSpans
<1>5. CASE spans # <<>>
  <2> DEFINE last == spans[n]
  <2>1. n \in 1..n /\ n > 0 /\ last \in Y /\ Last(spans) = last  BY <1>1, <1>2, <1>5 DEF Last
  <2>2. last.pos \in Int /\ last.start \in Int /\ last.end \in Int /\ last.start <= last.end
    BY <2>1, WindowHas
  <2>3. \A j \in 1..n : j # n => /\ spans[j].end < last.start
                                 /\ spans[j].end \in Int /\ spans[j].start \in Int
    <3> TAKE j \in 1..n
    <3> HAVE j # n
    <3>1. j < n /\ spans[j] \in Y  BY <1>1, <1>2
    <3>2. spans[j].end < spans[n].start  BY <1>1, <2>1, <3>1 DEF Spread
    <3> QED  BY <3>1, <3>2, WindowHas
  <2> HIDE DEF last
  <2>4. CASE Apart(last, w)
    <3>1. r = Append(spans, w)  BY <1>5, <2>1, <2>4 DEF JoinSpan
    <3> HIDE DEF Y, r
    <3>2. /\ r \in Seq(Y) /\ Len(r) = n + 1 /\ r[n + 1] = w /\ \A j \in 1..n : r[j] = spans[j]
      BY <1>1, <3>1 DEF Y
    <3>3. w.start > last.end  BY <2>4 DEF Apart
    <3>4. \A j \in 1..n : spans[j].end < w.start
      <4> TAKE j \in 1..n
      <4>1. CASE j = n  BY <1>3, <2>2, <3>3, <4>1 DEF last
      <4>2. CASE j # n  BY <1>3, <2>2, <2>3, <3>3, <4>2
      <4> QED  BY <4>1, <4>2
    <3>5. Spread(r)
      <4> SUFFICES ASSUME NEW i \in 1..n + 1, NEW j \in 1..n + 1, i < j PROVE r[i].end < r[j].start
        BY <3>2 DEF Spread
      <4>1. i \in 1..n /\ r[i] = spans[i]  BY <1>1, <3>2
      <4>2. CASE j = n + 1  BY <3>2, <3>4, <4>1, <4>2
      <4>3. CASE j # n + 1
        <5>1. j \in 1..n  BY <1>1, <4>3
        <5>2. spans[i].end < spans[j].start  BY <1>1, <4>1, <5>1 DEF Spread
        <5> QED  BY <3>2, <4>1, <5>1, <5>2
      <4> QED  BY <4>2, <4>3
    <3>6. r # <<>>  BY <1>1, <3>2
    <3> QED  BY <3>2, <3>5, <3>6 DEF SpreadSpans, r, Y
  <2>5. CASE ~Apart(last, w)
    <3> DEFINE a == last.start
               b == Larger(last.end, w.end)
               c == IF descending THEN Larger(last.pos, w.pos) ELSE Smaller(last.pos, w.pos)
               v == [start |-> a, end |-> b, pos |-> c]
    <3>1. r = [spans EXCEPT ![n] = v]  BY <1>5, <2>1, <2>5 DEF JoinSpan
    <3>2. a \in Int /\ b \in Int /\ c \in Int /\ a <= b  BY <1>3, <2>2 DEF Larger, Smaller
    <3> HIDE DEF a, b, c
    <3>3. v \in Y /\ v.start = last.start
      <4>1. v \in Y  BY <3>2, WindowHas
      <4> QED  BY <4>1 DEF a
    <3> HIDE DEF Y, r, v
    <3>4. r \in Seq(Y) /\ Len(r) = n /\ r[n] = v /\ \A j \in 1..n : j # n => r[j] = spans[j]
      BY <1>1, <2>1, <3>1, <3>3 DEF Y
    <3>5. Spread(r)
      <4> SUFFICES ASSUME NEW i \in 1..n, NEW j \in 1..n, i < j PROVE r[i].end < r[j].start
        BY <3>4 DEF Spread
      <4>1. i # n /\ r[i] = spans[i]  BY <1>1, <3>4
      <4>2. CASE j = n  BY <2>3, <3>3, <3>4, <4>1, <4>2
      <4>3. CASE j # n
        <5>1. spans[i].end < spans[j].start  BY <1>1 DEF Spread
        <5> QED  BY <3>4, <4>1, <4>3, <5>1
      <4> QED  BY <4>2, <4>3
    <3>6. r # <<>>  BY <2>1, <3>4
    <3> QED  BY <3>4, <3>5, <3>6 DEF SpreadSpans, r, Y
  <2> QED  BY <2>4, <2>5
<1> QED  BY <1>4, <1>5

(* The windows of a keyword in order.                                       *)
InSpanOrder(wide) ==
  Arranged(wide, LAMBDA v, w : v.start < w.start \/ (v.start = w.start /\ v.end < w.end))

(* Windows in order are windows.                                            *)
LEMMA SpansOrdered ==
  ASSUME NEW s \in Seq(KeyWindows)
  PROVE  InSpanOrder(s) \in Seq(KeyWindows) /\ Len(InSpanOrder(s)) = Len(s)
<1> DEFINE k == Len(s)
           Y == KeyWindows
           t == InSpanOrder(s)
           a == [i \in 1..k |-> s[i].start]
           b == [i \in 1..k |-> s[i].end]
           C(i) == Cardinality({j \in 1..k :
                     \/ s[j].start < s[i].start \/ (s[j].start = s[i].start /\ s[j].end < s[i].end)
                     \/ ~(s[i].start < s[j].start \/ (s[i].start = s[j].start /\ s[i].end < s[j].end)) /\ j < i})
           D(i) == Cardinality({j \in 1..k : Before2(a, b, j, i)})
           one(m) == CHOOSE i \in 1..k : C(i) = m - 1
           other(m) == CHOOSE i \in 1..k : D(i) = m - 1
<1>0. k \in Nat /\ DOMAIN s = 1..k /\ \A i \in 1..k : s[i] \in Y
  <2> HIDE DEF Y
  <2>1. s \in Seq(Y)  BY DEF Y
  <2> QED  BY <2>1
<1>1. \A i \in 1..k : s[i].start \in Int /\ s[i].end \in Int  BY <1>0, WindowHas
<1>2. t = [m \in 1..k |-> s[one(m)]]
  <2>1. DOMAIN s = 1..k  BY <1>0
  <2> HIDE DEF k
  <2> QED  BY <2>1 DEF InSpanOrder, Arranged
<1>3. \A i \in 1..k : C(i) = D(i)
  <2> TAKE i \in 1..k
  <2>1. ASSUME NEW j \in 1..k
        PROVE  Before2(a, b, j, i) <=>
                 \/ s[j].start < s[i].start \/ (s[j].start = s[i].start /\ s[j].end < s[i].end)
                 \/ ~(s[i].start < s[j].start \/ (s[i].start = s[j].start /\ s[i].end < s[j].end)) /\ j < i
    <3>1. a[i] = s[i].start /\ a[j] = s[j].start /\ b[i] = s[i].end /\ b[j] = s[j].end
      OBVIOUS
    <3> HIDE DEF a, b, k
    <3> QED  BY <3>1 DEF Before2, Sooner
  <2> HIDE DEF a, b, k
  <2> QED  BY <2>1
<1>4. a \in [1..k -> Int] /\ b \in [1..k -> Int]
  <2> HIDE DEF k
  <2> QED  BY <1>1
<1>5. SortedBy(t, s, k, a, b)
  <2> HIDE DEF C, D
  <2>1. \A m \in 1..k : one(m) = other(m)  BY <1>3
  <2> HIDE DEF t, k, a, b, one, other
  <2>2. t = [m \in 1..k |-> s[other(m)]]  BY <1>2, <2>1
  <2> QED  BY <2>2 DEF SortedBy, other, D
<1> HIDE DEF C, D, t, a, b, k
<1>6. \E p : Rearranged(t, s, k, a, b, p)
  <2>1. k \in Nat /\ DOMAIN s = 1..k  BY <1>0
  <2> QED  BY <2>1, <1>4, <1>5, Sorting
<1>7. PICK p : Permutes(p, k) /\ t = [m \in 1..k |-> s[p[m]]]  BY <1>6 DEF Rearranged
<1>8. \A m \in 1..k : s[p[m]] \in Y  BY <1>0, <1>7 DEF Permutes
<1> HIDE DEF Y
<1>9. t \in [1..k -> Y]  BY <1>7, <1>8
<1>10. t \in Seq(Y) /\ Len(t) = k  BY <1>0, <1>9
<1> QED  BY <1>10 DEF t, Y, k

(* merge_keyword_spans: windows of a keyword that neither meet nor touch,   *)
(* and some where there are some.                                           *)
LEMMA MergedSpread ==
  ASSUME NEW doc \in Seq(CellKinds), NEW windows \in Seq(KeyWindows), NEW descending \in BOOLEAN
  PROVE  /\ Merged(doc, windows, descending) \in SpreadSpans
         /\ windows # <<>> => Merged(doc, windows, descending) # <<>>
<1> DEFINE wide == [j \in DOMAIN windows |-> Widened(doc, windows[j])]
           s == InSpanOrder(wide)
           n == Len(windows)
           A == SpreadSpans
           X == KeyWindows
           Op(spans, w) == JoinSpan(descending, spans, w)
           F == [x \in A \X X |-> Op(x[1], x[2])]
           G(h, q) == IF q = {} THEN <<>> ELSE Op(h[q \ {Max(q)}], s[Max(q)])
           it == CHOOSE h : h = [q \in SUBSET DOMAIN s |-> G(h, q)]
<1>1. Merged(doc, windows, descending) = it[DOMAIN s]
  BY DEF Merged, FoldLeft, MapThenFoldSet, JoinSpan, InSpanOrder
<1>2. n \in Nat /\ DOMAIN windows = 1..n /\ \A j \in 1..n : windows[j] \in X
  <2> HIDE DEF X
  <2>1. windows \in Seq(X)  BY DEF X
  <2> QED  BY <2>1
<1>3. wide \in Seq(X) /\ Len(wide) = n
  <2>1. \A j \in 1..n : Widened(doc, windows[j]) \in X  BY <1>2, WidenedTyped
  <2> HIDE DEF X, n
  <2>2. wide \in [1..n -> X]  BY <1>2, <2>1
  <2> QED  BY <1>2, <2>2
<1> HIDE DEF wide, n
<1>4. s \in Seq(X) /\ Len(s) = n  BY <1>3, SpansOrdered
<1> HIDE DEF s
<1>5. DOMAIN s = 1..n /\ \A i \in 1..n : s[i] \in X
  <2> HIDE DEF X
  <2> QED  BY <1>4
<1>6. \A acc \in A, w \in X : Op(acc, w) \in A /\ Op(acc, w) # <<>>  BY JoinSpreads
<1>7. <<>> \in A
  <2>1. <<>> \in Seq(X) /\ Len(<<>>) = 0  OBVIOUS
  <2>2. Spread(<<>>)  BY <2>1 DEF Spread
  <2> QED  BY <2>1, <2>2 DEF SpreadSpans
<1> HIDE DEF A, X, Op
<1>8. F \in [A \X X -> A] /\ \A acc \in A, w \in X : F[<<acc, w>>] = Op(acc, w)
  BY <1>6
<1> HIDE DEF F
<1>9. PICK h \in [SUBSET (1..n) -> A] : IsFold(h, F, <<>>, s)
  BY <1>2, <1>5, <1>7, <1>8, FoldExists
<1>10. h = [q \in SUBSET DOMAIN s |-> G(h, q)]
  <2>1. ASSUME NEW q \in SUBSET (1..n), q # {}
        PROVE  F[<<h[q \ {Max(q)}], s[Max(q)]>>] = Op(h[q \ {Max(q)}], s[Max(q)])
    <3>1. Max(q) \in 1..n  BY <1>2, <2>1, MaxOfIndices
    <3>2. q \ {Max(q)} \in SUBSET (1..n)  OBVIOUS
    <3> QED  BY <1>5, <1>8, <1>9, <3>1, <3>2
  <2> QED  BY <1>5, <1>9, <2>1 DEF IsFold
<1>11. it = [q \in SUBSET DOMAIN s |-> G(it, q)]  BY <1>10
<1> HIDE DEF it
<1>12. \A q \in SUBSET (1..n) : it[q] = G(it, q)  BY <1>5, <1>11
<1>13. StepsBy(it, A, X, F, <<>>, s, n)
  <2>1. {} \in SUBSET (1..n)  OBVIOUS
  <2>2. ASSUME NEW q \in SUBSET (1..n), q # {}, it[q \ {Max(q)}] \in A
        PROVE  it[q] = F[<<it[q \ {Max(q)}], s[Max(q)]>>]
    <3>1. Max(q) \in 1..n  BY <1>2, <2>2, MaxOfIndices
    <3> QED  BY <1>5, <1>8, <1>12, <2>2, <3>1
  <2> QED  BY <1>2, <1>5, <1>7, <1>8, <1>12, <2>1, <2>2 DEF StepsBy
<1>14. PICK g : IsPrefixFold(g, A, F, <<>>, s, n) /\ g[n] = it[1..n]
  BY <1>13, PrefixesOf
<1>15. Merged(doc, windows, descending) = g[n] /\ g[n] \in A
  <2>1. n \in 0..n  BY <1>2
  <2> QED  BY <1>1, <1>5, <1>14, <2>1 DEF IsPrefixFold
<1>16. n > 0 => g[n] # <<>>
  <2> HAVE n > 0
  <2>1. n \in 1..n /\ n - 1 \in 0..n  BY <1>2
  <2>2. g[n] = F[<<g[n - 1], s[n]>>] /\ g[n - 1] \in A /\ s[n] \in X
    BY <1>5, <1>14, <2>1 DEF IsPrefixFold
  <2> QED  BY <1>6, <1>8, <2>2
<1>17. windows # <<>> => n > 0  BY <1>2 DEF n
<1> QED  BY <1>15, <1>16, <1>17 DEF A

(* What is picked has the type of what it is picked from.                   *)
LEMMA PickedTyped ==
  ASSUME NEW X, NEW s \in Seq(X), NEW K \in SUBSET (1..Len(s))
  PROVE  Picked(s, K) \in Seq(X)
<1> DEFINE n == Len(s)
           t == Picked(s, K)
<1>1. n \in Nat /\ DOMAIN s = 1..n /\ \A i \in 1..n : s[i] \in X  OBVIOUS
<1> HIDE DEF n, t
<1>2. PICK e : PickedBy(t, s, K, e)
  <2>1. K \in SUBSET (1..n)  BY DEF n
  <2> QED  BY <1>1, <2>1, PickedAre DEF t
<1> DEFINE m == Cardinality(K)
<1>3. m \in Nat /\ e \in [1..m -> K] /\ t = [j \in 1..m |-> s[e[j]]]
  BY <1>2 DEF PickedBy, Ascends
<1> HIDE DEF m
<1>4. \A j \in 1..m : s[e[j]] \in X  BY <1>1, <1>3 DEF n
<1>5. t \in [1..m -> X]  BY <1>3, <1>4
<1>6. t \in Seq(X)  BY <1>3, <1>5
<1> QED  BY <1>6 DEF t

(* The places where a keyword stands first.                                 *)
LEMMA FirstsAre ==
  ASSUME NEW X, NEW keywords \in Seq(X)
  PROVE  LET f == Firsts(keywords)
             n == Len(keywords)
         IN /\ f \in Seq(1..n) /\ Len(f) \in Nat /\ Len(f) <= n
            /\ \A i \in 1..n : \E g \in 1..Len(f) : keywords[f[g]] = keywords[i]
            /\ \A g, h \in 1..Len(f) : g # h => keywords[f[g]] # keywords[f[h]]
<1> DEFINE n == Len(keywords)
           S == {i \in DOMAIN keywords : \A j \in 1..i - 1 : keywords[j] # keywords[i]}
           f == Ordered(S)
<1>0. Firsts(keywords) = f  BY DEF Firsts
<1>1. n \in Nat /\ DOMAIN keywords = 1..n  OBVIOUS
<1>2. S \in SUBSET (1..n)  OBVIOUS
<1>3. IsFiniteSet(1..n) /\ Cardinality(1..n) = n  BY <1>1, IntervalSize
<1>4. IsFiniteSet(S) /\ Cardinality(S) <= n  BY <1>2, <1>3, FS_Subset
<1>5. S \in SUBSET Int  BY <1>2
<1>6. /\ f \in Seq(S) /\ Len(f) = Cardinality(S)
      /\ \A x \in S : \E j \in 1..Len(f) : f[j] = x
      /\ \A i, j \in 1..Len(f) : i < j => f[i] < f[j]
  BY <1>4, <1>5, OrderedOnto
<1>7. \A i \in 1..n : \E j \in S : keywords[j] = keywords[i]
  <2> TAKE i \in 1..n
  <2> DEFINE T == {j \in 1..n : keywords[j] = keywords[i]}
  <2>1. T \subseteq Nat /\ T # {}  OBVIOUS
  <2>2. PICK j \in T : \A y \in T : j <= y  BY <2>1, LeastNumber
  <2>3. \A y \in 1..j - 1 : keywords[y] # keywords[j]
    <3> TAKE y \in 1..j - 1
    <3>1. y \in 1..n /\ ~(j <= y)  BY <1>1, <2>2
    <3> QED  BY <2>2, <3>1
  <2>4. j \in S  BY <1>1, <2>3
  <2> QED  BY <2>4
<1>8. \A i, j \in S : i < j => keywords[i] # keywords[j]
  <2> TAKE i, j \in S
  <2> HAVE i < j
  <2>1. i \in 1..j - 1  BY <1>1
  <2> QED  BY <2>1
<1> HIDE DEF f, S, n
<1>9. Len(f) \in Nat /\ \A g \in 1..Len(f) : f[g] \in S  BY <1>6
<1>10. \A g, h \in 1..Len(f) : g # h => keywords[f[g]] # keywords[f[h]]
  <2> TAKE g, h \in 1..Len(f)
  <2> HAVE g # h
  <2>1. g < h \/ h < g  BY <1>9
  <2> QED  BY <1>6, <1>8, <1>9, <2>1
<1>11. \A i \in 1..n : \E g \in 1..Len(f) : keywords[f[g]] = keywords[i]
  <2> TAKE i \in 1..n
  <2>1. PICK j \in S : keywords[j] = keywords[i]  BY <1>7
  <2>2. PICK g \in 1..Len(f) : f[g] = j  BY <1>6
  <2> QED  BY <2>1, <2>2
<1>12. f \in Seq(1..n)
  <2>1. S \subseteq 1..n /\ f \in Seq(S)  BY <1>2, <1>6
  <2> QED  BY <2>1, WithinSeq
<1> QED  BY <1>0, <1>4, <1>6, <1>9, <1>10, <1>11, <1>12 DEF n

(* A score is a number.                                                     *)
LEMMA ScoreTyped ==
  ASSUME NEW Y, NEW chunkRows \in Seq(Y), NEW keywords \in Seq(CellKinds), NEW text
  PROVE  Score(text, keywords, chunkRows) \in Int
<1> DEFINE s == Firsts(keywords)
           n == Len(s)
           X == 1..Len(keywords)
           A == Int
           Op(sum, i) == IF Holds(text, keywords[i]) THEN sum + Weight(keywords[i], chunkRows) ELSE sum
           F == [x \in A \X X |-> Op(x[1], x[2])]
           G(h, q) == IF q = {} THEN 0 ELSE Op(h[q \ {Max(q)}], s[Max(q)])
           it == CHOOSE h : h = [q \in SUBSET DOMAIN s |-> G(h, q)]
<1>1. Score(text, keywords, chunkRows) = it[DOMAIN s]
  BY DEF Score, FoldLeft, MapThenFoldSet
<1>2. s \in Seq(X) /\ n \in Nat  BY FirstsAre
<1> HIDE DEF s
<1>3. DOMAIN s = 1..n /\ \A i \in 1..n : s[i] \in X
  <2> HIDE DEF X
  <2> QED  BY <1>2
<1>4. \A i \in X : Weight(keywords[i], chunkRows) \in Int
  <2> TAKE i \in X
  <2> DEFINE K == {c \in DOMAIN chunkRows : Holds(chunkRows[c].text, keywords[i])}
             m == Len(chunkRows)
  <2>1. m \in Nat /\ K \in SUBSET (1..m)  OBVIOUS
  <2>2. IsFiniteSet(1..m)  BY <2>1, IntervalSize
  <2>3. Cardinality(K) \in Nat  BY <2>1, <2>2, FS_Subset, FS_CardinalityType
  <2>4. Weight(keywords[i], chunkRows) = 1 + m - Cardinality(K)  BY DEF Weight
  <2> HIDE DEF m, K
  <2> QED  BY <2>1, <2>3, <2>4
<1>5. \A acc \in A, i \in X : Op(acc, i) \in A
  <2> TAKE acc \in A, i \in X
  <2>1. acc + Weight(keywords[i], chunkRows) \in Int  BY <1>4
  <2> QED  BY <2>1
<1>6. 0 \in A  OBVIOUS
<1> HIDE DEF A, X, Op, n
<1>7. F \in [A \X X -> A] /\ \A acc \in A, i \in X : F[<<acc, i>>] = Op(acc, i)
  BY <1>5
<1> HIDE DEF F
<1>8. PICK h \in [SUBSET (1..n) -> A] : IsFold(h, F, 0, s)
  BY <1>2, <1>3, <1>6, <1>7, FoldExists
<1>9. h = [q \in SUBSET DOMAIN s |-> G(h, q)]
  <2>1. ASSUME NEW q \in SUBSET (1..n), q # {}
        PROVE  F[<<h[q \ {Max(q)}], s[Max(q)]>>] = Op(h[q \ {Max(q)}], s[Max(q)])
    <3>1. Max(q) \in 1..n  BY <1>2, <2>1, MaxOfIndices
    <3>2. q \ {Max(q)} \in SUBSET (1..n)  OBVIOUS
    <3> QED  BY <1>3, <1>7, <1>8, <3>1, <3>2
  <2> QED  BY <1>3, <1>8, <2>1 DEF IsFold
<1>10. it = [q \in SUBSET DOMAIN s |-> G(it, q)]  BY <1>9
<1> HIDE DEF it
<1>11. \A q \in SUBSET (1..n) : it[q] = G(it, q)  BY <1>3, <1>10
<1>12. StepsBy(it, A, X, F, 0, s, n)
  <2>1. {} \in SUBSET (1..n)  OBVIOUS
  <2>2. ASSUME NEW q \in SUBSET (1..n), q # {}, it[q \ {Max(q)}] \in A
        PROVE  it[q] = F[<<it[q \ {Max(q)}], s[Max(q)]>>]
    <3>1. Max(q) \in 1..n  BY <1>2, <2>2, MaxOfIndices
    <3> QED  BY <1>3, <1>7, <1>11, <2>2, <3>1
  <2> QED  BY <1>2, <1>3, <1>6, <1>7, <1>11, <2>1, <2>2 DEF StepsBy
<1>13. PICK g : IsPrefixFold(g, A, F, 0, s, n) /\ g[n] = it[1..n]
  BY <1>12, PrefixesOf
<1>14. g[n] \in A
  <2>1. n \in 0..n  BY <1>2
  <2> QED  BY <1>13, <2>1 DEF IsPrefixFold
<1> QED  BY <1>1, <1>3, <1>13, <1>14 DEF A

HitType == [keyword : CellKinds, pos : Int, start : Int, end : Int, score : Int]

(* The hits of one keyword, as search_context, search_rule and              *)
(* search_chunk_db find them.                                               *)
LongEnough(query, windows) ==
  IF query.method = "rule"
    THEN Picked(windows, {j \in DOMAIN windows : windows[j].end - windows[j].start >= MinLength})
    ELSE windows
WindowsAt(doc, query, keyword) ==
  LET at == Occurrences(doc, keyword) IN [j \in DOMAIN at |-> WindowAt(doc, query, at[j])]
SpansOfKeyword(doc, query, keyword) ==
  Merged(doc, LongEnough(query, WindowsAt(doc, query, keyword)), query.order = "desc")
WindowGroup(doc, chunkRows, query, keyword) ==
  LET spans == SpansOfKeyword(doc, query, keyword)
  IN [j \in DOMAIN spans |->
        [keyword |-> keyword, pos |-> spans[j].pos, start |-> spans[j].start,
         end |-> spans[j].end,
         score |-> Score(SubSeq(CellsOf(doc), spans[j].start + 1, spans[j].end),
                         query.keywords, chunkRows)]]

ChunksWith(chunkRows, keyword) == Ordered({c \in DOMAIN chunkRows : Holds(chunkRows[c].text, keyword)})
TimesAsked(query, keyword) == {i \in DOMAIN query.keywords : query.keywords[i] = keyword}
ChunkPlaces(chunkRows, query, keyword) ==
  FlattenSeq([m \in 1..Cardinality(TimesAsked(query, keyword)) |-> ChunksWith(chunkRows, keyword)])
ChunkGroup(chunkRows, query, keyword) ==
  LET at == ChunkPlaces(chunkRows, query, keyword)
  IN [j \in DOMAIN at |->
        [keyword |-> keyword, pos |-> at[j], start |-> chunkRows[at[j]].start,
         end |-> chunkRows[at[j]].end,
         score |-> Score(chunkRows[at[j]].text, query.keywords, chunkRows)]]

(* The hits of a keyword; those of a window are spread.                     *)
GroupOf(group, keyword) ==
  /\ group \in Seq(HitType)
  /\ \A j \in 1..Len(group) : group[j].keyword = keyword

(* A keyword that stands in the text has a window.                          *)
LEMMA WindowsFound ==
  ASSUME NEW doc \in Seq(CellKinds), NEW query, NEW keyword \in CellKinds
  PROVE  /\ WindowsAt(doc, query, keyword) \in Seq(KeyWindows)
         /\ Holds(CellsOf(doc), keyword) => WindowsAt(doc, query, keyword) # <<>>
<1> DEFINE S == {i \in DOMAIN doc : doc[i] = keyword}
           at == Occurrences(doc, keyword)
           ws == WindowsAt(doc, query, keyword)
<1>1. S \in SUBSET (1..Len(doc)) /\ Len(doc) \in Nat  OBVIOUS
<1>2. 1 \in Int /\ Len(doc) \in Int  OBVIOUS
<1>3. IsFiniteSet(S) /\ S \subseteq Int
  <2> HIDE DEF S
  <2> QED  BY <1>1, <1>2, PlacesFinite
<1>4. at = Ordered(S)  BY DEF Occurrences
<1>5. Holds(CellsOf(doc), keyword) => \E i \in S : TRUE
  <2> HAVE Holds(CellsOf(doc), keyword)
  <2>1. PICK i \in DOMAIN CellsOf(doc) : CellsOf(doc)[i].k = keyword  BY DEF Holds
  <2>2. i \in DOMAIN doc /\ doc[i] = keyword  BY <2>1 DEF CellsOf
  <2> QED  BY <2>2
<1> HIDE DEF S, at
<1>6. at \in Seq(S) /\ \A x \in S : \E j \in 1..Len(at) : at[j] = x
  BY <1>3, <1>4, OrderedOnto
<1>7. Len(at) \in Nat /\ DOMAIN at = 1..Len(at) /\ \A j \in 1..Len(at) : at[j] \in 1..Len(doc)
  <2>1. at \in Seq(S)  BY <1>6
  <2>2. Len(at) \in Nat /\ DOMAIN at = 1..Len(at) /\ \A j \in 1..Len(at) : at[j] \in S  BY <2>1
  <2> QED  BY <1>1, <2>2
<1>8. \A j \in 1..Len(at) : WindowAt(doc, query, at[j]) \in KeyWindows
  BY <1>7, WindowsTyped DEF WindowAt
<1>9. ws = [j \in 1..Len(at) |-> WindowAt(doc, query, at[j])]
  BY <1>7 DEF WindowsAt, at
<1> HIDE DEF ws
<1>10. ws \in [1..Len(at) -> KeyWindows]  BY <1>8, <1>9
<1>11. ws \in Seq(KeyWindows) /\ Len(ws) = Len(at)  BY <1>7, <1>10
<1>12. Holds(CellsOf(doc), keyword) => ws # <<>>
  <2> HAVE Holds(CellsOf(doc), keyword)
  <2>1. PICK i \in S : TRUE  BY <1>5
  <2>2. PICK j \in 1..Len(at) : at[j] = i  BY <1>6, <2>1
  <2>3. Len(ws) > 0  BY <1>7, <1>11, <2>2
  <2> QED  BY <2>3
<1> QED  BY <1>11, <1>12 DEF ws

(* Its spans neither meet nor touch.                                        *)
LEMMA SpansSpread ==
  ASSUME NEW doc \in Seq(CellKinds), NEW query, NEW keyword \in CellKinds
  PROVE  /\ SpansOfKeyword(doc, query, keyword) \in SpreadSpans
         /\ query.method = "context" /\ Holds(CellsOf(doc), keyword) =>
              SpansOfKeyword(doc, query, keyword) # <<>>
<1> DEFINE ws == WindowsAt(doc, query, keyword)
           long == LongEnough(query, ws)
<1>1. ws \in Seq(KeyWindows) /\ (Holds(CellsOf(doc), keyword) => ws # <<>>)  BY WindowsFound
<1> HIDE DEF ws
<1>2. long \in Seq(KeyWindows)
  <2>1. CASE query.method = "rule"
    <3> DEFINE K == {j \in DOMAIN ws : ws[j].end - ws[j].start >= MinLength}
    <3>1. K \in SUBSET (1..Len(ws))  BY <1>1
    <3>2. long = Picked(ws, K)  BY <2>1 DEF LongEnough
    <3> HIDE DEF K, long
    <3> QED  BY <1>1, <3>1, <3>2, PickedTyped
  <2>2. CASE query.method # "rule"  BY <1>1, <2>2 DEF LongEnough
  <2> QED  BY <2>1, <2>2
<1>3. query.method = "context" => long = ws  BY DEF LongEnough
<1> HIDE DEF long
<1>4. (query.order = "desc") \in BOOLEAN  OBVIOUS
<1>5. /\ Merged(doc, long, query.order = "desc") \in SpreadSpans
      /\ long # <<>> => Merged(doc, long, query.order = "desc") # <<>>
  BY <1>2, <1>4, MergedSpread
<1> QED  BY <1>1, <1>3, <1>5 DEF SpansOfKeyword, long, ws

(* The hits of search_context and of search_rule for one keyword.           *)
LEMMA WindowGroupHas ==
  ASSUME NEW doc \in Seq(CellKinds), NEW Y, NEW chunkRows \in Seq(Y),
         NEW query, query.keywords \in Seq(CellKinds), NEW keyword \in CellKinds
  PROVE  LET group == WindowGroup(doc, chunkRows, query, keyword)
         IN /\ GroupOf(group, keyword) /\ Spread(group)
            /\ query.method = "context" /\ Holds(CellsOf(doc), keyword) => group # <<>>
<1> DEFINE spans == SpansOfKeyword(doc, query, keyword)
           group == WindowGroup(doc, chunkRows, query, keyword)
           n == Len(spans)
           Mark(j) == Score(SubSeq(CellsOf(doc), spans[j].start + 1, spans[j].end), query.keywords, chunkRows)
           Hit(j) == [keyword |-> keyword, pos |-> spans[j].pos, start |-> spans[j].start,
                      end |-> spans[j].end, score |-> Mark(j)]
<1>1. /\ spans \in SpreadSpans
      /\ query.method = "context" /\ Holds(CellsOf(doc), keyword) => spans # <<>>
  BY SpansSpread
<1> HIDE DEF spans
<1>2. spans \in Seq(KeyWindows) /\ Spread(spans) /\ n \in Nat /\ DOMAIN spans = 1..n
  BY <1>1 DEF SpreadSpans
<1>3. \A j \in 1..n : spans[j] \in KeyWindows  BY <1>2
<1>4. \A j \in 1..n : Mark(j) \in Int  BY ScoreTyped
<1> HIDE DEF Mark
<1>5. \A j \in 1..n : Hit(j) \in HitType
  <2> TAKE j \in 1..n
  <2>1. spans[j].pos \in Int /\ spans[j].start \in Int /\ spans[j].end \in Int
    BY <1>3, WindowHas
  <2> QED  BY <1>4, <2>1 DEF HitType
<1>6. group = [j \in 1..n |-> Hit(j)]
  BY <1>2 DEF WindowGroup, spans, Mark
<1>7. \A j \in 1..n : Hit(j).keyword = keyword /\ Hit(j).start = spans[j].start /\ Hit(j).end = spans[j].end
  OBVIOUS
<1> HIDE DEF Hit, group, n
<1>8. group \in [1..n -> HitType] /\ \A j \in 1..n : group[j] = Hit(j)  BY <1>5, <1>6
<1>9. group \in Seq(HitType) /\ Len(group) = n  BY <1>2, <1>8
<1>10. GroupOf(group, keyword)  BY <1>7, <1>8, <1>9 DEF GroupOf
<1>11. Spread(group)  BY <1>2, <1>7, <1>8, <1>9 DEF Spread, n
<1>12. spans # <<>> => group # <<>>
  <2> HAVE spans # <<>>
  <2>1. Len(group) > 0  BY <1>2, <1>9 DEF n
  <2> QED  BY <2>1
<1> QED  BY <1>1, <1>10, <1>11, <1>12 DEF group

(* The chunks with a keyword are the hits of search_chunk_db.               *)
LEMMA ChunkGroupHas ==
  ASSUME NEW Y, \A y \in Y : y.start \in Int /\ y.end \in Int, NEW chunkRows \in Seq(Y),
         NEW query, query.keywords \in Seq(CellKinds), NEW keyword \in CellKinds
  PROVE  LET group == ChunkGroup(chunkRows, query, keyword)
         IN /\ GroupOf(group, keyword)
            /\ /\ \E c \in DOMAIN chunkRows : Holds(chunkRows[c].text, keyword)
               /\ \E i \in DOMAIN query.keywords : query.keywords[i] = keyword
               => group # <<>>
<1> DEFINE n == Len(chunkRows)
           S == {c \in DOMAIN chunkRows : Holds(chunkRows[c].text, keyword)}
           T == TimesAsked(query, keyword)
           k == Cardinality(T)
           once == ChunksWith(chunkRows, keyword)
           reps == [m \in 1..k |-> once]
           at == ChunkPlaces(chunkRows, query, keyword)
           group == ChunkGroup(chunkRows, query, keyword)
<1>1. n \in Nat /\ DOMAIN chunkRows = 1..n /\ \A c \in 1..n : chunkRows[c] \in Y  OBVIOUS
<1>2. S \in SUBSET (1..n) /\ IsFiniteSet(1..n)  BY <1>1, IntervalSize
<1>3. IsFiniteSet(S) /\ S \subseteq Int  BY <1>2, FS_Subset
<1>4. once = Ordered(S)  BY DEF ChunksWith
<1> HIDE DEF S, once
<1>5. once \in Seq(S) /\ \A x \in S : \E j \in 1..Len(once) : once[j] = x
  BY <1>3, <1>4, OrderedOnto
<1>6. once \in Seq(1..n)  BY <1>2, <1>5, WithinSeq
<1>7. T \in SUBSET (1..Len(query.keywords)) /\ Len(query.keywords) \in Nat
  BY DEF TimesAsked
<1>8. IsFiniteSet(T) /\ k \in Nat
  <2>1. IsFiniteSet(1..Len(query.keywords))  BY <1>7, IntervalSize
  <2> QED  BY <1>7, <2>1, FS_Subset, FS_CardinalityType
<1>9. (\E i \in DOMAIN query.keywords : query.keywords[i] = keyword) => k > 0
  <2> HAVE \E i \in DOMAIN query.keywords : query.keywords[i] = keyword
  <2>1. T # {}  BY DEF TimesAsked
  <2>2. k # 0
    <3> SUFFICES ASSUME k = 0 PROVE FALSE  OBVIOUS
    <3> QED  BY <1>8, <2>1, FS_EmptySet
  <2> QED  BY <1>8, <2>2
<1>10. at = FlattenSeq(reps)  BY DEF ChunkPlaces, once, T
<1> HIDE DEF T, k
<1> DEFINE A == Seq(1..n)
<1>11. reps \in Seq(A) /\ Len(reps) = k /\ \A m \in 1..k : reps[m] = once
  <2>1. once \in A  BY <1>6
  <2> HIDE DEF A
  <2>2. reps \in [1..k -> A]  BY <2>1
  <2> QED  BY <1>8, <2>2
<1> HIDE DEF reps, at
<1>12. /\ at \in Seq(1..n)
       /\ \A m \in 1..k : \A x \in 1..Len(reps[m]) : \E y \in 1..Len(at) : at[y] = reps[m][x]
  BY <1>10, <1>11, FlattenHas
<1>13. S # {} /\ k > 0 => Len(at) > 0
  <2> HAVE S # {} /\ k > 0
  <2>1. PICK x \in S : TRUE  OBVIOUS
  <2>2. PICK j \in 1..Len(once) : once[j] = x  BY <1>5
  <2>3. 1 \in 1..k  BY <1>8
  <2>4. PICK y \in 1..Len(at) : at[y] = reps[1][j]  BY <1>11, <1>12, <2>2, <2>3
  <2>5. Len(at) \in Nat  BY <1>12
  <2> QED  BY <2>4, <2>5
<1> DEFINE l == Len(at)
           Mark(j) == Score(chunkRows[at[j]].text, query.keywords, chunkRows)
           Hit(j) == [keyword |-> keyword, pos |-> at[j], start |-> chunkRows[at[j]].start,
                      end |-> chunkRows[at[j]].end, score |-> Mark(j)]
<1>14. l \in Nat /\ DOMAIN at = 1..l /\ \A j \in 1..l : at[j] \in 1..n  BY <1>12
<1>15. \A j \in 1..l : Mark(j) \in Int  BY ScoreTyped
<1> HIDE DEF Mark
<1>16. \A j \in 1..l : Hit(j) \in HitType
  <2> TAKE j \in 1..l
  <2>1. at[j] \in Int /\ chunkRows[at[j]] \in Y  BY <1>1, <1>14
  <2>2. chunkRows[at[j]].start \in Int /\ chunkRows[at[j]].end \in Int  BY <2>1
  <2> QED  BY <1>15, <2>1, <2>2 DEF HitType
<1>17. \A j \in 1..l : Hit(j).keyword = keyword  OBVIOUS
<1>18. group = [j \in 1..l |-> Hit(j)]
  BY <1>14 DEF ChunkGroup, at, Mark
<1> HIDE DEF Hit, group, l
<1>19. group \in [1..l -> HitType] /\ \A j \in 1..l : group[j] = Hit(j)  BY <1>16, <1>18
<1>20. group \in Seq(HitType) /\ Len(group) = l  BY <1>14, <1>19
<1>21. GroupOf(group, keyword)  BY <1>17, <1>19, <1>20 DEF GroupOf
<1>22. S # {} /\ k > 0 => group # <<>>
  <2> HAVE S # {} /\ k > 0
  <2>1. Len(group) > 0  BY <1>13, <1>20 DEF l
  <2> QED  BY <2>1
<1>23. (\E c \in DOMAIN chunkRows : Holds(chunkRows[c].text, keyword)) => S # {}
  BY DEF S
<1> QED  BY <1>9, <1>21, <1>22, <1>23 DEF group

(* The groups of the keywords, each keyword once.                           *)
GroupsFor(doc, chunkRows, query) ==
  IF query.method = "chunk_db" THEN ChunkHits(chunkRows, query)
  ELSE WindowHits(doc, chunkRows, query)
KeywordOf(query, g) == query.keywords[Firsts(query.keywords)[g]]
Occurring(doc, chunkRows, query, keyword) ==
  \/ query.method = "context" /\ Holds(CellsOf(doc), keyword)
  \/ query.method = "chunk_db" /\ \E c \in DOMAIN chunkRows : Holds(chunkRows[c].text, keyword)
GroupHas(group, doc, chunkRows, query, keyword) ==
  /\ GroupOf(group, keyword)
  /\ query.method # "chunk_db" => Spread(group)
  /\ Occurring(doc, chunkRows, query, keyword) => group # <<>>
GroupsAre(groups, doc, chunkRows, query) ==
  /\ groups \in Seq(Seq(HitType)) /\ Len(groups) = Len(Firsts(query.keywords))
  /\ \A g \in 1..Len(groups) : GroupHas(groups[g], doc, chunkRows, query, KeywordOf(query, g))

(* There is a group for each keyword, with hits if the keyword occurs.      *)
LEMMA GroupsFound ==
  ASSUME NEW doc \in Seq(CellKinds),
         NEW Y, \A y \in Y : y.start \in Int /\ y.end \in Int, NEW chunkRows \in Seq(Y),
         NEW query, query.keywords \in Seq(CellKinds)
  PROVE  GroupsAre(GroupsFor(doc, chunkRows, query), doc, chunkRows, query)
<1> DEFINE firsts == Firsts(query.keywords)
           n == Len(firsts)
           groups == GroupsFor(doc, chunkRows, query)
<1>1. /\ firsts \in Seq(1..Len(query.keywords)) /\ n \in Nat
  BY FirstsAre
<1>2. DOMAIN firsts = 1..n /\ \A g \in 1..n : firsts[g] \in 1..Len(query.keywords)
  <2> HIDE DEF firsts
  <2> QED  BY <1>1
<1>3. \A g \in 1..n : /\ KeywordOf(query, g) \in CellKinds
                      /\ \E i \in DOMAIN query.keywords : query.keywords[i] = KeywordOf(query, g)
  BY <1>2 DEF KeywordOf
<1>4. \A g \in 1..n : KeywordOf(query, g) = query.keywords[firsts[g]]  BY DEF KeywordOf
<1>5. CASE query.method = "chunk_db"
  <2> DEFINE Group(g) == ChunkGroup(chunkRows, query, KeywordOf(query, g))
  <2>1. groups = [g \in 1..n |-> Group(g)]
    BY <1>2, <1>5 DEF GroupsFor, ChunkHits, ChunkGroup, ChunkPlaces, ChunksWith, TimesAsked, KeywordOf
  <2>2. \A g \in 1..n : GroupHas(Group(g), doc, chunkRows, query, KeywordOf(query, g))
    <3> TAKE g \in 1..n
    <3> DEFINE kw == KeywordOf(query, g)
    <3>1. kw \in CellKinds /\ \E i \in DOMAIN query.keywords : query.keywords[i] = kw  BY <1>3
    <3> HIDE DEF kw
    <3>2. /\ GroupOf(ChunkGroup(chunkRows, query, kw), kw)
          /\ (\E c \in DOMAIN chunkRows : Holds(chunkRows[c].text, kw))
               => ChunkGroup(chunkRows, query, kw) # <<>>
      BY <3>1, ChunkGroupHas
    <3>3. Occurring(doc, chunkRows, query, kw) => \E c \in DOMAIN chunkRows : Holds(chunkRows[c].text, kw)
      BY <1>5 DEF Occurring
    <3>4. GroupHas(ChunkGroup(chunkRows, query, kw), doc, chunkRows, query, kw)
      BY <1>5, <3>2, <3>3 DEF GroupHas
    <3> QED  BY <3>4 DEF kw
  <2> HIDE DEF Group, groups, n
  <2>3. \A g \in 1..n : Group(g) \in Seq(HitType)  BY <2>2 DEF GroupHas, GroupOf
  <2> DEFINE A == Seq(HitType)
  <2>4. groups \in Seq(A) /\ Len(groups) = n /\ \A g \in 1..n : groups[g] = Group(g)
    <3>1. \A g \in 1..n : Group(g) \in A  BY <2>3
    <3> HIDE DEF A
    <3>2. groups \in [1..n -> A]  BY <2>1, <3>1
    <3> QED  BY <1>1, <2>1, <3>2
  <2> QED  BY <2>2, <2>4 DEF GroupsAre, n, groups
<1>6. CASE query.method # "chunk_db"
  <2> DEFINE Group(g) == WindowGroup(doc, chunkRows, query, KeywordOf(query, g))
  <2>1. groups = [g \in 1..n |-> Group(g)]
    BY <1>2, <1>6 DEF GroupsFor, WindowHits, WindowGroup, SpansOfKeyword, LongEnough, WindowsAt, KeywordOf
  <2>2. \A g \in 1..n : GroupHas(Group(g), doc, chunkRows, query, KeywordOf(query, g))
    <3> TAKE g \in 1..n
    <3> DEFINE kw == KeywordOf(query, g)
    <3>1. kw \in CellKinds  BY <1>3
    <3> HIDE DEF kw
    <3>2. /\ GroupOf(WindowGroup(doc, chunkRows, query, kw), kw)
          /\ Spread(WindowGroup(doc, chunkRows, query, kw))
          /\ query.method = "context" /\ Holds(CellsOf(doc), kw)
               => WindowGroup(doc, chunkRows, query, kw) # <<>>
      BY <3>1, WindowGroupHas
    <3>3. Occurring(doc, chunkRows, query, kw) => query.method = "context" /\ Holds(CellsOf(doc), kw)
      BY <1>6 DEF Occurring
    <3>4. GroupHas(WindowGroup(doc, chunkRows, query, kw), doc, chunkRows, query, kw)
      BY <3>2, <3>3 DEF GroupHas
    <3> QED  BY <3>4 DEF kw
  <2> HIDE DEF Group, groups, n
  <2>3. \A g \in 1..n : Group(g) \in Seq(HitType)  BY <2>2 DEF GroupHas, GroupOf
  <2> DEFINE A == Seq(HitType)
  <2>4. groups \in Seq(A) /\ Len(groups) = n /\ \A g \in 1..n : groups[g] = Group(g)
    <3>1. \A g \in 1..n : Group(g) \in A  BY <2>3
    <3> HIDE DEF A
    <3>2. groups \in [1..n -> A]  BY <2>1, <3>1
    <3> QED  BY <1>1, <2>1, <3>2
  <2> QED  BY <2>2, <2>4 DEF GroupsAre, n, groups
<1> QED  BY <1>5, <1>6

(* What a search by keyword returns: hits that are places in the text, of   *)
(* every keyword that occurs if the limits leave room, and windows of one   *)
(* keyword apart.                                                           *)
KeepsEach(hits, doc, chunkRows, query) ==
  query.maxResults > 0 /\ (query.maxTotal = 0 \/ query.maxTotal >= Len(query.keywords)) =>
    \A i \in 1..Len(query.keywords) :
      Occurring(doc, chunkRows, query, query.keywords[i]) =>
        \E y \in 1..Len(hits) : hits[y].keyword = query.keywords[i]
KeepsApart(hits) ==
  \A y, z \in 1..Len(hits) : y # z /\ hits[y].keyword = hits[z].keyword =>
    hits[y].end < hits[z].start \/ hits[z].end < hits[y].start

(* So much holds of every search by keyword.                                *)
LEMMA FoundHas ==
  ASSUME NEW doc \in Seq(CellKinds),
         NEW Y, \A y \in Y : y.start \in Int /\ y.end \in Int, NEW chunkRows \in Seq(Y),
         NEW query, query.keywords \in Seq(CellKinds), query.order \in Orders3,
         query.maxResults \in Nat, query.maxTotal \in Nat
  PROVE  LET hits == Found(doc, chunkRows, query)
         IN /\ hits \in Seq(HitType) /\ KeepsEach(hits, doc, chunkRows, query)
            /\ query.method # "chunk_db" => KeepsApart(hits)
<1> DEFINE groups == GroupsFor(doc, chunkRows, query)
           hits == Ranked(groups, query.order, query.maxResults, query.maxTotal)
           firsts == Firsts(query.keywords)
           n == Len(groups)
<1>1. Found(doc, chunkRows, query) = hits  BY DEF Found, GroupsFor
<1>2. GroupsAre(groups, doc, chunkRows, query)  BY GroupsFound
<1>3. Sortable(HitType)  BY DEF Sortable, HitType
<1>4. groups \in Seq(Seq(HitType))  BY <1>2 DEF GroupsAre
<1> HIDE DEF groups, hits
<1>5. /\ hits \in Seq(HitType)
      /\ \E h : EachTaken(hits, groups, query.maxResults, query.maxTotal, h)
  <2>1. query.order \in Orders3 /\ query.maxResults \in Nat /\ query.maxTotal \in Nat  OBVIOUS
  <2> QED  BY <1>3, <1>4, <2>1, RankedTaken DEF hits
<1>6. PICK h : /\ Taken(hits, groups, h)
               /\ query.maxResults > 0 /\ (query.maxTotal = 0 \/ query.maxTotal >= n) =>
                    \A g \in 1..n : groups[g] # <<>> => \E y \in 1..Len(hits) : h[y].row = g
  BY <1>5 DEF EachTaken
<1>7. /\ firsts \in Seq(1..Len(query.keywords)) /\ Len(firsts) \in Nat /\ Len(firsts) <= Len(query.keywords)
      /\ \A i \in 1..Len(query.keywords) : \E g \in 1..Len(firsts) : query.keywords[firsts[g]] = query.keywords[i]
      /\ \A g, f \in 1..Len(firsts) : g # f => query.keywords[firsts[g]] # query.keywords[firsts[f]]
  BY FirstsAre
<1>8. n = Len(firsts) /\ \A g \in 1..n : KeywordOf(query, g) = query.keywords[firsts[g]]
  BY <1>2 DEF GroupsAre, KeywordOf
<1>9. \A g \in 1..n : GroupHas(groups[g], doc, chunkRows, query, KeywordOf(query, g))
  BY <1>2 DEF GroupsAre
<1> HIDE DEF firsts, n
<1>10. \A y \in 1..Len(hits) : /\ h[y].row \in 1..n
                               /\ hits[y].keyword = KeywordOf(query, h[y].row)
  <2> TAKE y \in 1..Len(hits)
  <2>1. /\ h[y].row \in 1..n /\ h[y].col \in 1..Len(groups[h[y].row])
        /\ hits[y] = groups[h[y].row][h[y].col]
    BY <1>6 DEF Taken, n
  <2>2. GroupOf(groups[h[y].row], KeywordOf(query, h[y].row))  BY <1>9, <2>1 DEF GroupHas
  <2> QED  BY <2>1, <2>2 DEF GroupOf
<1>11. KeepsEach(hits, doc, chunkRows, query)
  <2> SUFFICES ASSUME query.maxResults > 0, query.maxTotal = 0 \/ query.maxTotal >= Len(query.keywords),
                      NEW i \in 1..Len(query.keywords),
                      Occurring(doc, chunkRows, query, query.keywords[i])
               PROVE  \E y \in 1..Len(hits) : hits[y].keyword = query.keywords[i]
    BY DEF KeepsEach
  <2>1. PICK g \in 1..n : query.keywords[firsts[g]] = query.keywords[i]  BY <1>7, <1>8
  <2>2. KeywordOf(query, g) = query.keywords[i]  BY <1>8, <2>1
  <2>3. groups[g] # <<>>  BY <1>9, <2>2 DEF GroupHas
  <2>4. query.maxTotal = 0 \/ query.maxTotal >= n
    <3>1. Len(query.keywords) \in Nat  OBVIOUS
    <3> QED  BY <1>7, <1>8, <3>1
  <2>5. PICK y \in 1..Len(hits) : h[y].row = g  BY <1>6, <2>3, <2>4
  <2> QED  BY <1>10, <2>2, <2>5
<1>12. ASSUME query.method # "chunk_db" PROVE KeepsApart(hits)
  <2> SUFFICES ASSUME NEW y \in 1..Len(hits), NEW z \in 1..Len(hits), y # z,
                      hits[y].keyword = hits[z].keyword
               PROVE  hits[y].end < hits[z].start \/ hits[z].end < hits[y].start
    BY DEF KeepsApart
  <2> DEFINE g == h[y].row
             a == h[y].col
             b == h[z].col
  <2>1. KeywordOf(query, h[y].row) = KeywordOf(query, h[z].row)  BY <1>10
  <2>2. h[z].row = g
    <3>1. h[y].row \in 1..n /\ h[z].row \in 1..n  BY <1>10
    <3>2. query.keywords[firsts[h[y].row]] = query.keywords[firsts[h[z].row]]  BY <1>8, <2>1, <3>1
    <3> QED  BY <1>7, <1>8, <3>1, <3>2
  <2>3. /\ g \in 1..n /\ a \in 1..Len(groups[g]) /\ b \in 1..Len(groups[g])
        /\ hits[y] = groups[g][a] /\ hits[z] = groups[g][b]
    BY <1>6, <2>2 DEF Taken, n
  <2>4. a # b
    <3>1. h[y] # h[z] /\ h[y] \in [row : Nat, col : Nat] /\ h[z] \in [row : Nat, col : Nat]
      BY <1>6 DEF Taken
    <3>2. ASSUME h[y].row = h[z].row, h[y].col = h[z].col PROVE FALSE  BY ONLY <3>1, <3>2
    <3> QED  BY <2>2, <3>2
  <2>5. Spread(groups[g]) /\ GroupOf(groups[g], KeywordOf(query, g))  BY <1>9, <1>12, <2>3 DEF GroupHas
  <2>6. Len(groups[g]) \in Nat  BY <2>5 DEF GroupOf
  <2> HIDE DEF g, a, b
  <2>7. a < b \/ b < a  BY <2>3, <2>4, <2>6
  <2> QED  BY <2>3, <2>5, <2>7 DEF Spread
<1> QED  BY <1>1, <1>5, <1>11, <1>12

(* The rows of file_chunk have places.                                      *)
LEMMA ChunksPlaced ==
  ASSUME IndexInv
  PROVE  \E Y : chunks \in Seq(Y) /\ \A y \in Y : y.start \in Int /\ y.end \in Int
<1>1. PICK n \in Nat :
        /\ DOMAIN chunks = 1..n
        /\ \A c \in 1..n : \E p \in Proper(input.doc, NameSlack, input.cut) :
             chunks[c].text = p.text /\ chunks[c].start = p.start /\ chunks[c].end = p.end
  BY ChunksProper
<1> DEFINE Y == {chunks[c] : c \in 1..n}
<1>2. \A y \in Y : y.start \in Int /\ y.end \in Int
  <2> SUFFICES ASSUME NEW c \in 1..n PROVE chunks[c].start \in Int /\ chunks[c].end \in Int
    OBVIOUS
  <2>1. PICK p \in Proper(input.doc, NameSlack, input.cut) :
          chunks[c].start = p.start /\ chunks[c].end = p.end
    BY <1>1
  <2> QED  BY <2>1, OfProper
<1>3. chunks \in [1..n -> Y]
  <2>1. CASE current = 0
    <3>1. chunks = <<>>  BY <2>1 DEF IndexInv, ChunksOK
    <3>2. 1..n = {}  BY <1>1, <3>1
    <3> QED  BY <3>1, <3>2
  <2>2. CASE current > 0
    <3> DEFINE cut == Chunks(input.doc, input.named, input.cut)
    <3>1. chunks = WithPages(cut, pages)  BY <2>2 DEF IndexInv, ChunksOK
    <3> HIDE DEF cut
    <3>2. chunks \in [DOMAIN chunks -> {chunks[c] : c \in DOMAIN chunks}]  BY <3>1 DEF WithPages
    <3> QED  BY <1>1, <3>2
  <2>3. current \in Nat
    <3>1. current \in {0} \union Calls  BY DEF IndexInv, EmbeddingIInv, StageOK
    <3> QED  BY <3>1, CallsNumbered, FS_CardinalityType
  <2> QED  BY <2>1, <2>2, <2>3
<1>4. chunks \in Seq(Y)  BY <1>3
<1> QED  BY <1>2, <1>4

(* A search by keyword keeps every keyword and does not inject twice.       *)
LEMMA WordsKept ==
  ASSUME IndexInv
  PROVE  EveryKeywordKept
<1> SUFFICES ASSUME answer.method \in KeywordMethods
             PROVE  EveryKeywordKept
  BY DEF EveryKeywordKept
<1>1. ByWords
  <2>1. answer # None  BY DEF None, KeywordMethods
  <2>2. ~ByVectors
    <3> SUFFICES ASSUME ByVectors PROVE FALSE  OBVIOUS
    <3>1. answer.method = "vector_db"  BY DEF ByVectors
    <3> QED  BY <3>1 DEF KeywordMethods
  <2>3. ~ByPages  BY DEF ByPages, KeywordMethods
  <2> QED  BY <2>1, <2>2, <2>3 DEF IndexInv, AnswerOK
<1>2. PICK q \in input.queries :
        /\ q.method \in KeywordMethods
        /\ answer = [method |-> q.method, query |-> q, hits |-> Found(input.doc, chunks, q)]
  BY <1>1 DEF ByWords
<1> DEFINE hits == Found(input.doc, chunks, q)
<1>3. answer.query = q /\ answer.hits = hits /\ answer.method = q.method  BY <1>2
<1>4. QueryOK(q)  BY DEF IndexInv, InputOK
<1>5. /\ q.keywords \in Seq(CellKinds) /\ q.order \in Orders3
      /\ q.maxResults \in Nat /\ q.maxTotal \in Nat
  BY <1>2, <1>4 DEF QueryOK, KeywordMethods, Orders3
<1>6. PICK Y : chunks \in Seq(Y) /\ \A y \in Y : y.start \in Int /\ y.end \in Int
  BY ChunksPlaced
<1>7. input.doc \in Seq(CellKinds)  BY DEF IndexInv, InputOK
<1>8. /\ hits \in Seq(HitType) /\ KeepsEach(hits, input.doc, chunks, q)
      /\ q.method # "chunk_db" => KeepsApart(hits)
  BY <1>5, <1>6, <1>7, FoundHas
<1> HIDE DEF hits
<1>9. DOMAIN hits = 1..Len(hits)  BY <1>8
<1>10. DOMAIN q.keywords = 1..Len(q.keywords)  BY <1>5
<1>11. \A keyword : Occurs(q, keyword) => Occurring(input.doc, chunks, q, keyword)
  BY <1>2 DEF Occurs, Occurring, KeywordMethods
<1>12. ASSUME q.maxResults > 0, q.maxTotal = 0 \/ q.maxTotal >= Len(q.keywords),
              NEW g \in DOMAIN q.keywords, Occurs(q, q.keywords[g])
       PROVE  \E j \in DOMAIN hits : hits[j].keyword = q.keywords[g]
  BY <1>8, <1>9, <1>10, <1>11, <1>12 DEF KeepsEach
<1>13. ASSUME q.method # "chunk_db", NEW i \in DOMAIN hits, NEW j \in DOMAIN hits,
              i # j, hits[i].keyword = hits[j].keyword
       PROVE  hits[i].end < hits[j].start \/ hits[j].end < hits[i].start
  BY <1>8, <1>9, <1>13 DEF KeepsApart
<1> QED  BY <1>3, <1>12, <1>13 DEF EveryKeywordKept

(* The search by vectors returns the best chunks.                           *)
LEMMA ParentsKept ==
  ASSUME IndexInv
  PROVE  BestParents
<1> SUFFICES ASSUME answer.method = "vector_db"
             PROVE  BestParents
  BY DEF BestParents
<1>1. ByVectors
  <2>1. answer # None  BY DEF None
  <2>2. ~ByWords  BY DEF ByWords, KeywordMethods
  <2>3. ~ByPages  BY DEF ByPages
  <2> QED  BY <2>1, <2>2, <2>3 DEF IndexInv, AnswerOK
<1> DEFINE parents == [i \in DOMAIN stored |-> [parent |-> ParentOf(i)]]
           n == Len(stored)
           P == ParentsOf(parents)
<1>2. PICK q \in input.queries, score \in [DOMAIN stored -> Scores] :
        /\ q.method = "vector_db"
        /\ answer = [method |-> q.method, query |-> q, score |-> score,
                     hits |-> ParentHits(parents, score, q.floor, q.ratio, q.maxResults)]
  BY <1>1 DEF ByVectors
<1> DEFINE hits == ParentHits(parents, score, q.floor, q.ratio, q.maxResults)
           best == [p \in P |-> BestOf(parents, score, p)]
<1>3. answer.query = q /\ answer.hits = hits /\ answer.score = score  BY <1>2
<1>4. q.floor \in Int /\ q.ratio \in Nat /\ q.maxResults \in Nat
  <2>1. QueryOK(q)  BY DEF IndexInv, InputOK
  <2> QED  BY <1>2, <2>1 DEF QueryOK, KeywordMethods
<1>5. n \in Nat /\ DOMAIN stored = 1..n
  <2>1. RowsOK(Seq(Cell))  BY DEF IndexInv, EmbeddingIInv
  <2> DEFINE R == Row(Seq(Cell))
  <2>2. stored \in Seq(R)  BY <2>1 DEF RowsOK
  <2> HIDE DEF R
  <2> QED  BY <2>2
<1>6. score \in [1..n -> Int]
  <2>1. score \in [1..n -> Scores]  BY <1>2, <1>5
  <2> QED  BY <2>1, ScoresNumbers
<1>7. DOMAIN parents = 1..n /\ \A i \in 1..n : parents[i].parent = ParentOf(i)  BY <1>5
<1> HIDE DEF parents, n, hits, best
<1>8. Topmost(hits, best, P) /\ Len(hits) <= q.maxResults
  BY <1>4, <1>5, <1>6, <1>7, HitsAreBest DEF hits, best
<1>9. P = {ParentOf(i) : i \in DOMAIN stored}  BY <1>5, <1>7 DEF ParentsOf
<1>10. \A p \in P : best[p] = Most({score[i] : i \in {j \in DOMAIN stored : ParentOf(j) = p}})
  <2> TAKE p \in P
  <2>1. {j \in DOMAIN parents : parents[j].parent = p} = {j \in DOMAIN stored : ParentOf(j) = p}
    BY <1>5, <1>7
  <2>2. best[p] = BestOf(parents, score, p)  BY DEF best
  <2> QED  BY <2>1, <2>2 DEF BestOf
<1>11. /\ hits \in Seq(P)
       /\ \A i, j \in 1..Len(hits) : i < j => hits[i] # hits[j]
       /\ \A p \in P : (\A i \in 1..Len(hits) : hits[i] # p) => \A i \in 1..Len(hits) : best[p] <= best[hits[i]]
  BY <1>8 DEF Topmost
<1> DEFINE got == {hits[j] : j \in DOMAIN hits}
           m == Len(hits)
           f == [j \in 1..m |-> hits[j]]
<1> HIDE DEF P
<1>12. m \in Nat /\ DOMAIN hits = 1..m /\ \A j \in 1..m : hits[j] \in P  BY <1>11
<1>13. Cardinality(got) = m
  <2>1. IsFiniteSet(1..m) /\ Cardinality(1..m) = m  BY <1>12, IntervalSize
  <2>2. \A i, j \in 1..m : i # j => hits[i] # hits[j]
    <3> TAKE i, j \in 1..m
    <3> HAVE i # j
    <3>1. i < j \/ j < i  BY <1>12
    <3> QED  BY <1>11, <3>1
  <2> HIDE DEF m
  <2>3. f \in Bijection(1..m, got)
    <3>1. f \in [1..m -> got]  BY <1>12
    <3>2. \A i, j \in 1..m : f[i] = f[j] => i = j  BY <2>2
    <3>3. \A x \in got : \E j \in 1..m : f[j] = x  BY <1>12
    <3> HIDE DEF f, got
    <3> QED  BY <3>1, <3>2, <3>3 DEF Bijection, Injection, Surjection, IsInjective
  <2> HIDE DEF f, got
  <2>4. Cardinality(got) = Cardinality(1..m)  BY <2>1, <2>3, FS_Bijection DEF ExistsBijection
  <2> QED  BY <2>1, <2>4
<1>14. \A p \in P \ got : \A r \in got : r \in P /\ best[p] <= best[r]
  BY <1>11, <1>12
<1> HIDE DEF got, m
<1>15. got = {answer.hits[j] : j \in DOMAIN answer.hits} /\ m = Len(answer.hits)
  BY <1>3 DEF got, m
<1>16. Cardinality({answer.hits[j] : j \in DOMAIN answer.hits}) = Len(answer.hits)
  BY <1>13, <1>15
<1>17. Len(answer.hits) <= answer.query.maxResults  BY <1>3, <1>8
<1> DEFINE Of(p) == Most({answer.score[i] : i \in {j \in DOMAIN stored : ParentOf(j) = p}})
<1>18. \A p \in P : best[p] = Of(p)  BY <1>3, <1>10
<1> HIDE DEF Of
<1>19. \A p \in P \ got : \A r \in got : Of(p) <= Of(r)
  BY <1>14, <1>18
<1>20. \A p \in {ParentOf(i) : i \in DOMAIN stored} \ {answer.hits[j] : j \in DOMAIN answer.hits} :
         \A r \in {answer.hits[j] : j \in DOMAIN answer.hits} : Of(p) <= Of(r)
  BY <1>9, <1>15, <1>19
<1> QED  BY <1>16, <1>17, <1>20 DEF BestParents, Of

(* Within the limits every keyword that occurs has a hit, and windows of a  *)
(* keyword do not meet (EveryKeywordKept), whatever the text, the chunks,   *)
(* the order and the widths.                                                *)
THEOREM KeywordsAreKept == IndexSpec => []EveryKeywordKept
BY IndexInvariant, WordsKept, PTL

(* The search by vectors returns each chunk once and the best ones          *)
(* (BestParents), whatever the similarities, the floor and the ratio.       *)
THEOREM ParentsAreBest == IndexSpec => []BestParents
BY IndexInvariant, ParentsKept, PTL
=============================================================================

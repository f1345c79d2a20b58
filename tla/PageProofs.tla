----------------------------- MODULE PageProofs -----------------------------
(***************************************************************************)
(* Proofs about the pages of a document (module PageMap), for every layout, *)
(* wherever its blocks are found in the text, and the theorem they complete:*)
(* what was parsed can be found (DocumentSearchable).                       *)
(*                                                                         *)
(* A mapping is right if neither position nor page decreases along it; then *)
(* the last anchor before a position is as far as its page goes.  The first *)
(* round has this from _longest_nondecreasing_keep, whatever the blocks     *)
(* gave.  The anchors that are added keep it: each lies between two that    *)
(* stand next to each other, of blocks on pages between theirs.             *)
(* From it follow the labels of spans, the slices of pages, which meet      *)
(* nowhere, and that blocks which are found once, whole and in their order  *)
(* have their own page: then the first round has nothing to leave out, and  *)
(* nothing is left to add.                                                  *)
(***************************************************************************)
EXTENDS SearchProofs

-----------------------------------------------------------------------------
(* Anchors on pages that do not decrease *)

(* The step of _longest_nondecreasing_keep: the anchor that ends the        *)
(* longest row it can end.                                                  *)
Below(found, tails, i) == {k \in DOMAIN tails : found[tails[k]].page <= found[i].page}
AddTo(found, acc, i) ==
  LET n == Cardinality(Below(found, acc.tails, i))
  IN [tails |-> IF n = Len(acc.tails) THEN Append(acc.tails, i)
                ELSE [acc.tails EXCEPT ![n + 1] = i],
      before |-> Append(acc.before, IF n = 0 THEN 0 ELSE acc.tails[n])]

(* The tails have their pages in order, and each anchor is after one whose  *)
(* page is not greater, or after none.                                      *)
KeepSet(n) == [tails : Seq(1..n), before : Seq(0..n)]
KeepInv(found, acc, i) ==
  /\ acc.tails \in Seq(1..i) /\ (i > 0 => Len(acc.tails) > 0)
  /\ \A k, l \in 1..Len(acc.tails) : k < l => found[acc.tails[k]].page <= found[acc.tails[l]].page
  /\ Len(acc.before) = i
  /\ \A k \in 1..i : /\ acc.before[k] \in 0..k - 1
                     /\ acc.before[k] # 0 => found[acc.before[k]].page <= found[k].page

(* A set of indices that has all below each of its own is an interval.      *)
LEMMA DownClosed ==
  ASSUME NEW l \in Nat, NEW K \in SUBSET (1..l), \A k \in K : \A j \in 1..k : j \in K
  PROVE  Cardinality(K) \in 0..l /\ K = 1..Cardinality(K)
<1>1. CASE K = {}
  <2>1. Cardinality(K) = 0  BY <1>1, FS_EmptySet
  <2> QED  BY <1>1, <2>1
<1>2. CASE K # {}
  <2>1. IsFiniteSet(K) /\ K \subseteq Int
    <3>1. IsFiniteSet(1..l)  BY IntervalSize
    <3>2. IsFiniteSet(K)  BY <3>1, FS_Subset
    <3> QED  BY <3>2
  <2>2. Most(K) \in K /\ \A x \in K : x <= Most(K)  BY <1>2, <2>1, GreatestOf
  <2> DEFINE m == Most(K)
  <2> HIDE DEF m
  <2>3. m \in K /\ (\A x \in K : x <= m) /\ m \in 1..l  BY <2>2 DEF m
  <2>4. K = 1..m
    <3>1. \A j \in 1..m : j \in K  BY <2>3
    <3>2. \A x \in K : x \in 1..l /\ x <= m  BY <2>3
    <3>3. \A x \in K : x \in 1..m  BY <2>3, <3>2
    <3> QED  BY <3>1, <3>3
  <2>5. m \in Nat /\ m \in 0..l  BY <2>3
  <2>6. Cardinality(1..m) = m  BY <2>5, IntervalSize
  <2>7. Cardinality(K) = m  BY <2>4, <2>6
  <2> QED  BY <2>4, <2>5, <2>7
<1> QED  BY <1>1, <1>2

(* A step keeps the types.                                                  *)
LEMMA AddToTyped ==
  ASSUME NEW n \in Nat, NEW found, NEW acc \in KeepSet(n), NEW i \in 1..n
  PROVE  AddTo(found, acc, i) \in KeepSet(n)
<1> DEFINE tails == acc.tails
           before == acc.before
           K == Below(found, tails, i)
           m == Cardinality(K)
<1>1. tails \in Seq(1..n) /\ before \in Seq(0..n) /\ Len(tails) \in Nat  BY DEF KeepSet
<1> HIDE DEF tails, before
<1>2. K \in SUBSET (1..Len(tails))  BY <1>1 DEF Below
<1>3. IsFiniteSet(1..Len(tails)) /\ Cardinality(1..Len(tails)) = Len(tails)  BY <1>1, IntervalSize
<1>4. m \in Nat /\ m <= Len(tails)  BY <1>2, <1>3, FS_Subset, FS_CardinalityType
<1> HIDE DEF K, m
<1>5. Append(tails, i) \in Seq(1..n)  BY <1>1
<1>6. m # Len(tails) => [tails EXCEPT ![m + 1] = i] \in Seq(1..n)
  <2> HAVE m # Len(tails)
  <2> DEFINE X == 1..n
             t == [tails EXCEPT ![m + 1] = i]
  <2>1. i \in X /\ tails \in Seq(X)  BY <1>1
  <2> HIDE DEF X
  <2>2. tails \in [1..Len(tails) -> X]  BY <2>1
  <2>3. t \in [1..Len(tails) -> X]  BY <2>1, <2>2
  <2> QED  BY <1>1, <2>3 DEF X
<1>7. (IF m = 0 THEN 0 ELSE tails[m]) \in 0..n
  <2>1. CASE m = 0  BY <2>1
  <2>2. CASE m # 0
    <3>1. tails[m] \in 1..n  BY <1>1, <1>4, <2>2
    <3> QED  BY <2>2, <3>1
  <2> QED  BY <2>1, <2>2
<1>8. Append(before, IF m = 0 THEN 0 ELSE tails[m]) \in Seq(0..n)  BY <1>1, <1>7
<1> DEFINE new == IF m = Len(tails) THEN Append(tails, i) ELSE [tails EXCEPT ![m + 1] = i]
           all == Append(before, IF m = 0 THEN 0 ELSE tails[m])
<1>9. AddTo(found, acc, i) = [tails |-> new, before |-> all]
  BY DEF AddTo, tails, before, K, m
<1>10. new \in Seq(1..n)  BY <1>5, <1>6
<1> HIDE DEF new, all
<1> DEFINE A == Seq(1..n)
           B == Seq(0..n)
<1>11. new \in A /\ all \in B /\ KeepSet(n) = [tails : A, before : B]
  BY <1>8, <1>10 DEF all, KeepSet
<1> HIDE DEF A, B
<1> QED  BY <1>9, <1>11

(* A step keeps the order of the tails and of the links.                    *)
LEMMA AddToKeeps ==
  ASSUME NEW n \in Nat, NEW found, \A j \in 1..n : found[j].page \in Int,
         NEW i \in 1..n, NEW acc \in KeepSet(n), KeepInv(found, acc, i - 1)
  PROVE  KeepInv(found, AddTo(found, acc, i), i)
<1> DEFINE tails == acc.tails
           before == acc.before
           K == Below(found, tails, i)
           m == Cardinality(K)
           l == Len(tails)
           last == IF m = 0 THEN 0 ELSE tails[m]
           new == IF m = l THEN Append(tails, i) ELSE [tails EXCEPT ![m + 1] = i]
           P(j) == found[j].page
<1>0. tails \in Seq(1..n) /\ before \in Seq(0..n)  BY DEF KeepSet
<1>1. /\ tails \in Seq(1..i - 1) /\ l \in Nat /\ DOMAIN tails = 1..l
      /\ \A k, j \in 1..l : k < j => P(tails[k]) <= P(tails[j])
      /\ Len(before) = i - 1
      /\ \A k \in 1..i - 1 : before[k] \in 0..k - 1 /\ (before[k] # 0 => P(before[k]) <= P(k))
  BY DEF KeepInv
<1>2. AddTo(found, acc, i) = [tails |-> new, before |-> Append(before, last)]
  BY DEF AddTo
<1>3. \A k \in 1..l : tails[k] \in 1..i - 1 /\ tails[k] \in 1..n /\ P(tails[k]) \in Int
  <2> DEFINE X == 1..i - 1
  <2>1. \A k \in 1..l : tails[k] \in X
    <3> HIDE DEF X, tails
    <3>1. tails \in Seq(X)  BY <1>1 DEF X
    <3> QED  BY <1>1, <3>1
  <2> QED  BY <2>1
<1>4. K = {k \in 1..l : P(tails[k]) <= P(i)}  BY <1>1 DEF Below
<1>5. P(i) \in Int  OBVIOUS
<1> HIDE DEF tails, before, l, K, P
<1>6. m \in 0..l /\ K = 1..m
  <2>1. K \in SUBSET (1..l)  BY <1>4
  <2>2. \A k \in K : \A j \in 1..k : j \in K
    <3> TAKE k \in K
    <3> TAKE j \in 1..k
    <3>1. k \in 1..l /\ P(tails[k]) <= P(i) /\ j \in 1..l  BY <1>1, <1>4
    <3>2. P(tails[j]) <= P(tails[k])
      <4>1. CASE j = k  BY <1>3, <3>1, <4>1
      <4>2. CASE j < k  BY <1>1, <3>1, <4>2
      <4> QED  BY <3>1, <4>1, <4>2
    <3> QED  BY <1>3, <1>4, <1>5, <3>1, <3>2
  <2> QED  BY <1>1, <2>1, <2>2, DownClosed
<1> HIDE DEF m
<1>7. \A k \in 1..l : k <= m <=> P(tails[k]) <= P(i)  BY <1>4, <1>6
<1>8. \A k \in 1..m : k \in 1..l  BY <1>1, <1>6
<1>9. /\ Len(new) = IF m = l THEN l + 1 ELSE l
      /\ \A k \in 1..Len(new) : new[k] = IF k = m + 1 THEN i ELSE tails[k]
      /\ new \in Seq(1..i) /\ Len(new) > 0
  <2>1. i \in 1..i /\ \A k \in 1..l : tails[k] \in 1..i  BY <1>3
  <2>2. tails \in Seq(1..i)
    <3>1. tails \in [1..l -> 1..i]  BY <1>1, <2>1
    <3> QED  BY <1>1, <3>1
  <2>3. CASE m = l
    <3>1. new = Append(tails, i)  BY <2>3
    <3> HIDE DEF new
    <3>2. new \in Seq(1..i) /\ Len(new) = l + 1  BY <1>1, <2>1, <2>2, <3>1 DEF l
    <3>3. \A k \in 1..l + 1 : new[k] = IF k = l + 1 THEN i ELSE tails[k]  BY <1>1, <2>2, <3>1 DEF l
    <3> QED  BY <1>1, <2>3, <3>2, <3>3
  <2>4. CASE m # l
    <3>1. new = [tails EXCEPT ![m + 1] = i] /\ m + 1 \in 1..l  BY <1>1, <1>6, <2>4
    <3> HIDE DEF new
    <3>2. new \in Seq(1..i) /\ Len(new) = l  BY <1>1, <2>1, <2>2, <3>1 DEF l
    <3>3. \A k \in 1..l : new[k] = IF k = m + 1 THEN i ELSE tails[k]  BY <1>1, <3>1
    <3> QED  BY <1>1, <2>4, <3>1, <3>2, <3>3
  <2> QED  BY <2>3, <2>4
<1> HIDE DEF new
<1>10. \A k, j \in 1..Len(new) : k < j => P(new[k]) <= P(new[j])
  <2> TAKE k, j \in 1..Len(new)
  <2> HAVE k < j
  <2>1. k \in 1..l \/ k = m + 1  BY <1>1, <1>6, <1>9
  <2>2. CASE j = m + 1
    <3>1. k \in 1..m /\ k # m + 1 /\ k \in 1..l  BY <1>6, <1>8, <2>2
    <3>2. P(tails[k]) <= P(i)  BY <1>7, <3>1
    <3> QED  BY <1>9, <2>2, <3>1, <3>2
  <2>3. CASE j # m + 1 /\ k = m + 1
    <3>1. j \in 1..l /\ ~(j <= m)  BY <1>1, <1>6, <1>9, <2>3
    <3>2. ~(P(tails[j]) <= P(i))  BY <1>7, <3>1
    <3>3. P(i) <= P(tails[j])  BY <1>3, <1>5, <3>1, <3>2
    <3> QED  BY <1>9, <2>3, <3>3
  <2>4. CASE j # m + 1 /\ k # m + 1
    <3>1. j \in 1..l /\ k \in 1..l  BY <1>1, <1>6, <1>9, <2>4
    <3> QED  BY <1>1, <1>9, <2>4, <3>1
  <2> QED  BY <2>2, <2>3, <2>4
<1>11. last \in 0..i - 1 /\ (last # 0 => P(last) <= P(i))
  <2>1. CASE m = 0  BY <2>1
  <2>2. CASE m # 0
    <3>1. m \in 1..l /\ m <= m  BY <1>1, <1>6, <2>2
    <3> QED  BY <1>3, <1>7, <2>2, <3>1
  <2> QED  BY <2>1, <2>2
<1> HIDE DEF last
<1> DEFINE all == Append(before, last)
<1>12. Len(all) = i /\ \A k \in 1..i : all[k] = IF k = i THEN last ELSE before[k]
  BY <1>0, <1>1
<1> HIDE DEF all
<1>13. \A k \in 1..i : all[k] \in 0..k - 1 /\ (all[k] # 0 => P(all[k]) <= P(k))
  <2> TAKE k \in 1..i
  <2>1. CASE k = i  BY <1>11, <1>12, <2>1
  <2>2. CASE k # i
    <3>1. k \in 1..i - 1  BY <2>2
    <3> QED  BY <1>1, <1>12, <2>2, <3>1
  <2> QED  BY <2>1, <2>2
<1>14. AddTo(found, acc, i) = [tails |-> new, before |-> all]  BY <1>2 DEF all
<1> QED  BY <1>9, <1>10, <1>12, <1>13, <1>14 DEF KeepInv, P

(* The rows of anchors that the links make.                                 *)
IsChain(f, n, b, found) ==
  f = [i \in 0..n |-> IF i = 0 THEN <<>> ELSE Append(f[b[i]], found[i])]

ChainUpTo(f, m, X, b, found) ==
  /\ f \in [0..m -> Seq(X)] /\ f[0] = <<>>
  /\ \A i \in 1..m : f[i] = Append(f[b[i]], found[i])

(* As each link goes back, the rows are defined.                            *)
LEMMA ChainExists ==
  ASSUME NEW X, NEW n \in Nat, NEW found \in [1..n -> X], NEW b,
         \A i \in 1..n : b[i] \in 0..i - 1
  PROVE  \E f : IsChain(f, n, b, found)
<1> DEFINE T == {m \in 0..n : \E f : ChainUpTo(f, m, X, b, found)}
<1>1. 0 \in T
  <2> DEFINE f == [i \in 0..0 |-> <<>>]
  <2>1. <<>> \in Seq(X) /\ 0 \in 0..0 /\ 1..0 = {}  OBVIOUS
  <2>2. f \in [0..0 -> Seq(X)] /\ f[0] = <<>>  BY <2>1
  <2> HIDE DEF f
  <2>3. ChainUpTo(f, 0, X, b, found)  BY <2>1, <2>2 DEF ChainUpTo
  <2> QED  BY <2>3
<1>2. \A m \in 0..n : m \in T /\ m < n => m + 1 \in T
  <2> TAKE m \in 0..n
  <2> HAVE m \in T /\ m < n
  <2>1. PICK f : ChainUpTo(f, m, X, b, found)  OBVIOUS
  <2>2. m + 1 \in 1..n /\ b[m + 1] \in 0..m
    <3>1. m + 1 \in 1..n  OBVIOUS
    <3>2. b[m + 1] \in 0..(m + 1) - 1  BY <3>1
    <3> QED  BY <3>1, <3>2
  <2>3. f \in [0..m -> Seq(X)] /\ f[0] = <<>> /\ \A i \in 1..m : f[i] = Append(f[b[i]], found[i])
    BY <2>1 DEF ChainUpTo
  <2> DEFINE new == Append(f[b[m + 1]], found[m + 1])
             g == [i \in 0..m + 1 |-> IF i = m + 1 THEN new ELSE f[i]]
  <2>4. new \in Seq(X)
    <3>1. f[b[m + 1]] \in Seq(X) /\ found[m + 1] \in X  BY <2>2, <2>3
    <3> QED  BY <3>1
  <2> HIDE DEF new
  <2>5. m + 1 \in 0..m + 1 /\ \A i \in 0..m : i \in 0..m + 1 /\ i # m + 1  OBVIOUS
  <2>6. g[m + 1] = new /\ \A i \in 0..m : g[i] = f[i]  BY <2>5
  <2>7. g \in [0..m + 1 -> Seq(X)]
    <3> DEFINE A == Seq(X)
    <3>1. new \in A /\ \A i \in 0..m : f[i] \in A  BY <2>3, <2>4
    <3> HIDE DEF A
    <3>2. \A i \in 0..m + 1 : i # m + 1 => i \in 0..m  OBVIOUS
    <3>3. g \in [0..m + 1 -> A]  BY <3>1, <3>2
    <3> QED  BY <3>3 DEF A
  <2> HIDE DEF g
  <2>8. ASSUME NEW i \in 1..m + 1
        PROVE  g[i] = Append(g[b[i]], found[i])
    <3>1. CASE i = m + 1  BY <2>2, <2>6, <3>1 DEF new
    <3>2. CASE i # m + 1
      <4>1. i \in 1..m /\ i \in 0..m /\ i \in 1..n  BY <2>2, <3>2
      <4>2. b[i] \in 0..i - 1  BY <4>1
      <4>3. b[i] \in 0..m  BY <4>1, <4>2
      <4> QED  BY <2>3, <2>6, <4>1, <4>3
    <3> QED  BY <3>1, <3>2
  <2>9. g[0] = <<>>
    <3>1. 0 \in 0..m  OBVIOUS
    <3> QED  BY <2>3, <2>6, <3>1
  <2>10. ChainUpTo(g, m + 1, X, b, found)  BY <2>7, <2>8, <2>9 DEF ChainUpTo
  <2> QED  BY <2>2, <2>10
<1> HIDE DEF T
<1>3. 0..n \subseteq T  BY <1>1, <1>2, UpTo
<1>4. n \in T  BY <1>3
<1>5. PICK f : ChainUpTo(f, n, X, b, found)  BY <1>4 DEF T
<1>6. DOMAIN f = 0..n /\ \A i \in 0..n : f[i] = IF i = 0 THEN <<>> ELSE Append(f[b[i]], found[i])
  <2>1. \A i \in 0..n : i = 0 \/ i \in 1..n  OBVIOUS
  <2> QED  BY <1>5, <2>1 DEF ChainUpTo
<1>7. f = [i \in 0..n |-> IF i = 0 THEN <<>> ELSE Append(f[b[i]], found[i])]
  <2>1. f = [i \in 0..n |-> f[i]]  BY <1>5 DEF ChainUpTo
  <2> QED  BY <1>6, <2>1
<1> QED  BY <1>7 DEF IsChain

(* A row of found anchors, each after those before it and on no earlier     *)
(* page.                                                                    *)
RowOf(t, found, n, e) ==
  /\ e \in [1..Len(t) -> 1..n]
  /\ \A j \in 1..Len(t) : t[j] = found[e[j]]
  /\ \A j, k \in 1..Len(t) : j < k => e[j] < e[k] /\ found[e[j]].page <= found[e[k]].page
EndsAt(t, found, i, X) ==
  /\ t \in Seq(X) /\ (i = 0 => t = <<>>) /\ (i > 0 => Len(t) > 0)
  /\ \E e : RowOf(t, found, i, e) /\ (i > 0 => e[Len(t)] = i)

(* Along the links no page decreases.                                       *)
LEMMA ChainRows ==
  ASSUME NEW X, NEW n \in Nat, NEW found \in [1..n -> X], NEW b,
         \A i \in 1..n : found[i].page \in Int,
         \A i \in 1..n : b[i] \in 0..i - 1 /\ (b[i] # 0 => found[b[i]].page <= found[i].page),
         NEW f, IsChain(f, n, b, found)
  PROVE  \A i \in 0..n : EndsAt(f[i], found, i, X)
<1> DEFINE T == {m \in 0..n : \A i \in 0..m : EndsAt(f[i], found, i, X)}
<1>0. f[0] = <<>> /\ \A i \in 1..n : f[i] = Append(f[b[i]], found[i])
  <2>1. 0 \in 0..n /\ \A i \in 1..n : i \in 0..n /\ i # 0  OBVIOUS
  <2>2. \A i \in 0..n : f[i] = IF i = 0 THEN <<>> ELSE Append(f[b[i]], found[i])  BY DEF IsChain
  <2> QED  BY <2>1, <2>2
<1>1. 0 \in T
  <2>1. EndsAt(f[0], found, 0, X)
    <3> DEFINE e == [j \in 1..0 |-> 0]
    <3>1. 1..0 = {} /\ Len(<<>>) = 0 /\ <<>> \in Seq(X)  OBVIOUS
    <3>2. RowOf(<<>>, found, 0, e)  BY <3>1 DEF RowOf
    <3> HIDE DEF e
    <3> QED  BY <1>0, <3>1, <3>2 DEF EndsAt
  <2>2. 0..0 = {0}  OBVIOUS
  <2> QED  BY <2>1, <2>2
<1>2. \A m \in 0..n : m \in T /\ m < n => m + 1 \in T
  <2> TAKE m \in 0..n
  <2> HAVE m \in T /\ m < n
  <2> DEFINE i == m + 1
             t == f[b[i]]
             new == Append(t, found[i])
             l == Len(t)
  <2>1. i \in 1..n /\ b[i] \in 0..m /\ b[i] \in Int
    <3>1. i \in 1..n  OBVIOUS
    <3>2. b[i] \in 0..i - 1  BY <3>1
    <3> QED  BY <3>1, <3>2
  <2>2. EndsAt(t, found, b[i], X)  BY <2>1
  <2>3. PICK e : RowOf(t, found, b[i], e) /\ (b[i] > 0 => e[l] = b[i])  BY <2>2 DEF EndsAt
  <2>4. t \in Seq(X) /\ l \in Nat /\ (b[i] = 0 => l = 0) /\ (b[i] > 0 => l > 0)
    BY <2>2 DEF EndsAt
  <2>5. f[i] = new  BY <1>0, <2>1
  <2>6. found[i] \in X /\ found[i].page \in Int  BY <2>1
  <2> HIDE DEF t, i
  <2>7. new \in Seq(X) /\ Len(new) = l + 1 /\ new[l + 1] = found[i] /\ \A j \in 1..l : new[j] = t[j]
    BY <2>4, <2>6
  <2> DEFINE d == [j \in 1..l + 1 |-> IF j = l + 1 THEN i ELSE e[j]]
  <2>8. /\ \A j \in 1..l : e[j] \in 1..b[i] /\ t[j] = found[e[j]]
        /\ \A j, k \in 1..l : j < k => e[j] < e[k] /\ found[e[j]].page <= found[e[k]].page
    BY <2>3 DEF RowOf
  <2>9. \A j \in 1..l : j \in 1..l + 1 /\ j # l + 1  BY <2>4
  <2>10. d[l + 1] = i /\ \A j \in 1..l : d[j] = e[j]  BY <2>4, <2>9
  <2>11. i \in Nat /\ i > 0 /\ i = m + 1  BY <2>1 DEF i
  <2>12. \A j \in 1..l : e[j] \in 1..i /\ e[j] < i /\ e[j] \in 1..n
    <3> TAKE j \in 1..l
    <3>1. e[j] \in 1..b[i]  BY <2>8
    <3> QED  BY <2>1, <2>11, <3>1
  <2>13. d \in [1..l + 1 -> 1..i]
    <3>1. i \in 1..i /\ \A j \in 1..l : e[j] \in 1..i  BY <2>11, <2>12
    <3>2. \A j \in 1..l + 1 : j # l + 1 => j \in 1..l  BY <2>4
    <3> QED  BY <3>1, <3>2
  <2> HIDE DEF d
  <2>14. \A j \in 1..l : found[e[j]].page <= found[i].page
    <3> TAKE j \in 1..l
    <3>1. b[i] # 0 /\ b[i] > 0 /\ l > 0 /\ l \in 1..l
      <4>1. l > 0  BY <2>4
      <4> QED  BY <2>1, <2>4, <4>1
    <3>2. found[b[i]].page <= found[i].page /\ e[l] = b[i]  BY <2>1, <2>3, <3>1
    <3>3. j = l \/ found[e[j]].page <= found[e[l]].page
      <4>1. j = l \/ j < l  BY <2>4
      <4> QED  BY <2>8, <3>1, <4>1
    <3>4. found[e[j]].page \in Int /\ found[e[l]].page \in Int  BY <2>12, <3>1
    <3> QED  BY <2>6, <3>2, <3>3, <3>4
  <2>15. RowOf(new, found, i, d)
    <3>1. \A j \in 1..l + 1 : new[j] = found[d[j]]
      <4> TAKE j \in 1..l + 1
      <4>1. CASE j = l + 1  BY <2>7, <2>10, <4>1
      <4>2. CASE j # l + 1
        <5>1. j \in 1..l  BY <2>4, <4>2
        <5> QED  BY <2>7, <2>8, <2>10, <5>1
      <4> QED  BY <4>1, <4>2
    <3>0. \A j \in 1..l + 1 : j = l + 1 \/ j \in 1..l  BY <2>4
    <3>2. \A j, k \in 1..l + 1 : j < k => d[j] < d[k] /\ found[d[j]].page <= found[d[k]].page
      <4> TAKE j, k \in 1..l + 1
      <4> HAVE j < k
      <4>1. j \in 1..l  BY <2>4
      <4>2. CASE k = l + 1  BY <2>10, <2>12, <2>14, <4>1, <4>2
      <4>3. CASE k # l + 1
        <5>1. k \in 1..l  BY <3>0, <4>3
        <5> QED  BY <2>8, <2>10, <4>1, <5>1
      <4> QED  BY <4>2, <4>3
    <3> QED  BY <2>7, <2>13, <3>1, <3>2 DEF RowOf
  <2>16. EndsAt(new, found, i, X)
    <3>1. i # 0 /\ Len(new) > 0 /\ d[Len(new)] = i  BY <2>4, <2>7, <2>10, <2>11
    <3> QED  BY <2>7, <2>15, <3>1 DEF EndsAt
  <2>17. \A j \in 0..m + 1 : EndsAt(f[j], found, j, X)
    <3> TAKE j \in 0..m + 1
    <3>1. CASE j = m + 1  BY <2>5, <2>11, <2>16, <3>1
    <3>2. CASE j # m + 1
      <4>1. j \in 0..m  BY <3>2
      <4> QED  BY <4>1
    <3> QED  BY <3>1, <3>2
  <2> QED  BY <2>17
<1> HIDE DEF T
<1>3. 0..n \subseteq T  BY <1>1, <1>2, UpTo
<1>4. n \in T  BY <1>3
<1> QED  BY <1>4 DEF T

(* Where no page is lower than one before it, every anchor follows the one  *)
(* before it.                                                               *)
Rising(found) == \A j, k \in 1..Len(found) : j < k => found[j].page <= found[k].page
Straight(acc, i) ==
  /\ Len(acc.tails) = i /\ Len(acc.before) = i
  /\ \A k \in 1..i : acc.tails[k] = k /\ acc.before[k] = k - 1

(* Where none is lower, every anchor extends the longest row.               *)
LEMMA AddToStraight ==
  ASSUME NEW X, NEW found \in Seq(X), \A x \in X : x.page \in Int, Rising(found),
         NEW i \in 1..Len(found), NEW acc \in KeepSet(Len(found)), Straight(acc, i - 1)
  PROVE  Straight(AddTo(found, acc, i), i)
<1> DEFINE n == Len(found)
           tails == acc.tails
           before == acc.before
           K == Below(found, tails, i)
           m == Cardinality(K)
<1>1. tails \in Seq(1..n) /\ before \in Seq(0..n) /\ n \in Nat  BY DEF KeepSet
<1>2. /\ Len(tails) = i - 1 /\ Len(before) = i - 1
      /\ \A k \in 1..i - 1 : tails[k] = k /\ before[k] = k - 1
  BY DEF Straight
<1> HIDE DEF tails, before
<1>3. K = 1..i - 1
  <2>1. DOMAIN tails = 1..i - 1  BY <1>1, <1>2
  <2>2. \A k \in 1..i - 1 : found[k].page <= found[i].page
    <3> TAKE k \in 1..i - 1
    <3>1. k \in 1..Len(found) /\ k < i  BY <1>1
    <3> QED  BY <3>1 DEF Rising
  <2> QED  BY <1>2, <2>1, <2>2 DEF Below
<1>4. m = i - 1
  <2>1. i - 1 \in Nat  OBVIOUS
  <2> QED  BY <1>3, <2>1, IntervalSize
<1> HIDE DEF K, m
<1> DEFINE new == Append(tails, i)
           last == IF m = 0 THEN 0 ELSE tails[m]
           all == Append(before, last)
<1>5. AddTo(found, acc, i) = [tails |-> new, before |-> all]
  BY <1>2, <1>4 DEF AddTo, tails, before, K, m
<1>6. Len(new) = i /\ \A k \in 1..i : new[k] = IF k = i THEN i ELSE tails[k]  BY <1>1, <1>2
<1>7. Len(all) = i /\ \A k \in 1..i : all[k] = IF k = i THEN last ELSE before[k]  BY <1>1, <1>2
<1>8. last = i - 1
  <2>1. CASE m = 0  BY <1>4, <2>1
  <2>2. CASE m # 0
    <3>1. m \in 1..i - 1  BY <1>4, <2>2
    <3> QED  BY <1>2, <1>4, <2>2, <3>1
  <2> QED  BY <2>1, <2>2
<1> HIDE DEF new, all, last
<1>9. \A k \in 1..i : new[k] = k /\ all[k] = k - 1
  <2> TAKE k \in 1..i
  <2>1. CASE k = i  BY <1>6, <1>7, <1>8, <2>1
  <2>2. CASE k # i
    <3>1. k \in 1..i - 1  BY <2>2
    <3> QED  BY <1>2, <1>6, <1>7, <2>2, <3>1
  <2> QED  BY <2>1, <2>2
<1> QED  BY <1>5, <1>6, <1>7, <1>9 DEF Straight

(* What _longest_nondecreasing_keep has gone through.                       *)
KeepEnd(found, acc) ==
  /\ acc \in KeepSet(Len(found)) /\ KeepInv(found, acc, Len(found))
  /\ Rising(found) => Straight(acc, Len(found))
KeptBy(found, acc) ==
  LET chain[i \in 0..Len(found)] ==
        IF i = 0 THEN <<>> ELSE Append(chain[acc.before[i]], found[i])
  IN IF found = <<>> THEN <<>> ELSE chain[Last(acc.tails)]

(* The result is the row that ends with the last tail.                      *)
LEMMA KeptEnds ==
  ASSUME NEW X, NEW found \in Seq(X), \A x \in X : x.page \in Int
  PROVE  \E acc : KeepEnd(found, acc) /\ Kept(found) = KeptBy(found, acc)
<1> DEFINE n == Len(found)
           s == [i \in DOMAIN found |-> i]
           A == KeepSet(n)
           B == 1..n
           base == [tails |-> <<>>, before |-> <<>>]
           Op(acc, i) == AddTo(found, acc, i)
           F == [x \in A \X B |-> Op(x[1], x[2])]
           G(h, q) == IF q = {} THEN base ELSE Op(h[q \ {Max(q)}], s[Max(q)])
           it == CHOOSE h : h = [q \in SUBSET DOMAIN s |-> G(h, q)]
<1>1. Kept(found) = KeptBy(found, it[DOMAIN s])
  BY DEF Kept, KeptBy, FoldLeft, MapThenFoldSet, AddTo, Below
<1>2. n \in Nat /\ DOMAIN s = 1..n /\ \A i \in 1..n : s[i] = i /\ s[i] \in B  OBVIOUS
<1>3. \A acc \in A, i \in B : Op(acc, i) \in A  BY <1>2, AddToTyped
<1>4. base \in A
  <2>1. <<>> \in Seq(1..n) /\ <<>> \in Seq(0..n)  OBVIOUS
  <2> QED  BY <2>1 DEF KeepSet
<1> HIDE DEF A, s, Op, base
<1>5. F \in [A \X B -> A] /\ \A acc \in A, i \in B : F[<<acc, i>>] = Op(acc, i)
  BY <1>3
<1> HIDE DEF F, B
<1>6. PICK h \in [SUBSET (1..n) -> A] : IsFold(h, F, base, s)
  BY <1>2, <1>4, <1>5, FoldExists
<1>7. h = [q \in SUBSET DOMAIN s |-> G(h, q)]
  <2>1. ASSUME NEW q \in SUBSET (1..n), q # {}
        PROVE  F[<<h[q \ {Max(q)}], s[Max(q)]>>] = Op(h[q \ {Max(q)}], s[Max(q)])
    <3>1. Max(q) \in 1..n  BY <1>2, <2>1, MaxOfIndices
    <3>2. q \ {Max(q)} \in SUBSET (1..n)  OBVIOUS
    <3> QED  BY <1>2, <1>5, <1>6, <3>1, <3>2
  <2> QED  BY <1>2, <1>6, <2>1 DEF IsFold
<1>8. it = [q \in SUBSET DOMAIN s |-> G(it, q)]  BY <1>7
<1> HIDE DEF it
<1>9. \A q \in SUBSET (1..n) : it[q] = G(it, q)  BY <1>2, <1>8
<1>10. StepsBy(it, A, B, F, base, s, n)
  <2>1. {} \in SUBSET (1..n)  OBVIOUS
  <2>2. ASSUME NEW q \in SUBSET (1..n), q # {}, it[q \ {Max(q)}] \in A
        PROVE  it[q] = F[<<it[q \ {Max(q)}], s[Max(q)]>>]
    <3>1. Max(q) \in 1..n  BY <1>2, <2>2, MaxOfIndices
    <3> QED  BY <1>2, <1>5, <1>9, <2>2, <3>1
  <2> QED  BY <1>2, <1>4, <1>5, <1>9, <2>1, <2>2 DEF StepsBy
<1>11. PICK g : IsPrefixFold(g, A, F, base, s, n) /\ g[n] = it[1..n]
  BY <1>10, PrefixesOf
<1>12. /\ \A i \in 0..n : g[i] \in A
       /\ g[0] = base
       /\ \A i \in 1..n : g[i] = AddTo(found, g[i - 1], i)
  <2>1. \A i \in 0..n : g[i] \in A  BY <1>11 DEF IsPrefixFold
  <2>2. ASSUME NEW i \in 1..n PROVE g[i] = AddTo(found, g[i - 1], i)
    <3>1. i - 1 \in 0..n /\ s[i] = i /\ i \in B  BY <1>2
    <3>2. g[i - 1] \in A  BY <2>1, <3>1
    <3>3. g[i] = F[<<g[i - 1], i>>]  BY <1>11, <3>1 DEF IsPrefixFold
    <3> QED  BY <1>5, <3>1, <3>2, <3>3 DEF Op
  <2> QED  BY <1>11, <2>1, <2>2 DEF IsPrefixFold
<1> DEFINE T == {i \in 0..n : KeepInv(found, g[i], i) /\ (Rising(found) => Straight(g[i], i))}
<1>13. 0 \in T
  <2>1. base.tails = <<>> /\ base.before = <<>>  BY DEF base
  <2>2. <<>> \in Seq(1..0) /\ Len(<<>>) = 0 /\ 1..0 = {}  OBVIOUS
  <2>3. KeepInv(found, base, 0) /\ Straight(base, 0)  BY <2>1, <2>2 DEF KeepInv, Straight
  <2> QED  BY <1>2, <1>12, <2>3
<1>14. \A i \in 0..n : i \in T /\ i < n => i + 1 \in T
  <2> TAKE i \in 0..n
  <2> HAVE i \in T /\ i < n
  <2>1. i + 1 \in 1..n /\ i + 1 \in 0..n /\ (i + 1) - 1 = i  BY <1>2
  <2>2. g[i] \in KeepSet(n) /\ g[i + 1] = AddTo(found, g[i], i + 1)  BY <1>12, <2>1 DEF A
  <2>3. \A j \in 1..n : found[j].page \in Int  OBVIOUS
  <2> DEFINE k == i + 1
  <2> HIDE DEF n, k
  <2>4. k \in 1..n /\ k - 1 = i /\ n \in Nat  BY <1>2, <2>1 DEF k
  <2>5. KeepInv(found, AddTo(found, g[i], k), k)
    <3>1. KeepInv(found, g[i], k - 1)  BY <2>4
    <3> QED  BY <2>2, <2>3, <2>4, <3>1, AddToKeeps
  <2>6. Rising(found) => Straight(AddTo(found, g[i], k), k)
    <3> HAVE Rising(found)
    <3>1. Straight(g[i], k - 1)  BY <2>4
    <3> QED  BY <2>2, <2>4, <3>1, AddToStraight DEF n
  <2> QED  BY <2>1, <2>2, <2>5, <2>6 DEF k
<1> HIDE DEF T
<1>15. 0..n \subseteq T  BY <1>2, <1>13, <1>14, UpTo
<1>16. n \in T  BY <1>2, <1>15
<1>17. KeepEnd(found, g[n])
  <2>1. n \in 0..n  BY <1>2
  <2> QED  BY <1>12, <1>16, <2>1 DEF KeepEnd, T, A
<1> QED  BY <1>1, <1>2, <1>11, <1>17

(* _longest_nondecreasing_keep keeps a row, and all where no page is lower  *)
(* than one before it.                                                      *)
LEMMA KeptRow ==
  ASSUME NEW X, NEW found \in Seq(X), \A x \in X : x.page \in Int
  PROVE  /\ Kept(found) \in Seq(X) /\ (found # <<>> => Kept(found) # <<>>)
         /\ \E e : RowOf(Kept(found), found, Len(found), e)
         /\ Rising(found) => Kept(found) = found
<1> DEFINE n == Len(found)
<1>1. PICK acc : KeepEnd(found, acc) /\ Kept(found) = KeptBy(found, acc)  BY KeptEnds
<1> DEFINE b == acc.before
           last == Last(acc.tails)
           chain == CHOOSE f : IsChain(f, n, b, found)
<1>2. Kept(found) = IF found = <<>> THEN <<>> ELSE chain[last]
  BY <1>1 DEF KeptBy, IsChain
<1>3. n \in Nat /\ found \in [1..n -> X] /\ \A i \in 1..n : found[i] \in X /\ found[i].page \in Int
  OBVIOUS
<1>4. /\ acc.tails \in Seq(1..n) /\ (n > 0 => Len(acc.tails) > 0)
      /\ \A i \in 1..n : b[i] \in 0..i - 1 /\ (b[i] # 0 => found[b[i]].page <= found[i].page)
      /\ Rising(found) => Straight(acc, n)
  BY <1>1, <1>3 DEF KeepEnd, KeepInv, KeepSet
<1> HIDE DEF b
<1>5. \E f : IsChain(f, n, b, found)
  <2> HIDE DEF n
  <2> QED  BY <1>3, <1>4, ChainExists
<1>6. IsChain(chain, n, b, found)  BY <1>5
<1> HIDE DEF chain
<1>7. \A i \in 0..n : EndsAt(chain[i], found, i, X)
  <2> HIDE DEF n
  <2> QED  BY <1>3, <1>4, <1>6, ChainRows
<1>8. CASE found = <<>>
  <2>1. Kept(found) = <<>> /\ n = 0  BY <1>2, <1>8
  <2>2. RowOf(<<>>, found, 0, [j \in 1..0 |-> 0])
    <3> DEFINE e == [j \in 1..0 |-> 0]
    <3>1. 1..0 = {} /\ Len(<<>>) = 0 /\ e \in [1..0 -> 1..0]  OBVIOUS
    <3> HIDE DEF e
    <3>2. RowOf(<<>>, found, 0, e)  BY <3>1 DEF RowOf
    <3> QED  BY <3>2 DEF e
  <2> QED  BY <1>8, <2>1, <2>2
<1>9. CASE found # <<>>
  <2>1. n > 0  BY <1>9
  <2>2. last \in 1..n
    <3> DEFINE l == Len(acc.tails)
    <3>1. l > 0 /\ l \in Nat  BY <1>4, <2>1
    <3>2. last = acc.tails[l]  BY DEF Last
    <3> QED  BY <1>4, <3>1, <3>2
  <2> HIDE DEF last
  <2>3. EndsAt(chain[last], found, last, X)  BY <1>3, <1>7, <2>2
  <2>4. Kept(found) = chain[last]  BY <1>2, <1>9
  <2> DEFINE t == chain[last]
  <2>5. /\ t \in Seq(X) /\ Len(t) > 0
        /\ \E e : RowOf(t, found, last, e)
    BY <2>2, <2>3 DEF EndsAt
  <2>6. PICK e : RowOf(t, found, last, e)  BY <2>5
  <2> HIDE DEF t
  <2>7. RowOf(t, found, n, e)
    <3>1. e \in [1..Len(t) -> 1..n]
      <4>1. 1..last \subseteq 1..n  BY <1>3, <2>2
      <4>2. e \in [1..Len(t) -> 1..last]  BY <2>6 DEF RowOf
      <4> HIDE DEF n
      <4> QED  BY <4>1, <4>2
    <3> QED  BY <2>6, <3>1 DEF RowOf
  <2>8. t # <<>>  BY <2>5
  <2>9. ASSUME Rising(found) PROVE t = found
    <3>1. Straight(acc, n)  BY <1>4, <2>9
    <3>2. \A i \in 1..n : b[i] = i - 1  BY <3>1 DEF Straight, b
    <3>3. last = n  BY <1>3, <2>1, <3>1 DEF Straight, last, Last
    <3>4. chain[0] = <<>> /\ \A i \in 1..n : chain[i] = Append(chain[i - 1], found[i])
      <4>1. 0 \in 0..n /\ \A i \in 1..n : i \in 0..n /\ i # 0  BY <1>3
      <4>2. \A i \in 0..n : chain[i] = IF i = 0 THEN <<>> ELSE Append(chain[b[i]], found[i])
        BY <1>6 DEF IsChain
      <4> QED  BY <3>2, <4>1, <4>2
    <3> DEFINE P(i) == /\ Len(chain[i]) = i
                       /\ \A j \in 1..i : chain[i][j] = found[j]
               T == {i \in 0..n : P(i)}
    <3>5. 0 \in T  BY <1>3, <3>4
    <3>6. \A i \in 0..n : i \in T /\ i < n => i + 1 \in T
      <4> TAKE i \in 0..n
      <4> HAVE i \in T /\ i < n
      <4>1. i + 1 \in 1..n /\ i + 1 \in 0..n /\ (i + 1) - 1 = i  BY <1>3
      <4>2. chain[i + 1] = Append(chain[i], found[i + 1])  BY <3>4, <4>1
      <4>3. chain[i] \in Seq(X)  BY <1>7 DEF EndsAt
      <4>4. P(i)  OBVIOUS
      <4> DEFINE u == chain[i]
                 v == chain[i + 1]
                 y == found[i + 1]
      <4>5. y \in X  BY <1>3, <4>1
      <4>6. u \in Seq(X) /\ v = Append(u, y) /\ Len(u) = i /\ i \in Nat /\ \A j \in 1..i : u[j] = found[j]
        BY <4>2, <4>3, <4>4
      <4> HIDE DEF u, v, P
      <4>7. Len(v) = i + 1 /\ v[i + 1] = y /\ \A j \in 1..i : v[j] = u[j]
        BY <4>5, <4>6
      <4>8. \A j \in 1..i + 1 : v[j] = found[j]
        <5> TAKE j \in 1..i + 1
        <5>1. j = i + 1 \/ j \in 1..i  OBVIOUS
        <5> QED  BY <4>6, <4>7, <5>1
      <4>9. P(i + 1)  BY <4>7, <4>8 DEF P, v
      <4> QED  BY <4>1, <4>9
    <3> HIDE DEF T
    <3>7. 0..n \subseteq T  BY <1>3, <3>5, <3>6, UpTo
    <3>8. P(n)  BY <1>3, <3>7 DEF T
    <3>9. Len(t) = n /\ \A j \in 1..n : t[j] = found[j]  BY <3>3, <3>8 DEF t
    <3>10. t \in Seq(X) /\ found \in Seq(X)  BY <2>5
    <3> QED  BY <1>3, <3>9, <3>10
  <2> QED  BY <2>4, <2>5, <2>7, <2>8, <2>9 DEF t
<1> QED  BY <1>8, <1>9

-----------------------------------------------------------------------------
(* Anchors in order *)

(* The anchors t are those of s by position, equal ones as they stood.      *)
InPosition(t, s, n, p) ==
  /\ Permutes(p, n) /\ t = [m \in 1..n |-> s[p[m]]]
  /\ \A x, y \in 1..n : x < y => t[x].pos < t[y].pos \/ (t[x].pos = t[y].pos /\ p[x] < p[y])

(* How build_page_mapping sorts anchors.                                    *)
LEMMA PositionsOrdered ==
  ASSUME NEW X, NEW s \in Seq(X), \A x \in X : x.pos \in Int
  PROVE  \E p : InPosition(ByPosition(s), s, Len(s), p)
<1> DEFINE k == Len(s)
           t == ByPosition(s)
           a == [i \in 1..k |-> s[i].pos]
           b == [i \in 1..k |-> i]
           C(i) == Cardinality({j \in 1..k :
                     s[j].pos < s[i].pos \/ (~(s[i].pos < s[j].pos) /\ j < i)})
           D(i) == Cardinality({j \in 1..k : Before2(a, b, j, i)})
           one(m) == CHOOSE i \in 1..k : C(i) = m - 1
           other(m) == CHOOSE i \in 1..k : D(i) = m - 1
<1>1. k \in Nat /\ DOMAIN s = 1..k /\ \A i \in 1..k : s[i].pos \in Int
  OBVIOUS
<1>2. t = [m \in 1..k |-> s[one(m)]]
  <2>1. DOMAIN s = 1..k  BY <1>1
  <2> HIDE DEF k
  <2> QED  BY <2>1 DEF ByPosition, Arranged
<1>3. \A i \in 1..k : C(i) = D(i)
  <2> TAKE i \in 1..k
  <2>1. ASSUME NEW j \in 1..k
        PROVE  Before2(a, b, j, i) <=> s[j].pos < s[i].pos \/ (~(s[i].pos < s[j].pos) /\ j < i)
    <3>1. a[i] = s[i].pos /\ a[j] = s[j].pos /\ b[i] = i /\ b[j] = j
      OBVIOUS
    <3>2. s[i].pos \in Int /\ s[j].pos \in Int
      BY <1>1
    <3> HIDE DEF a, b, k
    <3> QED  BY <3>1, <3>2 DEF Before2, Sooner
  <2> HIDE DEF a, b, k
  <2> QED  BY <2>1
<1>4. a \in [1..k -> Int] /\ b \in [1..k -> Int]
  <2> HIDE DEF k
  <2> QED  BY <1>1
<1>5. SortedBy(t, s, k, a, b)
  <2> HIDE DEF C, D
  <2>1. \A m \in 1..k : one(m) = other(m)  BY <1>3
  <2> HIDE DEF t, k, a, b, one, other
  <2>2. t = [m \in 1..k |-> s[other(m)]]  BY <1>2, <2>1
  <2> QED  BY <2>2 DEF SortedBy, other, D
<1> HIDE DEF C, D, t
<1>6. PICK p : Rearranged(t, s, k, a, b, p)
  <2>1. k \in Nat /\ DOMAIN s = 1..k  BY <1>1
  <2> HIDE DEF k, a, b
  <2> QED  BY <2>1, <1>4, <1>5, Sorting
<1>7. Permutes(p, k) /\ t = [m \in 1..k |-> s[p[m]]]  BY <1>6 DEF Rearranged
<1>8. ASSUME NEW x \in 1..k, NEW y \in 1..k, x < y
      PROVE  t[x].pos < t[y].pos \/ (t[x].pos = t[y].pos /\ p[x] < p[y])
  <2>1. ~Sooner(a, b, p[y], p[x])  BY <1>6, <1>8 DEF Rearranged
  <2>2. p[x] \in 1..k /\ p[y] \in 1..k /\ p[x] # p[y]
    <3>1. x # y  BY <1>1, <1>8
    <3> HIDE DEF k
    <3> QED  BY <1>7, <3>1 DEF Permutes
  <2>3. /\ a[p[x]] = s[p[x]].pos /\ a[p[y]] = s[p[y]].pos
        /\ b[p[x]] = p[x] /\ b[p[y]] = p[y]
    BY <2>2
  <2>4. t[x] = s[p[x]] /\ t[y] = s[p[y]]  BY <1>7
  <2>5. s[p[x]].pos \in Int /\ s[p[y]].pos \in Int  BY <1>1, <2>2
  <2> HIDE DEF a, b
  <2> QED  BY <2>1, <2>2, <2>3, <2>4, <2>5 DEF Sooner
<1>9. InPosition(t, s, k, p)
  <2> HIDE DEF k
  <2> QED  BY <1>7, <1>8 DEF InPosition
<1> QED  BY <1>9 DEF t, k

(* What is sorted stays the same, and is sorted.                            *)
Positioned(t) == \A j, k \in 1..Len(t) : j < k => t[j].pos <= t[k].pos

(* Sorted anchors are the same ones, and in order.                          *)
LEMMA PositionedAgain ==
  ASSUME NEW X, NEW s \in Seq(X), \A x \in X : x.pos \in Int
  PROVE  /\ ByPosition(s) \in Seq(X) /\ Len(ByPosition(s)) = Len(s)
         /\ Positioned(ByPosition(s))
         /\ ToSet(ByPosition(s)) = ToSet(s)
<1> DEFINE n == Len(s)
           t == ByPosition(s)
<1>1. PICK p : InPosition(t, s, n, p)  BY PositionsOrdered
<1>2. n \in Nat /\ \A i \in 1..n : s[i] \in X /\ s[i].pos \in Int  OBVIOUS
<1>3. DOMAIN s = 1..n  OBVIOUS
<1>4. /\ \A m \in 1..n : p[m] \in 1..n
      /\ \A i \in 1..n : \E m \in 1..n : p[m] = i
      /\ t = [m \in 1..n |-> s[p[m]]]
      /\ \A x, y \in 1..n : x < y => t[x].pos < t[y].pos \/ t[x].pos = t[y].pos
  BY <1>1 DEF InPosition, Permutes
<1> HIDE DEF t, n
<1>5. t \in Seq(X) /\ Len(t) = n /\ DOMAIN t = 1..n /\ \A m \in 1..n : t[m] = s[p[m]] /\ t[m] \in X
  <2>1. \A m \in 1..n : s[p[m]] \in X  BY <1>2, <1>4
  <2>2. t \in [1..n -> X]  BY <1>4, <2>1
  <2>3. t \in Seq(X) /\ Len(t) = n /\ DOMAIN t = 1..n  BY <1>2, <2>2
  <2>4. \A m \in 1..n : t[m] = s[p[m]]  BY <1>4
  <2> QED  BY <2>1, <2>3, <2>4
<1>6. Positioned(t)
  <2> SUFFICES ASSUME NEW j \in 1..n, NEW k \in 1..n, j < k PROVE t[j].pos <= t[k].pos
    BY <1>5 DEF Positioned
  <2>1. t[j].pos \in Int /\ t[k].pos \in Int  BY <1>5
  <2>2. t[j].pos < t[k].pos \/ t[j].pos = t[k].pos  BY <1>4
  <2> QED  BY <2>1, <2>2
<1>7. ToSet(t) = ToSet(s)
  <2>1. \A m \in 1..n : t[m] \in {s[i] : i \in 1..n}  BY <1>4, <1>5
  <2>2. \A i \in 1..n : s[i] \in {t[m] : m \in 1..n}
    <3> TAKE i \in 1..n
    <3>1. PICK m \in 1..n : p[m] = i  BY <1>4
    <3> QED  BY <1>5, <3>1
  <2>3. {s[i] : i \in 1..n} = {t[m] : m \in 1..n}  BY <2>1, <2>2
  <2> QED  BY <1>3, <1>5, <2>3 DEF ToSet
<1> QED  BY <1>5, <1>6, <1>7 DEF t, n

-----------------------------------------------------------------------------
(* The anchors of a layout: that of a block is on its page.                 *)
AnchorsOf(layout) ==
  {a \in [pos : Nat, len : Nat, page : Nat \ {0}, block : Nat] :
     a.block # 0 => a.block \in DOMAIN layout /\ a.page = layout[a.block].page}

(* The fields of an anchor.                                                 *)
LEMMA AnchorHas ==
  ASSUME NEW layout, NEW a
  PROVE  a \in AnchorsOf(layout) =>
           /\ a.pos \in Nat /\ a.len \in Nat /\ a.page \in Nat \ {0} /\ a.block \in Nat
           /\ a.block # 0 => a.block \in DOMAIN layout /\ a.page = layout[a.block].page
BY DEF AnchorsOf

(* An anchor from its fields.                                               *)
LEMMA AnchorMade ==
  ASSUME NEW layout, NEW pos \in Nat, NEW len \in Nat, NEW page \in Nat \ {0}, NEW block \in Nat,
         block # 0 => block \in DOMAIN layout /\ page = layout[block].page
  PROVE  [pos |-> pos, len |-> len, page |-> page, block |-> block] \in AnchorsOf(layout)
BY DEF AnchorsOf

(* What a block of a layout is. *)
LEMMA BlockHas ==
  ASSUME NEW layout, LayoutOK(layout), NEW b \in DOMAIN layout
  PROVE  /\ Len(layout) \in Nat /\ DOMAIN layout = 1..Len(layout) /\ b \in Nat \ {0}
         /\ layout[b].kind \in {"text", "table", "shell"}
         /\ layout[b].page \in Nat \ {0} /\ layout[b].len \in Nat
         /\ layout[b].full \subseteq Nat /\ IsFiniteSet(layout[b].full)
         /\ layout[b].begin \subseteq Nat /\ IsFiniteSet(layout[b].begin)
         /\ layout[b].frag \subseteq Nat /\ IsFiniteSet(layout[b].frag)
         /\ layout[b].len = 0 => layout[b].full = {} /\ layout[b].begin = {} /\ layout[b].frag = {}
<1> DEFINE X == BlockType
<1>1. layout \in Seq(X)  BY DEF LayoutOK
<1>2. layout[b] \in X /\ Len(layout) \in Nat /\ DOMAIN layout = 1..Len(layout) /\ b \in Nat \ {0}
  <2> HIDE DEF X
  <2> QED  BY <1>1
<1>3. /\ layout[b].kind \in {"text", "table", "shell"}
      /\ layout[b].page \in Nat \ {0} /\ layout[b].len \in Nat
      /\ layout[b].full \in Positions /\ layout[b].begin \in Positions /\ layout[b].frag \in Positions
  BY <1>2 DEF BlockType
<1>4. layout[b].len = 0 => layout[b].full = {} /\ layout[b].begin = {} /\ layout[b].frag = {}
  BY DEF LayoutOK
<1> QED  BY <1>2, <1>3, <1>4 DEF Positions

(* A place that is the only one is the first.                               *)
LEMMA UniqueLeast ==
  ASSUME NEW S, S \subseteq Nat, IsFiniteSet(S)
  PROVE  /\ Unique(S) => Least(S) \in S /\ Least(S) \in Nat
         /\ S = {} => ~Unique(S)
<1>1. S = {} => ~Unique(S)
  <2>1. Cardinality({}) = 0  BY FS_EmptySet
  <2> QED  BY <2>1 DEF Unique
<1>2. Unique(S) => Least(S) \in S
  <2> HAVE Unique(S)
  <2>1. S # {} /\ S \subseteq Int  BY <1>1
  <2> QED  BY <2>1, SmallestOf
<1> QED  BY <1>1, <1>2

(* What a block gives in the first round.                                   *)
GivesOne(s, layout, b) ==
  /\ s \in Seq(AnchorsOf(layout)) /\ Len(s) \in {0, 1}
  /\ \A i \in 1..Len(s) : s[i].block = b

(* At most one anchor, that of the block: exactly that if the block stands  *)
(* once and whole in the text.                                              *)
LEMMA CandidateHas ==
  ASSUME NEW layout, LayoutOK(layout), NEW b \in DOMAIN layout
  PROVE  /\ GivesOne(Candidate(layout, b), layout, b)
         /\ Unique(layout[b].full) =>
              Candidate(layout, b) = <<[pos |-> Least(layout[b].full), len |-> layout[b].len,
                                        page |-> layout[b].page, block |-> b]>>
         /\ layout[b].len = 0 => Candidate(layout, b) = <<>>
<1> DEFINE block == layout[b]
           A(places, n) == [pos |-> Least(places), len |-> n, page |-> block.page, block |-> b]
           c == Candidate(layout, b)
<1>1. /\ b \in Nat /\ block.page \in Nat \ {0} /\ block.len \in Nat
      /\ block.full \subseteq Nat /\ IsFiniteSet(block.full)
      /\ block.begin \subseteq Nat /\ IsFiniteSet(block.begin)
      /\ block.frag \subseteq Nat /\ IsFiniteSet(block.frag)
      /\ block.len = 0 => block.full = {} /\ block.begin = {} /\ block.frag = {}
  BY BlockHas
<1>2. ASSUME NEW S, S \subseteq Nat, IsFiniteSet(S), Unique(S), NEW n \in Nat
      PROVE  GivesOne(<<A(S, n)>>, layout, b)
  <2>1. Least(S) \in Nat  BY <1>2, UniqueLeast
  <2>2. A(S, n) \in AnchorsOf(layout)  BY <1>1, <2>1, AnchorMade
  <2>3. A(S, n).block = b  OBVIOUS
  <2> DEFINE v == A(S, n)
  <2> HIDE DEF v
  <2>4. <<v>> \in Seq(AnchorsOf(layout)) /\ Len(<<v>>) = 1 /\ <<v>>[1] = v  BY <2>2 DEF v
  <2>5. \A i \in 1..1 : <<v>>[i].block = b  BY <2>3, <2>4 DEF v
  <2>6. GivesOne(<<v>>, layout, b)  BY <2>4, <2>5 DEF GivesOne
  <2> QED  BY <2>6 DEF v
<1>3. GivesOne(<<>>, layout, b)  BY DEF GivesOne
<1>4. Unique(block.full) => c = <<A(block.full, block.len)>>
  BY DEF Candidate
<1>5. ~Unique(block.full) /\ Unique(block.begin) => c = <<A(block.begin, 1)>>
  BY DEF Candidate
<1>6. ~Unique(block.full) /\ ~Unique(block.begin) /\ Unique(block.frag) => c = <<A(block.frag, 1)>>
  BY DEF Candidate
<1>7. ~Unique(block.full) /\ ~Unique(block.begin) /\ ~Unique(block.frag) => c = <<>>
  BY DEF Candidate
<1>8. block.len = 0 => c = <<>>
  <2> HAVE block.len = 0
  <2>1. ~Unique(block.full) /\ ~Unique(block.begin) /\ ~Unique(block.frag)  BY <1>1, UniqueLeast
  <2> QED  BY <1>7, <2>1
<1> HIDE DEF c
<1>9. GivesOne(c, layout, b)
  <2> HIDE DEF A, block
  <2> QED  BY <1>1, <1>2, <1>3, <1>4, <1>5, <1>6, <1>7
<1> QED  BY <1>4, <1>8, <1>9 DEF c

(* The tables of the first i blocks, each with the pages it is on.          *)
GroupsOf(layout) == [first : Nat \ {0}, last : Nat \ {0}, owner : DOMAIN layout]
TableFits(layout, i, x) ==
  /\ x.owner <= i /\ x.first = layout[x.owner].page /\ x.first <= x.last
  /\ \A c \in DOMAIN layout : i <= c => x.last <= layout[c].page
TablesApart(x, y) == x.owner < y.owner /\ x.last <= y.first
GroupsFit(groups, layout, i) ==
  /\ groups \in Seq(GroupsOf(layout))
  /\ \A g \in 1..Len(groups) : TableFits(layout, i, groups[g])
  /\ \A g, h \in 1..Len(groups) : g < h => TablesApart(groups[g], groups[h])

(* A block is added to the tables.                                          *)
AddGroup(layout, groups, b) ==
  CASE layout[b].kind = "text" -> groups
    [] layout[b].kind = "table" ->
         Append(groups, [first |-> layout[b].page, last |-> layout[b].page, owner |-> b])
    [] layout[b].kind = "shell" ->
         IF groups # <<>> /\ layout[b].page = Last(groups).last + 1
           THEN [groups EXCEPT ![Len(groups)].last = layout[b].page]
           ELSE groups

(* A table from its fields.                                                 *)
LEMMA TableMade ==
  ASSUME NEW layout, NEW first \in Nat \ {0}, NEW last \in Nat \ {0}, NEW owner \in DOMAIN layout
  PROVE  [first |-> first, last |-> last, owner |-> owner] \in GroupsOf(layout)
BY DEF GroupsOf

(* The fields of a table.                                                   *)
LEMMA TableHas ==
  ASSUME NEW layout, LayoutOK(layout), NEW x \in GroupsOf(layout)
  PROVE  /\ x.owner \in DOMAIN layout /\ x.owner \in Nat
         /\ x.first \in Nat \ {0} /\ x.last \in Nat \ {0}
         /\ x = [first |-> x.first, last |-> x.last, owner |-> x.owner]
<1>1. /\ x.owner \in DOMAIN layout /\ x.first \in Nat \ {0} /\ x.last \in Nat \ {0}
      /\ x = [first |-> x.first, last |-> x.last, owner |-> x.owner]
  BY DEF GroupsOf
<1>2. x.owner \in Nat  BY <1>1, BlockHas
<1> QED  BY <1>1, <1>2

(* A shell moves the last page of the table before it, or changes nothing.  *)
LEMMA ShellAdded ==
  ASSUME NEW layout, LayoutOK(layout), NEW b \in DOMAIN layout, layout[b].kind = "shell",
         NEW groups \in Seq(GroupsOf(layout))
  PROVE  \/ AddGroup(layout, groups, b) = groups
         \/ LET n == Len(groups)
                w == groups[n]
                v == [first |-> w.first, last |-> layout[b].page, owner |-> w.owner]
            IN /\ n \in 1..n /\ layout[b].page = w.last + 1 /\ w \in GroupsOf(layout)
               /\ v \in GroupsOf(layout) /\ AddGroup(layout, groups, b) = [groups EXCEPT ![n] = v]
<1> DEFINE X == GroupsOf(layout)
           n == Len(groups)
           p == layout[b].page
           r == AddGroup(layout, groups, b)
           w == groups[n]
           v == [first |-> w.first, last |-> p, owner |-> w.owner]
<1>1. p \in Nat \ {0}  BY BlockHas
<1>2. r = IF groups # <<>> /\ p = Last(groups).last + 1 THEN [groups EXCEPT ![n].last = p] ELSE groups
  BY DEF AddGroup
<1>3. CASE groups # <<>> /\ p = Last(groups).last + 1
  <2>1. n \in 1..n /\ Last(groups) = w /\ w \in X
    <3>1. groups \in Seq(X) /\ groups # <<>>  BY <1>3
    <3> HIDE DEF X, p
    <3>2. n \in Nat /\ n > 0  BY <3>1
    <3>3. n \in 1..n  BY <3>2
    <3>4. Last(groups) = w  BY DEF Last
    <3> QED  BY <3>1, <3>3, <3>4
  <2>2. w.first \in Nat \ {0} /\ w.owner \in DOMAIN layout
        /\ w = [first |-> w.first, last |-> w.last, owner |-> w.owner]
    BY <2>1, TableHas
  <2> HIDE DEF w
  <2>3. v \in X  BY <1>1, <2>2, TableMade
  <2>4. [w EXCEPT !.last = p] = v  BY <2>2
  <2>5. r = [groups EXCEPT ![n] = v]  BY <1>2, <1>3, <2>4 DEF w
  <2> HIDE DEF v, r, X
  <2>6. p = w.last + 1  BY <1>3, <2>1
  <2> QED  BY <2>1, <2>3, <2>5, <2>6 DEF v, r, X, w
<1>4. CASE ~(groups # <<>> /\ p = Last(groups).last + 1)
  <2>1. r = groups  BY <1>2, <1>4
  <2> QED  BY <2>1
<1> QED  BY <1>3, <1>4

(* A step keeps the types.                                                  *)
LEMMA AddGroupTyped ==
  ASSUME NEW layout, LayoutOK(layout), NEW b \in DOMAIN layout, NEW groups \in Seq(GroupsOf(layout))
  PROVE  AddGroup(layout, groups, b) \in Seq(GroupsOf(layout))
<1> DEFINE X == GroupsOf(layout)
           r == AddGroup(layout, groups, b)
<1>1. layout[b].kind \in {"text", "table", "shell"} /\ layout[b].page \in Nat \ {0}  BY BlockHas
<1>2. CASE layout[b].kind = "text"
  <2>1. r = groups  BY <1>2 DEF AddGroup
  <2> QED  BY <2>1
<1>3. CASE layout[b].kind = "table"
  <2> DEFINE v == [first |-> layout[b].page, last |-> layout[b].page, owner |-> b]
  <2>1. r = Append(groups, v)  BY <1>3 DEF AddGroup
  <2>2. v \in X  BY <1>1, TableMade
  <2> HIDE DEF X, v, r
  <2>3. groups \in Seq(X)  BY DEF X
  <2>4. r \in Seq(X)  BY <2>1, <2>2, <2>3
  <2> QED  BY <2>4 DEF r, X
<1>4. CASE layout[b].kind = "shell"
  <2>1. CASE r = groups  BY <2>1
  <2>2. CASE r # groups
    <3> DEFINE n == Len(groups)
               v == [first |-> groups[n].first, last |-> layout[b].page, owner |-> groups[n].owner]
    <3>1. n \in 1..n /\ v \in X /\ r = [groups EXCEPT ![n] = v]
      BY <1>4, <2>2, ShellAdded
    <3> HIDE DEF X, r, v
    <3>2. groups \in Seq(X)  BY DEF X
    <3>3. r \in Seq(X)  BY <3>1, <3>2
    <3> QED  BY <3>3 DEF X, r
  <2> QED  BY <2>1, <2>2
<1> QED  BY <1>1, <1>2, <1>3, <1>4

(* A step keeps the tables one behind the other, in the order of their      *)
(* pages.                                                                   *)
LEMMA AddGroupFits ==
  ASSUME NEW layout, LayoutOK(layout), NEW b \in DOMAIN layout, NEW groups,
         GroupsFit(groups, layout, b - 1)
  PROVE  GroupsFit(AddGroup(layout, groups, b), layout, b)
<1> DEFINE X == GroupsOf(layout)
           n == Len(groups)
           p == layout[b].page
           r == AddGroup(layout, groups, b)
<1>1. /\ b \in Nat \ {0} /\ p \in Nat \ {0} /\ DOMAIN layout \subseteq Nat
      /\ layout[b].kind \in {"text", "table", "shell"}
  <2>1. \A c \in DOMAIN layout : c \in Nat  BY BlockHas
  <2> QED  BY <2>1, BlockHas
<1>2. groups \in Seq(X) /\ n \in Nat  BY DEF GroupsFit
<1>3. \A g \in 1..n : groups[g] \in X
  <2> HIDE DEF X
  <2> QED  BY <1>2
<1>4. ASSUME NEW x \in X, TableFits(layout, b - 1, x)
      PROVE  TableFits(layout, b, x) /\ x.owner < b /\ x.last <= p
  <2>1. x.owner \in Nat  BY TableHas
  <2>2. x.owner <= b - 1  BY <1>4 DEF TableFits
  <2>3. \A c \in DOMAIN layout : b - 1 <= c => x.last <= layout[c].page  BY <1>4 DEF TableFits
  <2>4. \A c \in DOMAIN layout : b <= c => b - 1 <= c  BY <1>1
  <2>5. x.owner < b /\ x.owner <= b  BY <1>1, <2>1, <2>2
  <2>6. b - 1 <= b  BY <1>1
  <2> QED  BY <1>4, <2>3, <2>4, <2>5, <2>6 DEF TableFits
<1>5. \A g \in 1..n : TableFits(layout, b, groups[g]) /\ groups[g].owner < b /\ groups[g].last <= p
  <2> TAKE g \in 1..n
  <2>1. groups[g] \in X /\ TableFits(layout, b - 1, groups[g])  BY <1>3 DEF GroupsFit
  <2> HIDE DEF X, p
  <2> QED  BY <1>4, <2>1
<1>6. \A g, h \in 1..n : g < h => TablesApart(groups[g], groups[h])
  BY DEF GroupsFit
<1>7. \A c \in DOMAIN layout : b <= c => p <= layout[c].page
  <2> TAKE c \in DOMAIN layout
  <2> HAVE b <= c
  <2>1. b = c \/ b < c  BY <1>1
  <2>2. layout[c].page \in Nat  BY BlockHas
  <2> QED  BY <1>1, <2>1, <2>2 DEF LayoutOK
<1>8. GroupsFit(groups, layout, b)
  BY <1>2, <1>5, <1>6 DEF GroupsFit
<1>9. CASE layout[b].kind = "text"
  <2>1. r = groups  BY <1>9 DEF AddGroup
  <2> QED  BY <1>8, <2>1
<1>10. CASE layout[b].kind = "table"
  <2> DEFINE v == [first |-> p, last |-> p, owner |-> b]
  <2>1. r = Append(groups, v)  BY <1>10 DEF AddGroup
  <2>2. v \in X /\ v.first = p /\ v.last = p /\ v.owner = b  BY <1>1, TableMade
  <2>3. TableFits(layout, b, v)
    <3> HIDE DEF v
    <3>1. b <= b /\ p <= p  BY <1>1
    <3> HIDE DEF p
    <3> QED  BY <1>7, <2>2, <3>1 DEF TableFits, p
  <2> HIDE DEF X, v, r
  <2>4. r \in Seq(X) /\ Len(r) = n + 1 /\ r[n + 1] = v /\ \A g \in 1..n : r[g] = groups[g]
    BY <1>2, <2>1, <2>2
  <2>5. ASSUME NEW g \in 1..n + 1 PROVE TableFits(layout, b, r[g])
    <3>1. CASE g = n + 1  BY <2>3, <2>4, <3>1
    <3>2. CASE g # n + 1
      <4>1. g \in 1..n  BY <1>2, <3>2
      <4> QED  BY <1>5, <2>4, <4>1
    <3> QED  BY <3>1, <3>2
  <2>6. ASSUME NEW g \in 1..n + 1, NEW h \in 1..n + 1, g < h
        PROVE  TablesApart(r[g], r[h])
    <3>1. g \in 1..n /\ r[g] = groups[g]  BY <1>2, <2>4, <2>6
    <3>2. CASE h = n + 1  BY <1>5, <2>2, <2>4, <3>1, <3>2 DEF TablesApart
    <3>3. CASE h # n + 1
      <4>1. h \in 1..n  BY <1>2, <3>3
      <4> QED  BY <1>6, <2>4, <2>6, <3>1, <4>1
    <3> QED  BY <3>2, <3>3
  <2> QED  BY <2>4, <2>5, <2>6 DEF GroupsFit, r, X
<1>11. CASE layout[b].kind = "shell"
  <2>1. CASE r = groups  BY <1>8, <2>1
  <2>2. CASE r # groups
    <3> DEFINE w == groups[n]
               v == [first |-> w.first, last |-> p, owner |-> w.owner]
    <3>1. n \in 1..n /\ p = w.last + 1 /\ w \in X /\ v \in X /\ r = [groups EXCEPT ![n] = v]
      BY <1>2, <1>11, <2>2, ShellAdded
    <3>2. w.first \in Nat /\ w.last \in Nat  BY <3>1, TableHas
    <3>3. v.first = w.first /\ v.last = p /\ v.owner = w.owner  OBVIOUS
    <3>4. TableFits(layout, b, w)  BY <1>5, <3>1
    <3> HIDE DEF X, v, r, w
    <3>5. r \in Seq(X) /\ Len(r) = n /\ r[n] = v /\ \A g \in 1..n : g # n => r[g] = groups[g]
      BY <1>2, <3>1
    <3>6. TableFits(layout, b, v)
      <4>1. w.first <= p
        <5>1. w.first <= w.last  BY <3>4 DEF TableFits
        <5> HIDE DEF p
        <5> QED  BY <3>1, <3>2, <5>1, <1>1
      <4> HIDE DEF p
      <4> QED  BY <1>7, <3>3, <3>4, <4>1 DEF TableFits
    <3>7. ASSUME NEW g \in 1..n PROVE TableFits(layout, b, r[g])
      BY <1>5, <3>5, <3>6
    <3>8. ASSUME NEW g \in 1..n, NEW h \in 1..n, g < h PROVE TablesApart(r[g], r[h])
      <4>1. g # n /\ r[g] = groups[g]  BY <1>2, <3>5, <3>8
      <4>2. r[h].owner = groups[h].owner /\ r[h].first = groups[h].first
        <5>1. CASE h = n  BY <3>3, <3>5, <5>1 DEF w
        <5>2. CASE h # n  BY <3>5, <5>2
        <5> QED  BY <5>1, <5>2
      <4>3. TablesApart(groups[g], groups[h])  BY <1>6, <3>8
      <4> QED  BY <4>1, <4>2, <4>3 DEF TablesApart
    <3> QED  BY <3>5, <3>7, <3>8 DEF GroupsFit, r, X
  <2> QED  BY <2>1, <2>2
<1> QED  BY <1>1, <1>9, <1>10, <1>11

(* _collect_table_groups.                                                   *)
LEMMA TablesGrouped ==
  ASSUME NEW layout, LayoutOK(layout)
  PROVE  GroupsFit(TableGroups(layout), layout, Len(layout))
<1> DEFINE n == Len(layout)
           s == [b \in DOMAIN layout |-> b]
           A == Seq(GroupsOf(layout))
           B == 1..n
           base == <<>>
           Op(acc, b) == AddGroup(layout, acc, b)
           F == [x \in A \X B |-> Op(x[1], x[2])]
           G(h, q) == IF q = {} THEN base ELSE Op(h[q \ {Max(q)}], s[Max(q)])
           it == CHOOSE h : h = [q \in SUBSET DOMAIN s |-> G(h, q)]
<1>1. TableGroups(layout) = it[DOMAIN s]
  BY DEF TableGroups, FoldLeft, MapThenFoldSet, AddGroup
<1>2. n \in Nat /\ DOMAIN layout = 1..n /\ DOMAIN s = 1..n /\ \A i \in 1..n : s[i] = i /\ s[i] \in B
  <2>1. layout \in Seq(BlockType)  BY DEF LayoutOK
  <2> QED  BY <2>1
<1>3. \A acc \in A, i \in B : Op(acc, i) \in A  BY <1>2, AddGroupTyped
<1>4. base \in A  OBVIOUS
<1> HIDE DEF A, s, Op, base
<1>5. F \in [A \X B -> A] /\ \A acc \in A, i \in B : F[<<acc, i>>] = Op(acc, i)
  BY <1>3
<1> HIDE DEF F, B
<1>6. PICK h \in [SUBSET (1..n) -> A] : IsFold(h, F, base, s)
  BY <1>2, <1>4, <1>5, FoldExists
<1>7. h = [q \in SUBSET DOMAIN s |-> G(h, q)]
  <2>1. ASSUME NEW q \in SUBSET (1..n), q # {}
        PROVE  F[<<h[q \ {Max(q)}], s[Max(q)]>>] = Op(h[q \ {Max(q)}], s[Max(q)])
    <3>1. Max(q) \in 1..n  BY <1>2, <2>1, MaxOfIndices
    <3>2. q \ {Max(q)} \in SUBSET (1..n)  OBVIOUS
    <3> QED  BY <1>2, <1>5, <1>6, <3>1, <3>2
  <2> QED  BY <1>2, <1>6, <2>1 DEF IsFold
<1>8. it = [q \in SUBSET DOMAIN s |-> G(it, q)]  BY <1>7
<1> HIDE DEF it
<1>9. \A q \in SUBSET (1..n) : it[q] = G(it, q)  BY <1>2, <1>8
<1>10. StepsBy(it, A, B, F, base, s, n)
  <2>1. {} \in SUBSET (1..n)  OBVIOUS
  <2>2. ASSUME NEW q \in SUBSET (1..n), q # {}, it[q \ {Max(q)}] \in A
        PROVE  it[q] = F[<<it[q \ {Max(q)}], s[Max(q)]>>]
    <3>1. Max(q) \in 1..n  BY <1>2, <2>2, MaxOfIndices
    <3> QED  BY <1>2, <1>5, <1>9, <2>2, <3>1
  <2> QED  BY <1>2, <1>4, <1>5, <1>9, <2>1, <2>2 DEF StepsBy
<1>11. PICK g : IsPrefixFold(g, A, F, base, s, n) /\ g[n] = it[1..n]
  BY <1>10, PrefixesOf
<1>12. /\ g[0] = base
       /\ \A i \in 1..n : g[i] = AddGroup(layout, g[i - 1], i)
  <2>1. \A i \in 0..n : g[i] \in A  BY <1>11 DEF IsPrefixFold
  <2>2. ASSUME NEW i \in 1..n PROVE g[i] = AddGroup(layout, g[i - 1], i)
    <3>1. i - 1 \in 0..n /\ s[i] = i /\ i \in B  BY <1>2
    <3>2. g[i - 1] \in A  BY <2>1, <3>1
    <3>3. g[i] = F[<<g[i - 1], i>>]  BY <1>11, <3>1 DEF IsPrefixFold
    <3> QED  BY <1>5, <3>1, <3>2, <3>3 DEF Op
  <2> QED  BY <1>11, <2>1, <2>2 DEF IsPrefixFold
<1> DEFINE T == {i \in 0..n : GroupsFit(g[i], layout, i)}
<1>13. 0 \in T
  <2>1. <<>> \in Seq(GroupsOf(layout)) /\ Len(<<>>) = 0 /\ 1..0 = {}  OBVIOUS
  <2>2. GroupsFit(<<>>, layout, 0)  BY <2>1 DEF GroupsFit
  <2> QED  BY <1>2, <1>12, <2>2 DEF base
<1>14. \A i \in 0..n : i \in T /\ i < n => i + 1 \in T
  <2> TAKE i \in 0..n
  <2> HAVE i \in T /\ i < n
  <2>1. i + 1 \in 1..n /\ i + 1 \in 0..n /\ (i + 1) - 1 = i  BY <1>2
  <2>2. g[i + 1] = AddGroup(layout, g[i], i + 1)  BY <1>12, <2>1
  <2> DEFINE k == i + 1
  <2> HIDE DEF n, k
  <2>3. k \in DOMAIN layout /\ k - 1 = i  BY <1>2, <2>1 DEF k
  <2>4. GroupsFit(g[i], layout, k - 1)  BY <2>3
  <2>5. GroupsFit(AddGroup(layout, g[i], k), layout, k)  BY <2>3, <2>4, AddGroupFits
  <2> QED  BY <2>1, <2>2, <2>5 DEF k
<1> HIDE DEF T
<1>15. 0..n \subseteq T  BY <1>2, <1>13, <1>14, UpTo
<1>16. GroupsFit(g[n], layout, n)  BY <1>2, <1>15 DEF T
<1> QED  BY <1>1, <1>2, <1>11, <1>16

(* The anchors behind tables: each is the end of its table, in their order. *)
CrossAnchor(layout, closes, g) ==
  [pos |-> closes[g], len |-> 0, page |-> TableGroups(layout)[g].last, block |-> 0]
CrossOf(cross, layout, closes, at) ==
  /\ Len(TableGroups(layout)) = Len(closes) \/ cross = <<>>
  /\ at \in [1..Len(cross) -> 1..Len(TableGroups(layout))]
  /\ \A j \in 1..Len(cross) : at[j] \in DOMAIN closes /\ cross[j] = CrossAnchor(layout, closes, at[j])
  /\ \A i, j \in 1..Len(cross) : i < j => at[i] < at[j]

(* _build_crosspage_anchors: anchors behind tables, in the order of the     *)
(* tables.                                                                  *)
LEMMA CrossHas ==
  ASSUME NEW layout, LayoutOK(layout), NEW closes, ClosesOK(closes)
  PROVE  /\ CrossPage(layout, closes) \in Seq(AnchorsOf(layout))
         /\ \E at : CrossOf(CrossPage(layout, closes), layout, closes, at)
<1> DEFINE X == AnchorsOf(layout)
           Y == GroupsOf(layout)
           groups == TableGroups(layout)
           n == Len(groups)
           r == CrossPage(layout, closes)
<1>1. GroupsFit(groups, layout, Len(layout))  BY TablesGrouped
<1>2. groups \in Seq(Y) /\ n \in Nat  BY <1>1 DEF GroupsFit
<1>3. DOMAIN groups = 1..n /\ \A g \in 1..n : groups[g] \in Y
  <2> HIDE DEF Y, groups
  <2> QED  BY <1>2
<1>4. \A g \in 1..n : groups[g].last \in Nat \ {0}  BY <1>3, TableHas
<1>5. CASE n # Len(closes)
  <2>1. r = <<>>  BY <1>5 DEF CrossPage
  <2> DEFINE at == [j \in 1..0 |-> 0]
  <2>2. Len(<<>>) = 0 /\ 1..0 = {} /\ at \in [1..0 -> 1..n] /\ <<>> \in Seq(X)  OBVIOUS
  <2> HIDE DEF at, X
  <2>3. CrossOf(r, layout, closes, at)  BY <2>1, <2>2 DEF CrossOf
  <2> QED  BY <2>1, <2>2, <2>3 DEF X
<1>6. CASE n = Len(closes)
  <2> DEFINE all == [g \in DOMAIN groups |->
                       [pos |-> closes[g], len |-> 0, page |-> groups[g].last, block |-> 0,
                        several |-> groups[g].last > groups[g].first]]
             K == {g \in DOMAIN all : all[g].several}
             t == Picked(all, K)
  <2>1. r = [j \in DOMAIN t |-> [pos |-> t[j].pos, len |-> 0, page |-> t[j].page, block |-> 0]]
    BY <1>6 DEF CrossPage
  <2>2. DOMAIN all = 1..n /\ K \in SUBSET (1..n)  BY <1>3
  <2>3. \A g \in 1..n : all[g].pos = closes[g] /\ all[g].page = groups[g].last  BY <1>3
  <2> HIDE DEF all, K
  <2>4. PICK e : PickedBy(t, all, K, e)
    <3> HIDE DEF t, n
    <3>1. n \in Nat  BY <1>2
    <3> QED  BY <2>2, <3>1, PickedAre DEF t
  <2> DEFINE m == Cardinality(K)
  <2>5. /\ m \in Nat /\ e \in [1..m -> K] /\ t = [j \in 1..m |-> all[e[j]]]
        /\ \A i, j \in 1..m : i < j => e[i] < e[j]
    BY <2>4 DEF PickedBy, Ascends
  <2> HIDE DEF t, m, r, groups
  <2>6. \A j \in 1..m : e[j] \in 1..n  BY <2>2, <2>5
  <2>7. closes \in Seq(Nat) /\ DOMAIN closes = 1..n /\ \A g \in 1..n : closes[g] \in Nat
    BY <1>6 DEF ClosesOK
  <2>8. \A j \in 1..m : t[j].pos = closes[e[j]] /\ t[j].page = groups[e[j]].last
    BY <2>3, <2>5, <2>6
  <2>9. DOMAIN r = 1..m /\ \A j \in 1..m : r[j] = CrossAnchor(layout, closes, e[j])
    BY <2>1, <2>5, <2>8 DEF CrossAnchor, groups
  <2>10. \A j \in 1..m : CrossAnchor(layout, closes, e[j]) \in X
    <3> TAKE j \in 1..m
    <3>1. closes[e[j]] \in Nat /\ groups[e[j]].last \in Nat \ {0}  BY <1>4, <2>6, <2>7
    <3> QED  BY <3>1, AnchorMade DEF CrossAnchor, groups
  <2>11. r = [j \in 1..m |-> CrossAnchor(layout, closes, e[j])]
    <3>1. r = [j \in 1..m |-> [pos |-> t[j].pos, len |-> 0, page |-> t[j].page, block |-> 0]]
      BY <2>1, <2>5
    <3> QED  BY <2>8, <3>1 DEF CrossAnchor, groups
  <2> HIDE DEF X
  <2>12. r \in Seq(X) /\ Len(r) = m  BY <2>5, <2>10, <2>11
  <2>13. e \in [1..m -> 1..n]  BY <2>5, <2>6
  <2>14. CrossOf(r, layout, closes, e)
    BY <1>6, <2>5, <2>6, <2>7, <2>9, <2>12, <2>13 DEF CrossOf, groups
  <2> QED  BY <2>12, <2>14 DEF r, X
<1> QED  BY <1>5, <1>6

-----------------------------------------------------------------------------
(* Anchors by position, on pages that do not decrease.                      *)
Mapped(t, layout) == t \in Seq(AnchorsOf(layout)) /\ Positioned(t) /\ Rising(t)

(* What is kept of anchors is a mapping: a row of them, all of them if no   *)
(* page is lower than one before.                                           *)
LEMMA KeptMapped ==
  ASSUME NEW layout, NEW s \in Seq(AnchorsOf(layout))
  PROVE  LET found == ByPosition(s)
         IN /\ Mapped(Kept(found), layout)
            /\ s # <<>> => Kept(found) # <<>>
            /\ Rising(found) => Kept(found) = found
<1> DEFINE X == AnchorsOf(layout)
           found == ByPosition(s)
           n == Len(found)
           t == Kept(found)
<1>1. \A x \in X : x.pos \in Int /\ x.page \in Int  BY AnchorHas
<1>2. found \in Seq(X) /\ Len(found) = Len(s) /\ Positioned(found)  BY <1>1, PositionedAgain
<1> HIDE DEF found, X
<1>3. /\ t \in Seq(X) /\ (found # <<>> => t # <<>>)
      /\ \E e : RowOf(t, found, n, e)
      /\ Rising(found) => t = found
  BY <1>1, <1>2, KeptRow
<1>4. PICK e : RowOf(t, found, n, e)  BY <1>3
<1> HIDE DEF t
<1>5. Positioned(t)
  <2> SUFFICES ASSUME NEW j \in 1..Len(t), NEW k \in 1..Len(t), j < k PROVE t[j].pos <= t[k].pos
    BY DEF Positioned
  <2>1. e[j] \in 1..n /\ e[k] \in 1..n /\ e[j] < e[k] /\ t[j] = found[e[j]] /\ t[k] = found[e[k]]
    BY <1>4 DEF RowOf
  <2> QED  BY <1>2, <2>1 DEF Positioned
<1>6. Rising(t)
  BY <1>4 DEF RowOf, Rising
<1>7. s # <<>> => found # <<>>
  <2> HAVE s # <<>>
  <2>1. s \in Seq(X)  BY DEF X
  <2>2. Len(s) # 0  BY <2>1
  <2> QED  BY <1>2, <2>2
<1> QED  BY <1>3, <1>5, <1>6, <1>7 DEF Mapped, t, found, X

(* What a block gives between two positions.                                *)
ClaimFits(c, layout, b, from, to) ==
  /\ Len(c) = 1 /\ c[1] \in AnchorsOf(layout) /\ c[1].block = b /\ c[1].page = layout[b].page
  /\ from <= c[1].pos /\ c[1].pos + c[1].len <= to /\ c[1].len > 0

(* It is an anchor of the block, with its text between the two positions,   *)
(* or nothing; nothing for a block without text.                            *)
LEMMA ClaimHas ==
  ASSUME NEW layout, LayoutOK(layout), NEW b \in DOMAIN layout, NEW from \in Nat, NEW to \in Nat
  PROVE  LET c == Claim(layout, b, from, to)
         IN (c = <<>> \/ ClaimFits(c, layout, b, from, to)) /\ (layout[b].len = 0 => c = <<>>)
<1> DEFINE block == layout[b]
           In(places, n) == {p \in places : from <= p /\ p + n <= to}
           A(places, n) == [pos |-> Least(In(places, n)), len |-> n, page |-> block.page, block |-> b]
           c == Claim(layout, b, from, to)
<1>1. /\ b \in Nat /\ block.page \in Nat \ {0} /\ block.len \in Nat
      /\ block.full \subseteq Nat /\ IsFiniteSet(block.full)
      /\ block.frag \subseteq Nat /\ IsFiniteSet(block.frag)
      /\ block.len = 0 => block.full = {} /\ block.frag = {}
  BY BlockHas
<1>2. ASSUME NEW S, S \subseteq Nat, IsFiniteSet(S), NEW n \in Nat, Unique(In(S, n)), n > 0
      PROVE  ClaimFits(<<A(S, n)>>, layout, b, from, to)
  <2> DEFINE I == In(S, n)
             least == Least(I)
  <2>1. I \in SUBSET S  OBVIOUS
  <2>2. IsFiniteSet(I) /\ I \subseteq Nat  BY <1>2, <2>1, FS_Subset
  <2>3. least \in I /\ least \in Nat  BY <1>2, <2>2, UniqueLeast
  <2>4. from <= least /\ least + n <= to  BY <2>3
  <2> HIDE DEF I, least
  <2> DEFINE v == [pos |-> least, len |-> n, page |-> block.page, block |-> b]
  <2>5. v \in AnchorsOf(layout)  BY <1>1, <2>3, AnchorMade
  <2>6. v.pos = least /\ v.len = n /\ v.block = b /\ v.page = block.page  OBVIOUS
  <2>7. A(S, n) = v  BY DEF least, I
  <2> HIDE DEF v, A
  <2>8. Len(<<v>>) = 1 /\ <<v>>[1] = v  OBVIOUS
  <2>9. ClaimFits(<<v>>, layout, b, from, to)  BY <1>2, <2>4, <2>5, <2>6, <2>8 DEF ClaimFits
  <2> QED  BY <2>7, <2>9
<1>3. Unique(In(block.full, block.len)) => c = <<A(block.full, block.len)>>
  BY DEF Claim
<1>4. ~Unique(In(block.full, block.len)) /\ Unique(In(block.frag, 1)) => c = <<A(block.frag, 1)>>
  BY DEF Claim
<1>5. ~Unique(In(block.full, block.len)) /\ ~Unique(In(block.frag, 1)) => c = <<>>
  BY DEF Claim
<1>6. block.len = 0 => ~Unique(In(block.full, block.len)) /\ ~Unique(In(block.frag, 1))
  <2> HAVE block.len = 0
  <2>1. In(block.full, block.len) = {} /\ In(block.frag, 1) = {}  BY <1>1
  <2>2. {} \subseteq Nat /\ IsFiniteSet({})  BY FS_EmptySet
  <2>3. ~Unique({})  BY <2>2, UniqueLeast
  <2> QED  BY <2>1, <2>3
<1> HIDE DEF c
<1>7. c = <<>> \/ ClaimFits(c, layout, b, from, to)
  <2>1. CASE Unique(In(block.full, block.len))
    <3>1. block.len > 0  BY <1>1, <1>6, <2>1
    <3>2. ClaimFits(<<A(block.full, block.len)>>, layout, b, from, to)
      <4> HIDE DEF A, In, block
      <4> QED  BY <1>1, <1>2, <2>1, <3>1
    <3> HIDE DEF A
    <3> QED  BY <1>3, <2>1, <3>2
  <2>2. CASE ~Unique(In(block.full, block.len)) /\ Unique(In(block.frag, 1))
    <3>1. ClaimFits(<<A(block.frag, 1)>>, layout, b, from, to)
      <4>1. 1 \in Nat /\ 1 > 0  OBVIOUS
      <4> HIDE DEF A, In, block
      <4> QED  BY <1>1, <1>2, <2>2, <4>1
    <3> HIDE DEF A
    <3> QED  BY <1>4, <2>2, <3>1
  <2>3. CASE ~Unique(In(block.full, block.len)) /\ ~Unique(In(block.frag, 1))
    BY <1>5, <2>3
  <2> QED  BY <2>1, <2>2, <2>3
<1> QED  BY <1>5, <1>6, <1>7 DEF c

(* The anchors of a window lie between its two, on pages between theirs,    *)
(* and those further on have no lower page.                                 *)
Between(v, left, right) ==
  /\ left.pos + left.len <= v.pos /\ v.pos < right.pos
  /\ left.page <= v.page /\ v.page <= right.page
WindowFits(w, layout, left, right) ==
  /\ w \in Seq(AnchorsOf(layout))
  /\ \A m \in 1..Len(w) : Between(w[m], left, right)
  /\ \A m, k \in 1..Len(w) : w[m].pos <= w[k].pos => w[m].page <= w[k].page

(* The pages of a layout do not decrease.                                   *)
LEMMA PagesInOrder ==
  ASSUME NEW layout, LayoutOK(layout), NEW b \in DOMAIN layout, NEW c \in DOMAIN layout, b <= c
  PROVE  layout[b].page <= layout[c].page
<1>1. b \in Nat /\ c \in Nat /\ layout[b].page \in Nat  BY BlockHas
<1>2. b = c \/ b < c  BY <1>1
<1> QED  BY <1>1, <1>2 DEF LayoutOK

(* The blocks of a window give such anchors.                                *)
LEMMA WindowBetween ==
  ASSUME NEW layout, LayoutOK(layout),
         NEW left \in AnchorsOf(layout), NEW right \in AnchorsOf(layout),
         left.block # 0, right.block # 0, left.block < right.block
  PROVE  /\ WindowFits(Window(layout, left, right), layout, left, right)
         /\ (\A b \in left.block + 1..right.block - 1 : layout[b].len = 0)
              => Window(layout, left, right) = <<>>
<1> DEFINE X == AnchorsOf(layout)
           from == left.pos + left.len
           to == right.pos
           I == left.block + 1..right.block - 1
           Claimed(b) == Claim(layout, b, from, to)
           once == {b \in I : Claimed(b) # <<>>}
           Clear(b, c) ==
             /\ c < b => Claimed(c)[1].pos + Claimed(c)[1].len <= Claimed(b)[1].pos
             /\ c > b => Claimed(b)[1].pos + Claimed(b)[1].len <= Claimed(c)[1].pos
           K == {b \in once : \A c \in once : Clear(b, c)}
           added == Ordered(K)
           w == Window(layout, left, right)
<1>1. /\ left.pos \in Nat /\ left.len \in Nat /\ right.pos \in Nat /\ left.page \in Nat /\ right.page \in Nat
      /\ left.block \in DOMAIN layout /\ left.page = layout[left.block].page
      /\ right.block \in DOMAIN layout /\ right.page = layout[right.block].page
      /\ left.block \in Nat /\ right.block \in Nat
  BY AnchorHas
<1>2. from \in Nat /\ to \in Nat  BY <1>1
<1>3. \A b \in I : b \in DOMAIN layout /\ b \in Nat /\ left.block <= b /\ b <= right.block
  <2>1. left.block \in 1..Len(layout) /\ right.block \in 1..Len(layout) /\ DOMAIN layout = 1..Len(layout)
        /\ Len(layout) \in Nat
    BY <1>1, BlockHas
  <2> QED  BY <1>1, <2>1
<1>4. w = [n \in DOMAIN added |-> Claimed(added[n])[1]]
  BY DEF Window
<1>5. \A b \in once : ClaimFits(Claimed(b), layout, b, from, to)
  <2> TAKE b \in once
  <2>1. b \in DOMAIN layout /\ Claimed(b) # <<>>  BY <1>3
  <2> HIDE DEF from, to
  <2> QED  BY <1>2, <2>1, ClaimHas
<1>6. once \subseteq I  OBVIOUS
<1>7. (\A b \in I : layout[b].len = 0) => once = {}
  <2> HAVE \A b \in I : layout[b].len = 0
  <2> SUFFICES ASSUME NEW b \in I, Claimed(b) # <<>> PROVE FALSE
    OBVIOUS
  <2>1. b \in DOMAIN layout /\ layout[b].len = 0  BY <1>3
  <2> HIDE DEF from, to
  <2> QED  BY <1>2, <2>1, ClaimHas
<1> HIDE DEF Claimed, w
<1>8. \A b \in K, c \in K : c < b => Claimed(c)[1].pos + Claimed(c)[1].len <= Claimed(b)[1].pos
  OBVIOUS
<1>9. K \subseteq once  OBVIOUS
<1> HIDE DEF once, K
<1>10. IsFiniteSet(K) /\ K \subseteq Int
  <2>1. left.block + 1 \in Int /\ right.block - 1 \in Int  BY <1>1
  <2> DEFINE l == left.block + 1
             r == right.block - 1
  <2> HIDE DEF l, r
  <2>2. IsFiniteSet(l..r)  BY <2>1, FS_Interval DEF l, r
  <2>3. IsFiniteSet(I)  BY <2>2 DEF l, r
  <2> HIDE DEF I
  <2>4. IsFiniteSet(K)  BY <1>6, <1>9, <2>3, FS_Subset
  <2> QED  BY <1>3, <1>6, <1>9, <2>4
<1>11. added \in Seq(K) /\ Len(added) = Cardinality(K)  BY <1>10, OrderedOnto
<1> HIDE DEF added
<1>12. /\ Len(added) \in Nat /\ DOMAIN added = 1..Len(added)
       /\ \A n \in 1..Len(added) : added[n] \in K
  BY <1>11
<1> DEFINE k == Len(added)
           V(n) == Claimed(added[n])[1]
<1>13. \A n \in 1..k : /\ V(n) \in X /\ V(n).block = added[n] /\ V(n).page = layout[added[n]].page
                       /\ from <= V(n).pos /\ V(n).pos + V(n).len <= to /\ V(n).len > 0
                       /\ added[n] \in I
  <2> TAKE n \in 1..k
  <2>1. added[n] \in once /\ added[n] \in I  BY <1>6, <1>9, <1>12
  <2> HIDE DEF from, to, I
  <2>2. ClaimFits(Claimed(added[n]), layout, added[n], from, to)  BY <1>5, <2>1
  <2> QED  BY <2>1, <2>2 DEF ClaimFits
<1>14. w = [n \in 1..k |-> V(n)]  BY <1>4, <1>12
<1> HIDE DEF V, k
<1>15. w \in Seq(X) /\ Len(w) = k /\ \A n \in 1..k : w[n] = V(n)
  <2>1. k \in Nat  BY <1>12 DEF k
  <2>2. \A n \in 1..k : V(n) \in X  BY <1>13
  <2> HIDE DEF X
  <2> QED  BY <1>14, <2>1, <2>2
<1>16. ASSUME NEW m \in 1..k PROVE Between(w[m], left, right)
  <2>1. V(m) \in X /\ added[m] \in I  BY <1>13
  <2>2. V(m).pos \in Nat /\ V(m).len \in Nat  BY <2>1, AnchorHas
  <2>3. V(m).pos < to  BY <1>2, <1>13, <2>2
  <2>4. added[m] \in DOMAIN layout /\ left.block <= added[m] /\ added[m] <= right.block  BY <1>3, <2>1
  <2>5. left.page <= V(m).page /\ V(m).page <= right.page
    BY <1>1, <1>13, <2>4, PagesInOrder
  <2> QED  BY <1>13, <1>15, <2>3, <2>5 DEF Between
<1>17. ASSUME NEW m \in 1..k, NEW n \in 1..k, w[m].pos <= w[n].pos PROVE w[m].page <= w[n].page
  <2>1. /\ V(m) \in X /\ V(n) \in X /\ added[m] \in DOMAIN layout /\ added[n] \in DOMAIN layout
        /\ added[m] \in K /\ added[n] \in K
    BY <1>3, <1>12, <1>13 DEF k
  <2>2. V(m).pos \in Nat /\ V(n).pos \in Nat /\ V(m).len \in Nat /\ V(n).len \in Nat  BY <2>1, AnchorHas
  <2>3. ~(added[n] < added[m])
    <3> SUFFICES ASSUME added[n] < added[m] PROVE FALSE  OBVIOUS
    <3>1. V(n).pos + V(n).len <= V(m).pos  BY <1>8, <2>1 DEF V
    <3>2. V(n).len > 0  BY <1>13
    <3>3. V(m).pos <= V(n).pos  BY <1>15, <1>17
    <3> QED  BY <2>2, <3>1, <3>2, <3>3
  <2>4. added[m] <= added[n]
    <3>1. added[m] \in Nat /\ added[n] \in Nat  BY <2>1, BlockHas
    <3> QED  BY <2>3, <3>1
  <2>5. layout[added[m]].page <= layout[added[n]].page  BY <2>1, <2>4, PagesInOrder
  <2> QED  BY <1>13, <1>15, <2>5
<1>18. WindowFits(w, layout, left, right)  BY <1>15, <1>16, <1>17 DEF WindowFits
<1>19. (\A b \in I : layout[b].len = 0) => w = <<>>
  <2> HAVE \A b \in I : layout[b].len = 0
  <2>1. K = {}  BY <1>7, <1>9
  <2>2. k = 0  BY <1>12, <2>1 DEF k
  <2> QED  BY <1>15, <2>2
<1> QED  BY <1>18, <1>19 DEF w

(* What _bounded_block_anchors adds behind the i-th anchor.                 *)
Adjoins(kept, i, j) ==
  LET fixed == {k \in DOMAIN kept : kept[k].block # 0}
  IN /\ {i, j} \subseteq fixed /\ kept[j].block > kept[i].block
     /\ \A k \in fixed : kept[k].block <= kept[i].block \/ kept[k].block >= kept[j].block
WholeAnchor(layout, a) == a.len = layout[a.block].len /\ a.pos \in layout[a.block].full
Nexts(layout, kept, i) ==
  {j \in DOMAIN kept : /\ Adjoins(kept, i, j) /\ Compatible(kept, i, j)
                       /\ WholeAnchor(layout, kept[i]) /\ WholeAnchor(layout, kept[j])}
Filling(layout, kept, i) ==
  LET next == Nexts(layout, kept, i)
  IN IF next = {} THEN <<>> ELSE Window(layout, kept[i], kept[CHOOSE j \in next : TRUE])

(* An added anchor lies between an anchor and the next one, on pages        *)
(* between theirs.                                                          *)
InGap(v, kept, i) ==
  /\ i + 1 \in 1..Len(kept) /\ kept[i].pos < v.pos /\ v.pos < kept[i + 1].pos
  /\ kept[i].page <= v.page /\ v.page <= kept[i + 1].page
Onward(v, u) == v.pos <= u.pos => v.page <= u.page
EachHeld(layout, kept) ==
  \A b \in DOMAIN layout : layout[b].len > 0 => \E k \in 1..Len(kept) : kept[k].block = b

(* What is added behind an anchor lies before the next one; nothing is      *)
(* added where each block has its anchor.                                   *)
LEMMA FillingFits ==
  ASSUME NEW layout, LayoutOK(layout), NEW kept \in Seq(AnchorsOf(layout)), NEW i \in 1..Len(kept)
  PROVE  LET f == Filling(layout, kept, i)
         IN /\ f \in Seq(AnchorsOf(layout))
            /\ \A m \in 1..Len(f) : InGap(f[m], kept, i)
            /\ \A m, k \in 1..Len(f) : Onward(f[m], f[k])
            /\ EachHeld(layout, kept) => f = <<>>
<1> DEFINE X == AnchorsOf(layout)
           next == Nexts(layout, kept, i)
           f == Filling(layout, kept, i)
<1>1. Len(kept) \in Nat /\ DOMAIN kept = 1..Len(kept) /\ \A j \in 1..Len(kept) : kept[j] \in X
  <2>1. kept \in Seq(X)  OBVIOUS
  <2> HIDE DEF X
  <2> QED  BY <2>1
<1>2. CASE next = {}
  <2>1. f = <<>>  BY <1>2 DEF Filling
  <2> QED  BY <2>1
<1>3. CASE next # {}
  <2> DEFINE j == CHOOSE k \in next : TRUE
             left == kept[i]
             right == kept[j]
  <2>1. j \in next  BY <1>3
  <2>2. f = Window(layout, left, right)  BY <1>3 DEF Filling
  <2> HIDE DEF j, next
  <2>3. /\ j \in 1..Len(kept) /\ Adjoins(kept, i, j) /\ j = i + 1
        /\ WholeAnchor(layout, left) /\ WholeAnchor(layout, right)
    BY <1>1, <2>1 DEF Nexts, Compatible, next
  <2>4. /\ left \in X /\ right \in X
        /\ left.block # 0 /\ right.block # 0 /\ left.block < right.block
        /\ \A k \in DOMAIN kept : kept[k].block # 0 =>
             kept[k].block <= left.block \/ kept[k].block >= right.block
    <3>1. left \in X /\ right \in X  BY <1>1, <2>3
    <3>2. left.block \in Nat /\ right.block \in Nat  BY <3>1, AnchorHas
    <3> QED  BY <2>3, <3>1, <3>2 DEF Adjoins
  <2>5. /\ left.block \in DOMAIN layout /\ left.pos \in Nat /\ left.len \in Nat
        /\ right.block \in DOMAIN layout /\ left.block \in Nat /\ right.block \in Nat
    BY <2>4, AnchorHas
  <2>6. left.len > 0
    <3>1. left.pos \in layout[left.block].full /\ left.len = layout[left.block].len
      BY <2>3 DEF WholeAnchor
    <3>2. layout[left.block].len # 0  BY <2>5, <3>1, BlockHas
    <3> QED  BY <2>5, <3>1, <3>2
  <2> HIDE DEF left, right, f
  <2>7. /\ WindowFits(f, layout, left, right)
        /\ (\A b \in left.block + 1..right.block - 1 : layout[b].len = 0) => f = <<>>
    BY <2>2, <2>4, WindowBetween
  <2>8. f \in Seq(X) /\ Len(f) \in Nat  BY <2>7 DEF WindowFits
  <2>9. \A m \in 1..Len(f) : f[m] \in X
    <3> HIDE DEF X
    <3> QED  BY <2>8
  <2>10. ASSUME NEW m \in 1..Len(f) PROVE InGap(f[m], kept, i)
    <3>1. Between(f[m], left, right)  BY <2>7 DEF WindowFits
    <3>2. f[m].pos \in Nat  BY <2>9, AnchorHas
    <3>3. left.pos < f[m].pos  BY <2>5, <2>6, <3>1, <3>2 DEF Between
    <3> QED  BY <2>3, <3>1, <3>3 DEF InGap, Between, left, right
  <2>11. \A m, k \in 1..Len(f) : Onward(f[m], f[k])  BY <2>7 DEF WindowFits, Onward
  <2>12. EachHeld(layout, kept) => f = <<>>
    <3> HAVE EachHeld(layout, kept)
    <3> SUFFICES ASSUME NEW b \in left.block + 1..right.block - 1 PROVE layout[b].len = 0
      BY <2>7
    <3>1. b \in DOMAIN layout /\ b # 0 /\ left.block < b /\ b < right.block
      <4>1. DOMAIN layout = 1..Len(layout) /\ Len(layout) \in Nat  BY <2>5, BlockHas
      <4> QED  BY <2>5, <4>1
    <3>2. layout[b].len \in Nat  BY <3>1, BlockHas
    <3> SUFFICES ASSUME layout[b].len > 0 PROVE FALSE
      BY <3>2
    <3>3. PICK k \in 1..Len(kept) : kept[k].block = b  BY <3>1 DEF EachHeld
    <3>4. b <= left.block \/ b >= right.block  BY <1>1, <2>4, <3>1, <3>3
    <3>5. b \in Nat  BY <3>1, BlockHas
    <3> QED  BY <2>5, <3>1, <3>4, <3>5
  <2> QED  BY <2>8, <2>10, <2>11, <2>12 DEF f
<1> QED  BY <1>2, <1>3

(* All that _bounded_block_anchors adds, each between two that were there.  *)
Gapped(w, kept, gap) ==
  /\ gap \in [1..Len(w) -> 1..Len(kept)]
  /\ \A m \in 1..Len(w) : InGap(w[m], kept, gap[m])
  /\ \A m, k \in 1..Len(w) : gap[m] = gap[k] => Onward(w[m], w[k])

(* So it is with all that is added.                                         *)
LEMMA WindowedFits ==
  ASSUME NEW layout, LayoutOK(layout), NEW kept \in Seq(AnchorsOf(layout))
  PROVE  LET w == Windowed(layout, kept)
         IN /\ w \in Seq(AnchorsOf(layout)) /\ \E gap : Gapped(w, kept, gap)
            /\ EachHeld(layout, kept) => w = <<>>
<1> DEFINE X == AnchorsOf(layout)
           A == Seq(X)
           n == Len(kept)
           s == [i \in DOMAIN kept |-> Filling(layout, kept, i)]
           w == Windowed(layout, kept)
<1>1. w = FlattenSeq(s)
  BY DEF Windowed, Filling, Nexts, Adjoins, WholeAnchor
<1>2. n \in Nat /\ DOMAIN kept = 1..n
  <2>1. kept \in Seq(X)  OBVIOUS
  <2> QED  BY <2>1
<1>3. ASSUME NEW i \in 1..n
      PROVE  /\ Filling(layout, kept, i) \in A
             /\ \A m \in 1..Len(Filling(layout, kept, i)) : InGap(Filling(layout, kept, i)[m], kept, i)
             /\ \A m, k \in 1..Len(Filling(layout, kept, i)) :
                  Onward(Filling(layout, kept, i)[m], Filling(layout, kept, i)[k])
             /\ EachHeld(layout, kept) => Filling(layout, kept, i) = <<>>
  BY FillingFits
<1>4. s \in Seq(A) /\ Len(s) = n /\ \A i \in 1..n : s[i] = Filling(layout, kept, i)
  <2> HIDE DEF A, n
  <2>1. s \in [1..n -> A]  BY <1>2, <1>3
  <2> QED  BY <1>2, <2>1
<1>5. \A i \in 1..n :
        /\ s[i] \in A
        /\ \A m \in 1..Len(s[i]) : InGap(s[i][m], kept, i)
        /\ \A m, k \in 1..Len(s[i]) : Onward(s[i][m], s[i][k])
        /\ EachHeld(layout, kept) => s[i] = <<>>
  BY <1>3, <1>4
<1> HIDE DEF s, w, n
<1>6. w \in Seq(X) /\ \E h : Laid(w, s, n, h)  BY <1>1, <1>4, FlattenPlaces
<1>7. PICK h : Laid(w, s, n, h)  BY <1>6
<1> DEFINE gap == [m \in 1..Len(w) |-> h[m].row]
<1>8. \A m \in 1..Len(w) : /\ h[m].row \in 1..n /\ h[m].col \in 1..Len(s[h[m].row])
                           /\ w[m] = s[h[m].row][h[m].col]
  BY <1>7 DEF Laid
<1>9. Gapped(w, kept, gap)
  <2>1. gap \in [1..Len(w) -> 1..Len(kept)] /\ \A m \in 1..Len(w) : gap[m] = h[m].row
    BY <1>8 DEF n
  <2> HIDE DEF gap
  <2>2. \A m \in 1..Len(w) : InGap(w[m], kept, gap[m])  BY <1>5, <1>8, <2>1
  <2>3. ASSUME NEW m \in 1..Len(w), NEW k \in 1..Len(w), gap[m] = gap[k]
        PROVE  Onward(w[m], w[k])
    <3> DEFINE i == h[m].row
               t == s[i]
    <3>1. h[k].row = i /\ i \in 1..n  BY <1>8, <2>1, <2>3
    <3>2. /\ h[m].col \in 1..Len(t) /\ h[k].col \in 1..Len(t)
          /\ w[m] = t[h[m].col] /\ w[k] = t[h[k].col]
      BY <1>8, <3>1
    <3>3. \A a, b \in 1..Len(t) : Onward(t[a], t[b])  BY <1>5, <3>1
    <3> QED  BY <3>2, <3>3
  <2> QED  BY <2>1, <2>2, <2>3 DEF Gapped
<1>10. EachHeld(layout, kept) => w = <<>>
  <2> HAVE EachHeld(layout, kept)
  <2>1. \A i \in 1..n : s[i] = <<>>  BY <1>5
  <2>2. \A m \in 1..Len(w) : FALSE
    <3> TAKE m \in 1..Len(w)
    <3>1. s[h[m].row] = <<>> /\ h[m].col \in 1..Len(s[h[m].row])  BY <1>8, <2>1
    <3> QED  BY <3>1
  <2>3. Len(w) \in Nat  BY <1>6
  <2>4. Len(w) = 0
    <3> SUFFICES ASSUME Len(w) # 0 PROVE FALSE  OBVIOUS
    <3>1. 1 \in 1..Len(w)  BY <2>3
    <3> QED  BY <2>2, <3>1
  <2> QED  BY <1>6, <2>4
<1> QED  BY <1>6, <1>9, <1>10 DEF w

(* Along a mapping neither position nor page decreases.                     *)
LEMMA MappedHas ==
  ASSUME NEW layout, NEW t, Mapped(t, layout), NEW j \in 1..Len(t), NEW k \in 1..Len(t)
  PROVE  /\ Len(t) \in Nat /\ t[j] \in AnchorsOf(layout)
         /\ t[j].pos \in Nat /\ t[j].page \in Nat \ {0}
         /\ t[k].pos \in Nat /\ t[k].page \in Nat \ {0}
         /\ j <= k => t[j].pos <= t[k].pos /\ t[j].page <= t[k].page
         /\ t[j].pos < t[k].pos => j < k
<1> DEFINE X == AnchorsOf(layout)
<1>1. t \in Seq(X) /\ Positioned(t) /\ Rising(t)  BY DEF Mapped
<1>2. Len(t) \in Nat /\ t[j] \in X /\ t[k] \in X
  <2> HIDE DEF X
  <2> QED  BY <1>1
<1>3. /\ t[j].pos \in Nat /\ t[j].page \in Nat \ {0} /\ t[k].pos \in Nat /\ t[k].page \in Nat \ {0}
  BY <1>2, AnchorHas
<1>4. j <= k => t[j].pos <= t[k].pos /\ t[j].page <= t[k].page
  <2> HAVE j <= k
  <2>1. j = k \/ j < k  BY <1>2
  <2> QED  BY <1>1, <1>3, <2>1 DEF Positioned, Rising
<1>5. t[j].pos < t[k].pos => j < k
  <2> SUFFICES ASSUME t[j].pos < t[k].pos, ~(j < k) PROVE FALSE
    OBVIOUS
  <2>1. j = k \/ k < j  BY <1>2
  <2> QED  BY <1>1, <1>3, <2>1 DEF Positioned
<1> QED  BY <1>2, <1>3, <1>4, <1>5

(* One anchor comes before another by position.                             *)
Sooner2(v, u, i, j) == v.pos < u.pos \/ (v.pos = u.pos /\ i < j)

(* With the added anchors pages do not decrease by position.                *)
LEMMA CompletedRises ==
  ASSUME NEW layout, NEW kept, Mapped(kept, layout),
         NEW w \in Seq(AnchorsOf(layout)), NEW gap, Gapped(w, kept, gap)
  PROVE  Rising(ByPosition(kept \o w))
<1> DEFINE X == AnchorsOf(layout)
           n == Len(kept)
           k == Len(w)
           s == kept \o w
           t == ByPosition(s)
<1>1. kept \in Seq(X) /\ w \in Seq(X)  BY DEF Mapped
<1>2. /\ n \in Nat /\ k \in Nat /\ s \in Seq(X) /\ Len(s) = n + k
      /\ \A i \in 1..n : s[i] = kept[i]
      /\ \A i \in n + 1..n + k : s[i] = w[i - n] /\ i - n \in 1..k
  <2> HIDE DEF X
  <2> QED  BY <1>1
<1>3. \A m \in 1..k : w[m] \in X
  <2> HIDE DEF X
  <2> QED  BY <1>1
<1>4. \A x \in X : x.pos \in Nat /\ x.page \in Nat  BY AnchorHas
<1> HIDE DEF X, n, k, s
<1>5. /\ \A m \in 1..k : /\ gap[m] \in 1..n /\ gap[m] + 1 \in 1..n
                         /\ kept[gap[m]].pos < w[m].pos /\ w[m].pos < kept[gap[m] + 1].pos
                         /\ kept[gap[m]].page <= w[m].page /\ w[m].page <= kept[gap[m] + 1].page
      /\ \A m, l \in 1..k : gap[m] = gap[l] => Onward(w[m], w[l])
  BY DEF Gapped, InGap, n, k
<1>6. \A i, j \in 1..n : /\ kept[i].pos \in Nat /\ kept[i].page \in Nat
                         /\ i <= j => kept[i].pos <= kept[j].pos /\ kept[i].page <= kept[j].page
                         /\ kept[i].pos < kept[j].pos => i < j
  BY MappedHas DEF n
<1>7. ASSUME NEW i \in 1..n, NEW j \in 1..n, Sooner2(kept[i], kept[j], i, j)
      PROVE  kept[i].page <= kept[j].page
  <2>1. i <= j
    <3>1. kept[i].pos < kept[j].pos => i < j  BY <1>6
    <3> QED  BY <1>7, <3>1, <1>2 DEF Sooner2
  <2> QED  BY <1>6, <2>1
<1>8. ASSUME NEW i \in 1..n, NEW m \in 1..k, kept[i].pos <= w[m].pos
      PROVE  kept[i].page <= w[m].page
  <2> DEFINE g == gap[m]
  <2>1. /\ g \in 1..n /\ g + 1 \in 1..n /\ w[m].pos < kept[g + 1].pos /\ kept[g].page <= w[m].page
    BY <1>5
  <2>2. w[m].pos \in Nat /\ w[m].page \in Nat  BY <1>3, <1>4
  <2> HIDE DEF g
  <2>3. kept[i].pos \in Nat /\ kept[i].page \in Nat /\ kept[g + 1].pos \in Nat /\ kept[g].page \in Nat
    BY <1>6, <2>1
  <2>4. kept[i].pos < kept[g + 1].pos  BY <1>8, <2>1, <2>2, <2>3
  <2>5. i < g + 1  BY <1>6, <2>1, <2>4
  <2>6. i <= g  BY <1>2, <2>1, <2>5
  <2>7. kept[i].page <= kept[g].page  BY <1>6, <2>1, <2>6
  <2> QED  BY <2>1, <2>2, <2>3, <2>7
<1>9. ASSUME NEW i \in 1..n, NEW m \in 1..k, w[m].pos <= kept[i].pos
      PROVE  w[m].page <= kept[i].page
  <2> DEFINE g == gap[m]
  <2>1. /\ g \in 1..n /\ g + 1 \in 1..n /\ kept[g].pos < w[m].pos /\ w[m].page <= kept[g + 1].page
    BY <1>5
  <2>2. w[m].pos \in Nat /\ w[m].page \in Nat  BY <1>3, <1>4
  <2> HIDE DEF g
  <2>3. kept[i].pos \in Nat /\ kept[i].page \in Nat /\ kept[g + 1].page \in Nat /\ kept[g].pos \in Nat
    BY <1>6, <2>1
  <2>4. kept[g].pos < kept[i].pos  BY <1>9, <2>1, <2>2, <2>3
  <2>5. g < i  BY <1>6, <2>1, <2>4
  <2>6. g + 1 <= i  BY <1>2, <2>1, <2>5
  <2>7. kept[g + 1].page <= kept[i].page  BY <1>6, <2>1, <2>6
  <2> QED  BY <2>1, <2>2, <2>3, <2>7
<1>10. ASSUME NEW m \in 1..k, NEW l \in 1..k, w[m].pos <= w[l].pos
       PROVE  w[m].page <= w[l].page
  <2> DEFINE g == gap[m]
             h == gap[l]
  <2>1. /\ g \in 1..n /\ g + 1 \in 1..n /\ kept[g].pos < w[m].pos /\ w[m].page <= kept[g + 1].page
        /\ h \in 1..n /\ h + 1 \in 1..n /\ w[l].pos < kept[h + 1].pos /\ kept[h].page <= w[l].page
        /\ g = h => Onward(w[m], w[l])
    BY <1>5
  <2>2. w[m].pos \in Nat /\ w[m].page \in Nat /\ w[l].pos \in Nat /\ w[l].page \in Nat  BY <1>3, <1>4
  <2> HIDE DEF g, h
  <2>3. CASE g = h  BY <1>10, <2>1, <2>3 DEF Onward
  <2>4. CASE g < h
    <3>1. g + 1 <= h  BY <1>2, <2>1, <2>4
    <3>2. kept[g + 1].page <= kept[h].page  BY <1>6, <2>1, <3>1
    <3>3. kept[g + 1].page \in Nat /\ kept[h].page \in Nat  BY <1>6, <2>1
    <3> QED  BY <2>1, <2>2, <3>2, <3>3, SMTT(40)
  <2>5. CASE h < g
    <3>1. h + 1 <= g  BY <1>2, <2>1, <2>5
    <3>2. kept[h + 1].pos <= kept[g].pos  BY <1>6, <2>1, <3>1
    <3>3. kept[h + 1].pos \in Nat /\ kept[g].pos \in Nat  BY <1>6, <2>1
    <3> QED  BY <1>10, <2>1, <2>2, <3>2, <3>3, SMTT(40)
  <2>6. g = h \/ g < h \/ h < g  BY <1>2, <2>1
  <2> QED  BY <2>3, <2>4, <2>5, <2>6
<1>11. ASSUME NEW i \in 1..n + k, NEW j \in 1..n + k, Sooner2(s[i], s[j], i, j)
       PROVE  s[i].page <= s[j].page
  <2>1. \A l \in 1..n + k : l \in 1..n \/ l \in n + 1..n + k  BY <1>2
  <2>2. \A l \in 1..n + k : s[l].pos \in Nat
    <3>1. s \in Seq(X) /\ Len(s) = n + k  BY <1>2
    <3>2. \A l \in 1..n + k : s[l] \in X  BY <3>1
    <3> QED  BY <1>4, <3>2
  <2>3. s[i].pos <= s[j].pos
    <3>1. s[i].pos \in Nat /\ s[j].pos \in Nat  BY <2>2
    <3> QED  BY <1>11, <3>1 DEF Sooner2
  <2>4. CASE i \in 1..n /\ j \in 1..n
    <3>1. s[i] = kept[i] /\ s[j] = kept[j]  BY <1>2, <2>4
    <3>2. Sooner2(kept[i], kept[j], i, j)  BY <1>11, <3>1
    <3> QED  BY <1>7, <2>4, <3>1, <3>2
  <2>5. CASE i \in 1..n /\ j \in n + 1..n + k
    <3>1. s[i] = kept[i] /\ s[j] = w[j - n] /\ j - n \in 1..k  BY <1>2, <2>5
    <3>2. kept[i].pos <= w[j - n].pos  BY <2>3, <3>1
    <3>3. kept[i].page <= w[j - n].page  BY <1>8, <2>5, <3>1, <3>2
    <3> QED  BY <3>1, <3>3
  <2>6. CASE i \in n + 1..n + k /\ j \in 1..n
    <3>1. s[j] = kept[j] /\ s[i] = w[i - n] /\ i - n \in 1..k  BY <1>2, <2>6
    <3>2. w[i - n].pos <= kept[j].pos  BY <2>3, <3>1
    <3>3. w[i - n].page <= kept[j].page  BY <1>9, <2>6, <3>1, <3>2
    <3> QED  BY <3>1, <3>3
  <2>7. CASE i \in n + 1..n + k /\ j \in n + 1..n + k
    <3>1. s[i] = w[i - n] /\ i - n \in 1..k /\ s[j] = w[j - n] /\ j - n \in 1..k  BY <1>2, <2>7
    <3>2. w[i - n].pos <= w[j - n].pos  BY <2>3, <3>1
    <3>3. w[i - n].page <= w[j - n].page  BY <1>10, <3>1, <3>2
    <3> QED  BY <3>1, <3>3
  <2> QED  BY <2>1, <2>4, <2>5, <2>6, <2>7
<1>12. PICK p : InPosition(t, s, n + k, p)
  <2>1. \A x \in X : x.pos \in Int  BY <1>4
  <2>2. s \in Seq(X) /\ Len(s) = n + k  BY <1>2
  <2>3. \E p : InPosition(ByPosition(s), s, Len(s), p)  BY <2>1, <2>2, PositionsOrdered
  <2> QED  BY <2>2, <2>3
<1> HIDE DEF t
<1>13. /\ \A m \in 1..n + k : p[m] \in 1..n + k /\ t[m] = s[p[m]]
       /\ \A x, y \in 1..n + k : x < y => Sooner2(t[x], t[y], p[x], p[y])
       /\ t = [m \in 1..n + k |-> s[p[m]]]
  BY <1>12 DEF InPosition, Permutes, Sooner2
<1>14. Len(t) = n + k
  <2>1. DOMAIN t = 1..n + k /\ n + k \in Nat  BY <1>2, <1>13
  <2>2. \A m \in 1..n + k : s[p[m]] \in X
    <3>1. s \in Seq(X) /\ Len(s) = n + k  BY <1>2
    <3>2. \A l \in 1..n + k : s[l] \in X  BY <3>1
    <3> QED  BY <1>13, <3>2
  <2>3. t \in [1..n + k -> X]  BY <1>13, <2>2
  <2> QED  BY <2>1, <2>3
<1>15. ASSUME NEW x \in 1..n + k, NEW y \in 1..n + k, x < y PROVE t[x].page <= t[y].page
  <2>1. Sooner2(s[p[x]], s[p[y]], p[x], p[y]) /\ p[x] \in 1..n + k /\ p[y] \in 1..n + k
    BY <1>13, <1>15
  <2>2. s[p[x]].page <= s[p[y]].page  BY <1>11, <2>1
  <2> QED  BY <1>13, <2>2
<1>16. Rising(t)  BY <1>14, <1>15 DEF Rising
<1> QED  BY <1>16 DEF t, s

(* What the blocks give in the first round, block after block.              *)
CandidateRows(layout) == [b \in DOMAIN layout |-> Candidate(layout, b)]
Candidates(layout) == FlattenSeq(CandidateRows(layout))

(* Joined, they are anchors of the layout, block after block.               *)
LEMMA CandidatesHave ==
  ASSUME NEW layout, LayoutOK(layout)
  PROVE  LET n == Len(layout)
             s == CandidateRows(layout)
         IN /\ n \in Nat /\ DOMAIN layout = 1..n
            /\ s \in Seq(Seq(AnchorsOf(layout))) /\ Len(s) = n
            /\ \A b \in 1..n : s[b] = Candidate(layout, b) /\ GivesOne(s[b], layout, b)
            /\ Candidates(layout) \in Seq(AnchorsOf(layout))
            /\ \E h : Laid(Candidates(layout), s, n, h)
<1> DEFINE n == Len(layout)
           s == CandidateRows(layout)
           A == Seq(AnchorsOf(layout))
<1>1. n \in Nat /\ DOMAIN layout = 1..n
  <2>1. layout \in Seq(BlockType)  BY DEF LayoutOK
  <2> QED  BY <2>1
<1>2. \A b \in 1..n : GivesOne(Candidate(layout, b), layout, b)  BY <1>1, CandidateHas
<1>3. \A b \in 1..n : Candidate(layout, b) \in A  BY <1>2 DEF GivesOne
<1>4. s = [b \in 1..n |-> Candidate(layout, b)]  BY <1>1 DEF CandidateRows
<1> HIDE DEF n, s, A
<1>5. s \in Seq(A) /\ Len(s) = n  BY <1>1, <1>3, <1>4
<1>6. Candidates(layout) \in Seq(AnchorsOf(layout)) /\ \E h : Laid(Candidates(layout), s, Len(s), h)
  BY <1>5, FlattenPlaces DEF Candidates, s, A
<1> QED  BY <1>1, <1>2, <1>4, <1>5, <1>6 DEF n, s, A

(* The anchors of the first round.                                          *)
FirstAnchors(layout, closes) == Candidates(layout) \o CrossPage(layout, closes)

(* The first round is a mapping; it keeps all anchors where none goes back. *)
LEMMA FirstRoundHas ==
  ASSUME NEW layout, LayoutOK(layout), NEW closes, ClosesOK(closes)
  PROVE  /\ Mapped(FirstRound(layout, closes), layout)
         /\ Candidates(layout) # <<>> /\ Rising(ByPosition(FirstAnchors(layout, closes))) =>
              FirstRound(layout, closes) = ByPosition(FirstAnchors(layout, closes))
<1> DEFINE X == AnchorsOf(layout)
           s == FirstAnchors(layout, closes)
           r == FirstRound(layout, closes)
<1>1. r = IF Candidates(layout) = <<>> THEN <<>> ELSE Kept(ByPosition(s))
  BY DEF FirstRound, Candidates, CandidateRows, FirstAnchors
<1>2. s \in Seq(X)
  <2>1. Candidates(layout) \in Seq(X)  BY CandidatesHave
  <2>2. CrossPage(layout, closes) \in Seq(X)  BY CrossHas
  <2> HIDE DEF X
  <2> QED  BY <2>1, <2>2 DEF FirstAnchors
<1>3. Mapped(<<>>, layout)
  <2>1. <<>> \in Seq(X) /\ Len(<<>>) = 0  OBVIOUS
  <2> QED  BY <2>1 DEF Mapped, Positioned, Rising
<1>4. Mapped(Kept(ByPosition(s)), layout) /\ (Rising(ByPosition(s)) => Kept(ByPosition(s)) = ByPosition(s))
  BY <1>2, KeptMapped
<1> QED  BY <1>1, <1>3, <1>4

(* build_page_mapping: the anchors of the first round and those that were   *)
(* added, by position.                                                      *)
LEMMA MappingHas ==
  ASSUME NEW layout, LayoutOK(layout), NEW closes, ClosesOK(closes)
  PROVE  LET first == FirstRound(layout, closes)
         IN /\ Mapped(Mapping(layout, closes), layout)
            /\ Mapping(layout, closes) = ByPosition(first \o Windowed(layout, first))
            /\ ToSet(first) \subseteq ToSet(Mapping(layout, closes))
<1> DEFINE X == AnchorsOf(layout)
           first == FirstRound(layout, closes)
           w == Windowed(layout, first)
           s == first \o w
           r == Mapping(layout, closes)
<1>1. r = Kept(ByPosition(s))
  BY DEF Mapping
<1>2. Mapped(first, layout)  BY FirstRoundHas
<1>3. first \in Seq(X)  BY <1>2 DEF Mapped
<1>4. w \in Seq(X) /\ \E gap : Gapped(w, first, gap)  BY <1>3, WindowedFits
<1>5. Rising(ByPosition(s))
  <2> HIDE DEF first, w
  <2> QED  BY <1>2, <1>4, CompletedRises
<1> HIDE DEF first, w, r
<1>6. s \in Seq(X)
  <2> HIDE DEF X
  <2> QED  BY <1>3, <1>4
<1>7. Mapped(r, layout) /\ r = ByPosition(s)  BY <1>1, <1>5, <1>6, KeptMapped
<1>8. ToSet(r) = ToSet(s)
  <2>1. \A x \in X : x.pos \in Int  BY AnchorHas
  <2> HIDE DEF s
  <2> QED  BY <1>6, <1>7, <2>1, PositionedAgain
<1>9. ToSet(first) \subseteq ToSet(s)
  <2> HIDE DEF X
  <2>1. DOMAIN first = 1..Len(first) /\ DOMAIN s = 1..Len(first) + Len(w) /\ Len(first) \in Nat /\ Len(w) \in Nat
        /\ \A i \in 1..Len(first) : s[i] = first[i]
    BY <1>3, <1>4
  <2>2. \A i \in DOMAIN first : i \in DOMAIN s /\ s[i] = first[i]  BY <2>1
  <2> HIDE DEF s
  <2> QED  BY <2>2 DEF ToSet
<1> QED  BY <1>7, <1>8, <1>9 DEF first, w, s, r

-----------------------------------------------------------------------------
(* Pages of spans *)

(* The anchor at a position: the last one at or before it.                  *)
LEMMA AnchorAtHas ==
  ASSUME NEW layout, NEW t, Mapped(t, layout), t # <<>>, NEW pos \in Int
  PROVE  /\ AnchorAt(t, pos) \in 1..Len(t)
         /\ \A i \in 1..Len(t) : t[i].pos <= pos => i <= AnchorAt(t, pos)
         /\ AnchorAt(t, pos) = 1 \/ t[AnchorAt(t, pos)].pos <= pos
<1> DEFINE n == Len(t)
           S == {1} \union {i \in DOMAIN t : t[i].pos <= pos}
<1>1. t \in Seq(AnchorsOf(layout))  BY DEF Mapped
<1>2. n \in Nat /\ DOMAIN t = 1..n /\ 1 \in 1..n
  <2> DEFINE X == AnchorsOf(layout)
  <2> HIDE DEF X
  <2>1. t \in Seq(X)  BY <1>1 DEF X
  <2> QED  BY <2>1
<1>3. S \in SUBSET (1..n)  BY <1>2
<1>4. IsFiniteSet(S)
  <2>1. IsFiniteSet(1..n)  BY <1>2, IntervalSize
  <2> QED  BY <1>3, <2>1, FS_Subset
<1>5. S # {} /\ S \subseteq Int  BY <1>3
<1>6. \A i \in 1..n : t[i].pos <= pos => i \in S  BY <1>2
<1>7. \A i \in S : i = 1 \/ t[i].pos <= pos  OBVIOUS
<1> HIDE DEF S
<1>8. Most(S) \in S /\ \A i \in S : i <= Most(S)  BY <1>4, <1>5, GreatestOf
<1>9. AnchorAt(t, pos) = Most(S)  BY DEF AnchorAt, S
<1> QED  BY <1>3, <1>6, <1>7, <1>8, <1>9

(* Where anchors stand, pages are read.                                     *)
LEMMA PagesBetween ==
  ASSUME NEW layout, NEW t, Mapped(t, layout), t # <<>>, NEW start \in Int, NEW end \in Int, start <= end
  PROVE  LET from == t[AnchorAt(t, start)].page
             to == t[AnchorAt(t, end)].page
         IN /\ from \in Nat /\ to \in Nat /\ from <= to
            /\ \A i \in 1..Len(t) :
                 i >= AnchorAt(t, start) /\ t[i].pos <= end => t[i].page \in from..to
<1> DEFINE a == AnchorAt(t, start)
           b == AnchorAt(t, end)
<1>1. a \in 1..Len(t) /\ (a = 1 \/ t[a].pos <= start)  BY AnchorAtHas
<1>2. b \in 1..Len(t) /\ \A i \in 1..Len(t) : t[i].pos <= end => i <= b  BY AnchorAtHas
<1> HIDE DEF a, b
<1>3. Len(t) \in Nat /\ t[a].pos \in Nat /\ t[a].page \in Nat /\ t[b].page \in Nat  BY <1>1, <1>2, MappedHas
<1>4. a <= b
  <2>1. CASE a = 1  BY <1>2, <2>1
  <2>2. CASE a # 1
    <3>1. t[a].pos <= end  BY <1>1, <1>3, <2>2
    <3> QED  BY <1>1, <1>2, <3>1
  <2> QED  BY <2>1, <2>2
<1>5. t[a].page <= t[b].page  BY <1>1, <1>2, <1>4, MappedHas
<1>6. ASSUME NEW i \in 1..Len(t), i >= a, t[i].pos <= end PROVE t[i].page \in t[a].page..t[b].page
  <2>1. a <= i /\ i <= b  BY <1>1, <1>2, <1>3, <1>6
  <2>2. t[i].page \in Nat /\ t[a].page <= t[i].page  BY <1>1, <2>1, MappedHas
  <2>3. t[i].page <= t[b].page  BY <1>2, <2>1, MappedHas
  <2> QED  BY <1>3, <2>2, <2>3
<1> QED  BY <1>3, <1>5, <1>6 DEF a, b

(* The parts of a span, each on one of its pages and next to the one after. *)
PageSpans == [page : Nat, start : Int, end : Int]
SegmentsOn(own, end) ==
  {segs \in Seq(PageSpans) :
     /\ segs # <<>> /\ Last(segs).end = end
     /\ \A j \in 1..Len(segs) : segs[j].page \in own
     /\ \A j \in 1..Len(segs) - 1 : segs[j].end = segs[j + 1].start}
CutAt(end, segs, anchor) ==
  LET seg == Last(segs)
  IN IF \/ anchor.pos >= end \/ anchor.pos <= seg.start
        \/ anchor.page = seg.page \/ Implausible(seg, anchor)
       THEN segs
       ELSE Append([segs EXCEPT ![Len(segs)].end = anchor.pos],
                   [page |-> anchor.page, start |-> anchor.pos, end |-> end])

(* A part from its fields.                                                  *)
LEMMA PieceMade ==
  ASSUME NEW page \in Nat, NEW start \in Int, NEW end \in Int
  PROVE  [page |-> page, start |-> start, end |-> end] \in PageSpans
BY DEF PageSpans

(* Cutting at an anchor keeps the parts.                                    *)
LEMMA CutKeepsSegments ==
  ASSUME NEW own, NEW end \in Int, NEW segs \in SegmentsOn(own, end),
         NEW anchor, anchor.pos \in Int, anchor.page \in Nat, anchor.pos < end => anchor.page \in own
  PROVE  CutAt(end, segs, anchor) \in SegmentsOn(own, end)
<1> DEFINE n == Len(segs)
           w == segs[n]
           r == CutAt(end, segs, anchor)
<1>1. /\ segs \in Seq(PageSpans) /\ segs # <<>> /\ Last(segs).end = end
      /\ \A j \in 1..n : segs[j].page \in own
      /\ \A j \in 1..n - 1 : segs[j].end = segs[j + 1].start
  BY DEF SegmentsOn
<1>2. n \in Nat /\ n \in 1..n /\ w \in PageSpans /\ Last(segs) = w
  <2>1. n \in Nat /\ n > 0  BY <1>1
  <2> QED  BY <1>1, <2>1 DEF Last
<1>3. CASE r = segs  BY <1>3
<1>4. CASE r # segs
  <2> DEFINE v == [page |-> w.page, start |-> w.start, end |-> anchor.pos]
             x == [page |-> anchor.page, start |-> anchor.pos, end |-> end]
             u == [segs EXCEPT ![n] = v]
  <2>1. anchor.pos < end
    <3>1. ~(anchor.pos >= end)  BY <1>4 DEF CutAt
    <3> QED  BY <3>1
  <2>2. r = Append([segs EXCEPT ![n].end = anchor.pos], x)  BY <1>4 DEF CutAt
  <2>3. [w EXCEPT !.end = anchor.pos] = v /\ v \in PageSpans  BY <1>2 DEF PageSpans
  <2>4. r = Append(u, x)  BY <2>2, <2>3
  <2>5. x \in PageSpans /\ x.page = anchor.page /\ x.start = anchor.pos /\ x.end = end  BY PieceMade
  <2>6. v.page = w.page /\ v.end = anchor.pos /\ v.start = w.start  OBVIOUS
  <2> HIDE DEF r, x, v, w, n
  <2>7. u \in Seq(PageSpans) /\ Len(u) = n /\ u[n] = v /\ \A j \in 1..n : j # n => u[j] = segs[j]
    BY <1>1, <1>2, <2>3 DEF n
  <2> HIDE DEF u
  <2>8. r \in Seq(PageSpans) /\ Len(r) = n + 1 /\ r[n + 1] = x /\ \A j \in 1..n : r[j] = u[j]
    BY <2>4, <2>5, <2>7
  <2>9. \A j \in 1..n + 1 : r[j].page \in own
    <3> TAKE j \in 1..n + 1
    <3>1. CASE j = n + 1  BY <2>1, <2>5, <2>8, <3>1
    <3>2. CASE j = n
      <4>1. r[j].page = w.page  BY <1>2, <2>6, <2>7, <2>8, <3>2
      <4> QED  BY <1>1, <1>2, <4>1 DEF w
    <3>3. CASE j # n /\ j # n + 1
      <4>1. j \in 1..n /\ r[j] = segs[j]  BY <1>2, <2>7, <2>8, <3>3
      <4> QED  BY <1>1, <4>1
    <3> QED  BY <3>1, <3>2, <3>3
  <2>10. \A j \in 1..n : r[j].end = r[j + 1].start
    <3> TAKE j \in 1..n
    <3>1. CASE j = n  BY <1>2, <2>5, <2>6, <2>7, <2>8, <3>1
    <3>2. CASE j # n
      <4>1. j \in 1..n - 1 /\ j + 1 \in 1..n /\ r[j] = segs[j]  BY <1>2, <2>7, <2>8, <3>2
      <4>2. r[j + 1].start = segs[j + 1].start
        <5>1. CASE j + 1 = n  BY <1>2, <2>6, <2>7, <2>8, <4>1, <5>1 DEF w
        <5>2. CASE j + 1 # n  BY <2>7, <2>8, <4>1, <5>2
        <5> QED  BY <5>1, <5>2
      <4> QED  BY <1>1, <4>1, <4>2
    <3> QED  BY <3>1, <3>2
  <2>11. r # <<>> /\ Last(r) = x
    <3>1. Len(r) = n + 1 /\ n \in Nat  BY <1>2, <2>8
    <3> QED  BY <2>8, <3>1 DEF Last
  <2>12. Len(r) - 1 = n  BY <1>2, <2>8
  <2> QED  BY <2>5, <2>8, <2>9, <2>10, <2>11, <2>12 DEF SegmentsOn, r
<1> QED  BY <1>3, <1>4

(* split_span_by_pages.                                                     *)
LEMMA SegmentsHave ==
  ASSUME NEW layout, NEW t, Mapped(t, layout), t # <<>>, NEW start \in Int, NEW end \in Int, start < end
  PROVE  Segments(t, start, end) \in
           SegmentsOn(t[AnchorAt(t, start)].page..t[AnchorAt(t, end)].page, end)
<1> DEFINE a == AnchorAt(t, start)
           own == t[AnchorAt(t, start)].page..t[AnchorAt(t, end)].page
           X == AnchorsOf(layout)
           s == SubSeq(t, a + 1, Len(t))
           n == Len(s)
           A == SegmentsOn(own, end)
           B == {x \in X : x.pos < end => x.page \in own}
           base == <<[page |-> t[a].page, start |-> start, end |-> end]>>
           Op(segs, x) == CutAt(end, segs, x)
           F == [x \in A \X B |-> Op(x[1], x[2])]
           G(h, q) == IF q = {} THEN base ELSE Op(h[q \ {Max(q)}], s[Max(q)])
           it == CHOOSE h : h = [q \in SUBSET DOMAIN s |-> G(h, q)]
<1>1. t \in Seq(X)  BY DEF Mapped
<1>2. a \in 1..Len(t) /\ Len(t) \in Nat  BY <1>1, AnchorAtHas
<1>3. Segments(t, start, end) = it[DOMAIN s]
  <2>1. ~(end <= start)  OBVIOUS
  <2> HIDE DEF X
  <2> QED  BY <2>1 DEF Segments, FoldLeft, MapThenFoldSet, CutAt
<1>4. /\ t[AnchorAt(t, start)].page \in Nat /\ t[AnchorAt(t, end)].page \in Nat
      /\ t[AnchorAt(t, start)].page <= t[AnchorAt(t, end)].page
      /\ \A i \in 1..Len(t) : i >= a /\ t[i].pos <= end => t[i].page \in own
  <2>1. start <= end  OBVIOUS
  <2> QED  BY <2>1, PagesBetween
<1>5. t[a].page \in Nat /\ t[a].page \in own
  BY <1>4
<1>6. n \in Nat /\ DOMAIN s = 1..n /\ \A i \in 1..n : s[i] \in B
  <2>1. s \in Seq(X) /\ n = Len(t) - a /\ \A i \in 1..n : s[i] = t[a + i] /\ a + i \in 1..Len(t)
    <3> HIDE DEF X, a
    <3> QED  BY <1>1, <1>2
  <2> HIDE DEF s, n, own, a
  <2>2. n \in Nat /\ DOMAIN s = 1..n
    <3>1. n \in Nat  BY <1>2, <2>1
    <3> HIDE DEF X
    <3> QED  BY <2>1, <3>1 DEF n
  <2>3. ASSUME NEW i \in 1..n PROVE s[i] \in B
    <3>1. s[i] = t[a + i] /\ a + i \in 1..Len(t)  BY <2>1
    <3>2. a + i >= a  BY <1>2, <2>2
    <3>3. s[i] \in X
      <4> HIDE DEF X
      <4> QED  BY <1>1, <3>1
    <3>4. s[i].pos < end => s[i].page \in own
      <4> HAVE s[i].pos < end
      <4>1. s[i].pos \in Nat  BY <3>3, AnchorHas
      <4>2. s[i].pos <= end  BY <4>1
      <4> QED  BY <1>4, <3>1, <3>2, <4>2
    <3> QED  BY <3>3, <3>4
  <2> QED  BY <2>2, <2>3
<1>7. base \in A
  <2> DEFINE x == [page |-> t[a].page, start |-> start, end |-> end]
  <2>1. x \in PageSpans /\ x.page = t[a].page /\ x.end = end  BY <1>5, PieceMade
  <2> HIDE DEF x
  <2>2. <<x>> \in Seq(PageSpans) /\ Len(<<x>>) = 1 /\ <<x>>[1] = x /\ <<x>> # <<>>  BY <2>1
  <2>3. Last(<<x>>) = x  BY <2>2 DEF Last
  <2> HIDE DEF own, a
  <2>4. \A j \in 1..1 : <<x>>[j].page \in own  BY <1>5, <2>1, <2>2
  <2>5. 1..1 - 1 = {}  OBVIOUS
  <2>6. <<x>> \in A  BY <2>1, <2>2, <2>3, <2>4, <2>5 DEF SegmentsOn
  <2> QED  BY <2>6 DEF x
<1>8. \A segs \in A, x \in B : Op(segs, x) \in A
  <2> TAKE segs \in A, x \in B
  <2>1. x.pos \in Int /\ x.page \in Nat  BY AnchorHas
  <2>2. x.pos < end => x.page \in own  OBVIOUS
  <2> HIDE DEF own
  <2> QED  BY <2>1, <2>2, CutKeepsSegments
<1> HIDE DEF A, B, Op, s, n, base, X
<1>9. F \in [A \X B -> A] /\ \A segs \in A, x \in B : F[<<segs, x>>] = Op(segs, x)
  BY <1>8
<1> HIDE DEF F
<1>10. PICK h \in [SUBSET (1..n) -> A] : IsFold(h, F, base, s)
  BY <1>6, <1>7, <1>9, FoldExists
<1>11. h = [q \in SUBSET DOMAIN s |-> G(h, q)]
  <2>1. ASSUME NEW q \in SUBSET (1..n), q # {}
        PROVE  F[<<h[q \ {Max(q)}], s[Max(q)]>>] = Op(h[q \ {Max(q)}], s[Max(q)])
    <3>1. Max(q) \in 1..n  BY <1>6, <2>1, MaxOfIndices
    <3>2. q \ {Max(q)} \in SUBSET (1..n)  OBVIOUS
    <3> QED  BY <1>6, <1>9, <1>10, <3>1, <3>2
  <2> QED  BY <1>6, <1>10, <2>1 DEF IsFold
<1>12. it = [q \in SUBSET DOMAIN s |-> G(it, q)]  BY <1>11
<1> HIDE DEF it
<1>13. \A q \in SUBSET (1..n) : it[q] = G(it, q)  BY <1>6, <1>12
<1>14. StepsBy(it, A, B, F, base, s, n)
  <2>1. {} \in SUBSET (1..n)  OBVIOUS
  <2>2. ASSUME NEW q \in SUBSET (1..n), q # {}, it[q \ {Max(q)}] \in A
        PROVE  it[q] = F[<<it[q \ {Max(q)}], s[Max(q)]>>]
    <3>1. Max(q) \in 1..n  BY <1>6, <2>2, MaxOfIndices
    <3> QED  BY <1>6, <1>9, <1>13, <2>2, <3>1
  <2> QED  BY <1>6, <1>7, <1>9, <1>13, <2>1, <2>2 DEF StepsBy
<1>15. PICK g : IsPrefixFold(g, A, F, base, s, n) /\ g[n] = it[1..n]
  BY <1>14, PrefixesOf
<1>16. it[DOMAIN s] \in A
  <2>1. n \in 0..n  BY <1>6
  <2> QED  BY <1>6, <1>15, <2>1 DEF IsPrefixFold
<1> QED  BY <1>3, <1>16 DEF A

-----------------------------------------------------------------------------
(* The pages of an index.                                                   *)
LEMMA PagesMapped ==
  ASSUME IndexInv
  PROVE  /\ current = 0 \/ current > 0
         /\ pages # <<>> => current > 0
         /\ current > 0 => pages = Mapping(input.layout, input.closes)
         /\ Mapped(pages, input.layout)
         /\ LayoutOK(input.layout) /\ ClosesOK(input.closes)
<1>1. LayoutOK(input.layout) /\ ClosesOK(input.closes)  BY DEF InputOK, IndexInv
<1>2. current \in Nat
  <2>1. current \in {0} \union Calls  BY DEF IndexInv, EmbeddingIInv, StageOK
  <2> QED  BY <2>1, CallsNumbered, FS_CardinalityType
<1>3. current = 0 \/ current > 0  BY <1>2
<1>4. /\ current = 0 => pages = <<>>
      /\ current > 0 => pages = Mapping(input.layout, input.closes)
  BY DEF IndexInv, ChunksOK
<1>5. Mapped(Mapping(input.layout, input.closes), input.layout)  BY <1>1, MappingHas
<1>6. Mapped(<<>>, input.layout)
  <2>1. <<>> \in Seq(AnchorsOf(input.layout)) /\ Len(<<>>) = 0  OBVIOUS
  <2> QED  BY <2>1 DEF Mapped, Positioned, Rising
<1> QED  BY <1>1, <1>3, <1>4, <1>5, <1>6

(* The pages of a span that a label names.                                  *)
SpanAgrees(t, start, end, label) ==
  LET marked == Segments(t, start, end)
      own == label[1]..label[2]
  IN /\ \A j \in DOMAIN marked : marked[j].page \in own
     /\ \A j \in 1..Len(marked) - 1 : marked[j].end = marked[j + 1].start
     /\ BoxPages(t, start, end) \subseteq own

(* The label of a span names the pages of its parts and of its boxes.       *)
LEMMA SpansAgree ==
  ASSUME NEW layout, NEW t, Mapped(t, layout), t # <<>>, NEW start \in Int, NEW end \in Int, start < end
  PROVE  SpanAgrees(t, start, end, <<t[AnchorAt(t, start)].page, t[AnchorAt(t, end)].page>>)
<1> DEFINE own == t[AnchorAt(t, start)].page..t[AnchorAt(t, end)].page
           marked == Segments(t, start, end)
           X == AnchorsOf(layout)
<1>1. marked \in SegmentsOn(own, end)  BY SegmentsHave
<1> HIDE DEF marked, own
<1>2. /\ marked \in Seq(PageSpans)
      /\ \A j \in 1..Len(marked) : marked[j].page \in own
      /\ \A j \in 1..Len(marked) - 1 : marked[j].end = marked[j + 1].start
  BY <1>1 DEF SegmentsOn
<1>3. DOMAIN marked = 1..Len(marked)
  BY <1>2
<1>4. BoxPages(t, start, end) \subseteq own
  <2>1. \A i \in 1..Len(t) : i >= AnchorAt(t, start) /\ t[i].pos <= end => t[i].page \in own
    <3>1. start <= end  OBVIOUS
    <3> QED  BY <3>1, PagesBetween DEF own
  <2>2. DOMAIN t = 1..Len(t)
    <3>1. t \in Seq(X)  BY DEF Mapped
    <3> HIDE DEF X
    <3> QED  BY <3>1
  <2> QED  BY <2>1, <2>2 DEF BoxPages
<1> QED  BY <1>2, <1>3, <1>4 DEF SpanAgrees, own, marked

(* So do the labels of all spans of an index (PagesAgree).                  *)
LEMMA PagesNamed ==
  ASSUME IndexInv
  PROVE  PagesAgree
<1> SUFFICES ASSUME NEW c \in DOMAIN chunks, pages # <<>>
             PROVE  SpanAgrees(pages, chunks[c].start, chunks[c].end, chunks[c].label)
  BY Zenon DEF PagesAgree, SpanAgrees
<1> DEFINE start == chunks[c].start
           end == chunks[c].end
           cut == Chunks(input.doc, input.named, input.cut)
<1>1. current > 0 /\ Mapped(pages, input.layout)  BY PagesMapped
<1>2. start \in Int /\ end \in Int /\ start < end
  <2>1. PICK n \in Nat :
          /\ DOMAIN chunks = 1..n
          /\ \A x \in 1..n : \E p \in Proper(input.doc, NameSlack, input.cut) :
               chunks[x].text = p.text /\ chunks[x].start = p.start /\ chunks[x].end = p.end
    BY ChunksProper
  <2>2. PICK p \in Proper(input.doc, NameSlack, input.cut) :
          chunks[c].start = p.start /\ chunks[c].end = p.end
    BY <2>1
  <2> QED  BY <2>2, OfProper
<1>3. chunks = WithPages(cut, pages)  BY <1>1 DEF IndexInv, ChunksOK
<1> HIDE DEF cut
<1>4. /\ chunks[c].label = LET l == Label(pages, cut[c].start, cut[c].end) IN <<l.from, l.to>>
      /\ chunks[c].start = cut[c].start /\ chunks[c].end = cut[c].end
  BY <1>3 DEF WithPages
<1>5. chunks[c].label = <<pages[AnchorAt(pages, start)].page, pages[AnchorAt(pages, end)].page>>
  BY <1>4 DEF Label
<1> HIDE DEF start, end
<1>6. SpanAgrees(pages, start, end, <<pages[AnchorAt(pages, start)].page, pages[AnchorAt(pages, end)].page>>)
  BY <1>1, <1>2, SpansAgree
<1> QED  BY <1>5, <1>6 DEF start, end

(* The anchors of the first round stay.                                     *)
LEMMA FirstStay ==
  ASSUME IndexInv
  PROVE  AnchorsStay
<1> SUFFICES ASSUME current > 0 PROVE ToSet(FirstRound(input.layout, input.closes)) \subseteq ToSet(pages)
  BY DEF AnchorsStay
<1>1. /\ pages = Mapping(input.layout, input.closes)
      /\ LayoutOK(input.layout) /\ ClosesOK(input.closes)
  BY PagesMapped
<1> QED  BY <1>1, MappingHas

-----------------------------------------------------------------------------
(* Ranges of pages *)

(* Of elements of which one only is in a set, it is picked once or not at   *)
(* all.                                                                     *)
Times(t, W) == Cardinality({j \in DOMAIN t : t[j] \in W})
Singles(s, K, W, x) == \A y \in K : s[y] \in W <=> y = x

(* Then it is picked as often as its place is.                              *)
LEMMA PickedOnce ==
  ASSUME NEW n \in Nat, NEW s, DOMAIN s = 1..n, NEW K \in SUBSET (1..n),
         NEW x \in 1..n, NEW W, Singles(s, K, W, x)
  PROVE  Times(Picked(s, K), W) = IF x \in K THEN 1 ELSE 0
<1> DEFINE t == Picked(s, K)
           m == Cardinality(K)
           S == {j \in DOMAIN t : t[j] \in W}
<1>1. PICK e : Ascends(e, m, K) /\ t = [j \in 1..m |-> s[e[j]]]
  <2>1. \E e : PickedBy(t, s, K, e)  BY PickedAre
  <2> QED  BY <2>1 DEF PickedBy
<1> HIDE DEF t, m
<1>2. m \in Nat /\ DOMAIN t = 1..m /\ \A j \in 1..m : t[j] = s[e[j]] /\ e[j] \in K
  BY <1>1 DEF Ascends
<1>3. \A j \in 1..m : j \in S <=> e[j] = x  BY <1>2 DEF Singles
<1>4. CASE x \in K
  <2>1. PICK z \in 1..m : e[z] = x  BY <1>1, <1>4 DEF Ascends
  <2>2. \A j \in 1..m : e[j] = x => j = z
    <3> TAKE j \in 1..m
    <3> HAVE e[j] = x
    <3>1. ~(j < z) /\ ~(z < j)
      <4>1. e[z] \in Nat  BY <1>4, <2>1
      <4> QED  BY <1>1, <2>1, <4>1 DEF Ascends
    <3> QED  BY <1>2, <3>1
  <2>3. S = {z}  BY <1>2, <1>3, <2>1, <2>2
  <2> QED  BY <1>4, <2>3, FS_Singleton DEF t, Times
<1>5. CASE x \notin K
  <2>1. S = {}  BY <1>2, <1>3, <1>5
  <2> QED  BY <1>5, <2>1, FS_EmptySet DEF t, Times
<1> QED  BY <1>4, <1>5

(* What anchors have, of finitely many of them.                             *)
LEMMA FieldsFiniteOf ==
  ASSUME NEW S, IsFiniteSet(S), NEW t
  PROVE  IsFiniteSet({t[i].page : i \in S}) /\ IsFiniteSet({t[i].pos : i \in S})
<1> DEFINE P == {t[i].page : i \in S}
           Q == {t[i].pos : i \in S}
           f == [i \in S |-> t[i].page]
           g == [i \in S |-> t[i].pos]
<1>1. f \in Surjection(S, P)  BY DEF Surjection
<1>2. g \in Surjection(S, Q)  BY DEF Surjection
<1> HIDE DEF P, Q, f, g
<1> QED  BY <1>1, <1>2, FS_Surjection DEF P, Q

(* The pages of a mapping, in order, each with its first anchor.            *)
PageList(t) == Ordered({t[i].page : i \in DOMAIN t})
PageStart(t, j) ==
  Least({t[i].pos : i \in {m \in DOMAIN t : t[m].page = PageList(t)[j]}})

(* The pages ascend, and each has its first anchor.                         *)
LEMMA PagesListed ==
  ASSUME NEW layout, NEW t, Mapped(t, layout)
  PROVE  LET list == PageList(t)
         IN /\ Len(list) \in Nat /\ DOMAIN list = 1..Len(list)
            /\ \A j \in 1..Len(list) : list[j] \in Nat
            /\ \A i, j \in 1..Len(list) : i < j => list[i] < list[j]
            /\ \A i \in 1..Len(t) : \E j \in 1..Len(list) : list[j] = t[i].page
            /\ \A j \in 1..Len(list) :
                 /\ \E i \in 1..Len(t) : t[i].page = list[j] /\ t[i].pos = PageStart(t, j)
                 /\ \A i \in 1..Len(t) : t[i].page = list[j] => PageStart(t, j) <= t[i].pos
<1> DEFINE n == Len(t)
           P == {t[i].page : i \in DOMAIN t}
           list == PageList(t)
           X == AnchorsOf(layout)
<1>1. n \in Nat /\ DOMAIN t = 1..n
  <2>1. t \in Seq(X)  BY DEF Mapped
  <2> HIDE DEF X
  <2> QED  BY <2>1
<1>2. \A i \in 1..n : t[i].page \in Nat /\ t[i].pos \in Nat  BY MappedHas
<1>3. IsFiniteSet(1..n)  BY <1>1, IntervalSize
<1>4. P = {t[i].page : i \in 1..n}  BY <1>1
<1>5. IsFiniteSet(P)
  <2>1. IsFiniteSet(DOMAIN t)  BY <1>1, <1>3
  <2> QED  BY <2>1, FieldsFiniteOf
<1>6. P \in SUBSET Int /\ P \subseteq Nat  BY <1>1, <1>2
<1>7. /\ list \in Seq(P)
      /\ \A x \in P : \E j \in 1..Len(list) : list[j] = x
      /\ \A i, j \in 1..Len(list) : i < j => list[i] < list[j]
  BY <1>5, <1>6, OrderedOnto DEF PageList
<1> HIDE DEF P, list, n
<1>8. Len(list) \in Nat /\ DOMAIN list = 1..Len(list) /\ \A j \in 1..Len(list) : list[j] \in P
  BY <1>7
<1>9. ASSUME NEW j \in 1..Len(list)
      PROVE  /\ \E i \in 1..n : t[i].page = list[j] /\ t[i].pos = PageStart(t, j)
             /\ \A i \in 1..n : t[i].page = list[j] => PageStart(t, j) <= t[i].pos
  <2> DEFINE Q == {m \in DOMAIN t : t[m].page = list[j]}
             S == {t[i].pos : i \in Q}
  <2>1. PICK k \in 1..n : t[k].page = list[j]  BY <1>4, <1>8
  <2>2. k \in Q  BY <1>1, <2>1
  <2>3. Q \subseteq 1..n  BY <1>1
  <2>4. IsFiniteSet(Q)  BY <1>3, <2>3, FS_Subset
  <2>5. IsFiniteSet(S)  BY <2>4, FieldsFiniteOf
  <2>6. S # {} /\ S \subseteq Int  BY <1>2, <2>2, <2>3
  <2>7. \A i \in 1..n : t[i].page = list[j] => t[i].pos \in S  BY <1>1
  <2>8. \A x \in S : \E i \in 1..n : t[i].page = list[j] /\ t[i].pos = x  BY <1>1
  <2> HIDE DEF S
  <2>9. Least(S) \in S /\ \A x \in S : Least(S) <= x  BY <2>5, <2>6, SmallestOf
  <2>10. PageStart(t, j) = Least(S)  BY DEF PageStart, S, list
  <2> QED  BY <2>7, <2>8, <2>9, <2>10
<1>10. \A i \in 1..n : \E j \in 1..Len(list) : list[j] = t[i].page
  BY <1>4, <1>7
<1>11. \A j \in 1..Len(list) : list[j] \in Nat  BY <1>6, <1>8
<1> QED  BY <1>7, <1>8, <1>9, <1>10, <1>11 DEF list, n

(* slice_pages_in_range: the slices of all pages.                           *)
SliceOf(doc, t, j) ==
  [page |-> PageList(t)[j],
   start |-> IF j = 1 /\ PageList(t)[j] = 1 THEN 0 ELSE PageStart(t, j),
   end |-> IF j < Len(PageList(t)) THEN PageStart(t, j + 1) ELSE Len(doc)]
Covers(hit, i) == hit.start < i /\ i <= hit.end

(* A position is in the slice of its page and in no other.                  *)
LEMMA SlicesApart ==
  ASSUME NEW layout, NEW t, Mapped(t, layout), t # <<>>, NEW X, NEW doc \in Seq(X),
         NEW i \in 1..Len(doc), t[1].pos < i
  PROVE  LET k == AnchorAt(t, i - 1)
         IN /\ k \in 1..Len(t) /\ t[k].pos < i /\ t[k].page \in Nat
            /\ \E x \in 1..Len(PageList(t)) :
                 /\ PageList(t)[x] = t[k].page
                 /\ \A y \in 1..Len(PageList(t)) : Covers(SliceOf(doc, t, y), i) <=> y = x
<1> DEFINE n == Len(t)
           list == PageList(t)
           N == Len(list)
           St(j) == PageStart(t, j)
           k == AnchorAt(t, i - 1)
<1>1. i \in Nat /\ i - 1 \in Int /\ Len(doc) \in Nat /\ i <= Len(doc)  OBVIOUS
<1>2. k \in 1..n /\ (k = 1 \/ t[k].pos <= i - 1) /\ \A m \in 1..n : t[m].pos <= i - 1 => m <= k
  BY <1>1, AnchorAtHas
<1>3. \A m \in 1..n : /\ t[m].pos \in Nat /\ t[m].page \in Nat
                      /\ m <= k => t[m].pos <= t[k].pos /\ t[m].page <= t[k].page
                      /\ k <= m => t[k].page <= t[m].page
  BY <1>2, MappedHas
<1>4. n \in Nat /\ k \in Nat  BY <1>2, MappedHas
<1> HIDE DEF k, n
<1>5. t[k].pos < i /\ t[k].pos \in Nat /\ t[k].page \in Nat
  <2>1. t[k].pos \in Nat /\ t[k].page \in Nat  BY <1>2, <1>3
  <2> QED  BY <1>1, <1>2, <2>1
<1>6. /\ N \in Nat /\ \A j \in 1..N : list[j] \in Nat
      /\ \A a, b \in 1..N : a < b => list[a] < list[b]
      /\ \A m \in 1..n : \E j \in 1..N : list[j] = t[m].page
      /\ \A j \in 1..N :
           /\ \E m \in 1..n : t[m].page = list[j] /\ t[m].pos = St(j)
           /\ \A m \in 1..n : t[m].page = list[j] => St(j) <= t[m].pos
  BY PagesListed DEF n
<1> HIDE DEF list, N, St
<1>7. PICK x \in 1..N : list[x] = t[k].page  BY <1>2, <1>6
<1>8. \A j \in 1..N : St(j) \in Nat  BY <1>3, <1>6
<1>9. \A j \in 1..N : list[j] <= t[k].page => St(j) < i
  <2> TAKE j \in 1..N
  <2> HAVE list[j] <= t[k].page
  <2>1. PICK m \in 1..n : t[m].page = list[j] /\ t[m].pos = St(j)  BY <1>6
  <2>2. CASE list[j] = t[k].page
    <3>1. St(j) <= t[k].pos  BY <1>2, <1>6, <2>2
    <3> QED  BY <1>1, <1>5, <1>8, <3>1
  <2>3. CASE list[j] < t[k].page
    <3>1. ~(t[k].page <= t[m].page)  BY <1>3, <1>5, <1>6, <2>1, <2>3
    <3>2. ~(k <= m)  BY <1>3, <3>1
    <3>3. m <= k  BY <1>4, <3>2
    <3>4. t[m].pos <= t[k].pos  BY <1>3, <3>3
    <3> QED  BY <1>1, <1>5, <1>8, <2>1, <3>4
  <2>4. list[j] = t[k].page \/ list[j] < t[k].page
    <3>1. list[j] \in Nat  BY <1>6
    <3> QED  BY <1>5, <3>1
  <2> QED  BY <2>2, <2>3, <2>4
<1>10. \A j \in 1..N : list[j] > t[k].page => i <= St(j)
  <2> TAKE j \in 1..N
  <2> HAVE list[j] > t[k].page
  <2>1. PICK m \in 1..n : t[m].page = list[j] /\ t[m].pos = St(j)  BY <1>6
  <2>2. ~(t[m].page <= t[k].page)  BY <1>3, <1>5, <2>1
  <2>3. ~(m <= k)  BY <1>3, <2>2
  <2>4. ~(t[m].pos <= i - 1)  BY <1>2, <2>3
  <2> QED  BY <1>1, <1>3, <2>1, <2>4
<1>11. ASSUME NEW y \in 1..N PROVE Covers(SliceOf(doc, t, y), i) <=> y = x
  <2> DEFINE w == SliceOf(doc, t, y)
  <2>1. /\ w.start = IF y = 1 /\ list[y] = 1 THEN 0 ELSE St(y)
        /\ w.end = IF y < N THEN St(y + 1) ELSE Len(doc)
    BY DEF SliceOf, list, N, St
  <2> HIDE DEF w
  <2>2. y \in Nat /\ x \in Nat /\ list[y] \in Nat /\ (y < N => y + 1 \in 1..N)  BY <1>6
  <2>3. CASE y = x
    <3>1. St(y) < i
      <4>1. list[y] <= t[k].page  BY <1>5, <1>7, <2>3
      <4> QED  BY <1>9, <4>1
    <3>2. w.start < i
      <4>1. 0 < i  BY <1>1
      <4> QED  BY <2>1, <3>1, <4>1
    <3>3. i <= w.end
      <4>1. CASE y < N
        <5>1. list[y] < list[y + 1]
          <6>1. y < y + 1  BY <2>2
          <6> QED  BY <1>6, <2>2, <4>1, <6>1
        <5>2. list[y + 1] > t[k].page  BY <1>5, <1>6, <1>7, <2>2, <2>3, <4>1, <5>1
        <5> QED  BY <1>10, <2>1, <2>2, <4>1, <5>2
      <4>2. CASE ~(y < N)  BY <1>1, <2>1, <4>2
      <4> QED  BY <4>1, <4>2
    <3> QED  BY <2>3, <3>2, <3>3 DEF Covers, w
  <2>4. CASE x < y
    <3>1. list[y] > t[k].page  BY <1>5, <1>6, <1>7, <2>2, <2>4
    <3>2. i <= St(y)  BY <1>10, <3>1
    <3>3. w.start = St(y)
      <4>1. y # 1  BY <1>7, <2>2, <2>4
      <4> QED  BY <2>1, <4>1
    <3>4. ~(w.start < i)  BY <1>1, <1>8, <3>2, <3>3
    <3>5. y # x  BY <2>2, <2>4
    <3> QED  BY <3>4, <3>5 DEF Covers, w
  <2>5. CASE y < x
    <3>1. y < N /\ y + 1 \in 1..N /\ (y + 1 = x \/ y + 1 < x)  BY <1>6, <2>2, <2>5
    <3>2. list[y + 1] <= t[k].page
      <4>1. CASE y + 1 = x  BY <1>5, <1>7, <4>1
      <4>2. CASE y + 1 < x
        <5>1. list[y + 1] < list[x]  BY <1>6, <3>1, <4>2
        <5>2. list[y + 1] \in Nat  BY <1>6, <3>1
        <5> QED  BY <1>5, <1>7, <5>1, <5>2
      <4> QED  BY <3>1, <4>1, <4>2
    <3>3. St(y + 1) < i  BY <1>9, <3>1, <3>2
    <3>4. w.end = St(y + 1)  BY <2>1, <3>1
    <3>5. ~(i <= w.end)
      <4>1. St(y + 1) \in Nat  BY <1>8, <3>1
      <4> QED  BY <1>1, <3>3, <3>4, <4>1
    <3>6. y # x  BY <2>2, <2>5
    <3> QED  BY <3>5, <3>6 DEF Covers, w
  <2>6. y = x \/ x < y \/ y < x  BY <2>2
  <2> QED  BY <2>3, <2>4, <2>5, <2>6
<1>12. \E z \in 1..N : list[z] = t[k].page /\ \A y \in 1..N : Covers(SliceOf(doc, t, y), i) <=> y = z
  BY <1>7, <1>11
<1> QED  BY <1>2, <1>5, <1>12 DEF k, n, list, N

(* A position of the text is in one slice of the range, if its page is in   *)
(* the range, and in none otherwise.                                        *)
LEMMA SlicesCover ==
  ASSUME NEW layout, NEW t, Mapped(t, layout), t # <<>>, NEW X, NEW doc \in Seq(X),
         NEW i \in 1..Len(doc), t[1].pos < i, doc[i] \notin Blanks, NEW from \in Nat, NEW to \in Nat
  PROVE  LET hits == PageSlices(doc, t, from, to)
         IN Cardinality({j \in DOMAIN hits : Covers(hits[j], i)}) =
              (IF t[AnchorAt(t, i - 1)].page \in from..to THEN 1 ELSE 0)
<1> DEFINE list == PageList(t)
           N == Len(list)
           all == [j \in DOMAIN list |-> SliceOf(doc, t, j)]
           Wanted(s) == s.page \in from..to /\ \E c \in s.start + 1..s.end : doc[c] \notin Blanks
           K == {j \in DOMAIN all : Wanted(all[j])}
           hits == PageSlices(doc, t, from, to)
           P == t[AnchorAt(t, i - 1)].page
<1>1. hits = Picked(all, K)
  BY DEF PageSlices, SliceOf, PageList, PageStart
<1>2. PICK x \in 1..N :
        list[x] = P /\ \A y \in 1..N : Covers(SliceOf(doc, t, y), i) <=> y = x
  BY SlicesApart
<1>3. N \in Nat /\ DOMAIN list = 1..N  BY PagesListed
<1> HIDE DEF list, N
<1>4. DOMAIN all = 1..N /\ \A j \in 1..N : all[j] = SliceOf(doc, t, j)  BY <1>3
<1>5. \A j \in 1..N : all[j].page = list[j]  BY <1>4 DEF SliceOf, list
<1>6. K \in SUBSET (1..N)  BY <1>4
<1>7. x \in K <=> P \in from..to
  <2>1. x \in K => P \in from..to  BY <1>2, <1>5
  <2>2. ASSUME P \in from..to PROVE x \in K
    <3>1. Covers(all[x], i)  BY <1>2, <1>4
    <3>2. all[x].start < i /\ i <= all[x].end  BY <3>1 DEF Covers
    <3>3. all[x].start \in Int /\ all[x].end \in Int
      <4>1. \A j \in 1..N : PageStart(t, j) \in Nat
        <5> TAKE j \in 1..N
        <5>1. PICK m \in 1..Len(t) : t[m].pos = PageStart(t, j)  BY PagesListed DEF N, list
        <5> QED  BY <5>1, MappedHas
      <4>2. x < N => x + 1 \in 1..N  BY <1>3
      <4>3. /\ all[x].start = IF x = 1 /\ list[x] = 1 THEN 0 ELSE PageStart(t, x)
            /\ all[x].end = IF x < N THEN PageStart(t, x + 1) ELSE Len(doc)
        BY <1>4 DEF SliceOf, list, N
      <4>4. PageStart(t, x) \in Nat /\ (x < N => PageStart(t, x + 1) \in Nat) /\ Len(doc) \in Nat
        BY <4>1, <4>2
      <4> QED  BY <4>3, <4>4
    <3>4. i \in all[x].start + 1..all[x].end
      <4> HIDE DEF all
      <4> QED  BY <3>2, <3>3
    <3>5. Wanted(all[x])  BY <1>2, <1>5, <2>2, <3>4
    <3> QED  BY <1>4, <3>5
  <2> QED  BY <2>1, <2>2
<1> DEFINE W == {all[j] : j \in {y \in 1..N : Covers(all[y], i)}}
<1>8. \A y \in 1..N : all[y] \in W <=> y = x
  <2> TAKE y \in 1..N
  <2>1. y = x => all[y] \in W  BY <1>2, <1>4
  <2>2. all[y] \in W => Covers(all[y], i)  OBVIOUS
  <2> QED  BY <1>2, <1>4, <2>1, <2>2
<1> HIDE DEF all, K, hits, W
<1>9. Cardinality({j \in DOMAIN hits : hits[j] \in W}) = IF x \in K THEN 1 ELSE 0
  <2>1. Singles(all, K, W, x)  BY <1>6, <1>8 DEF Singles
  <2>2. N \in Nat /\ DOMAIN all = 1..N  BY <1>3, <1>4
  <2>3. Times(Picked(all, K), W) = IF x \in K THEN 1 ELSE 0  BY <1>6, <2>1, <2>2, PickedOnce
  <2> QED  BY <1>1, <2>3 DEF Times
<1>10. {j \in DOMAIN hits : hits[j] \in W} = {j \in DOMAIN hits : Covers(hits[j], i)}
  <2> SUFFICES ASSUME NEW j \in DOMAIN hits PROVE hits[j] \in W <=> Covers(hits[j], i)
    OBVIOUS
  <2>1. PICK e : PickedBy(hits, all, K, e)  BY <1>1, <1>3, <1>4, <1>6, PickedAre
  <2>2. DOMAIN hits = 1..Cardinality(K) /\ e[j] \in K /\ hits[j] = all[e[j]]
    <3>1. DOMAIN hits = 1..Cardinality(K)  BY <2>1 DEF PickedBy
    <3> QED  BY <2>1, <3>1 DEF PickedBy, Ascends
  <2>3. e[j] \in 1..N  BY <1>6, <2>2
  <2> QED  BY <2>2, <2>3 DEF W
<1>11. Cardinality({j \in DOMAIN hits : Covers(hits[j], i)}) = IF P \in from..to THEN 1 ELSE 0
  BY <1>7, <1>9, <1>10
<1> QED  BY <1>11 DEF hits

(* slice_by_page_range: no cell of another page is in the slice.            *)
LEMMA SliceWithin ==
  ASSUME NEW layout, NEW t, Mapped(t, layout), t # <<>>, NEW X, NEW doc \in Seq(X),
         NEW i \in 1..Len(doc), t[1].pos < i, NEW from \in Nat, NEW to \in Nat, NEW length \in Nat,
         RangeSlice(doc, t, from, to, length)[1] < i, i <= RangeSlice(doc, t, from, to, length)[2]
  PROVE  t[AnchorAt(t, i - 1)].page \in from..to
<1> DEFINE n == Len(t)
           k == AnchorAt(t, i - 1)
           inside == {t[m].pos : m \in {j \in DOMAIN t : t[j].page \in from..to}}
           after == {t[m].pos : m \in {j \in DOMAIN t : t[j].page > to}}
           start == IF Leading(t, from) THEN 0 ELSE Least(inside \union {Len(doc)})
           end == Least(after \union {Len(doc)})
           slice == RangeSlice(doc, t, from, to, length)
<1>1. i \in Nat /\ i - 1 \in Int /\ Len(doc) \in Nat /\ i <= Len(doc) /\ 1 <= i  OBVIOUS
<1>2. k \in 1..n /\ (k = 1 \/ t[k].pos <= i - 1) /\ \A m \in 1..n : t[m].pos <= i - 1 => m <= k
  BY <1>1, AnchorAtHas
<1>3. \A m \in 1..n : /\ t[m].pos \in Nat /\ t[m].page \in Nat
                      /\ m <= k => t[m].pos <= t[k].pos /\ t[m].page <= t[k].page
  BY <1>2, MappedHas
<1>4. n \in Nat /\ DOMAIN t = 1..n
  <2> DEFINE A == AnchorsOf(layout)
  <2>1. t \in Seq(A)  BY DEF Mapped
  <2> HIDE DEF A
  <2> QED  BY <2>1
<1>5. slice = IF t = <<>> \/ end <= start THEN <<0, 0>> ELSE <<start, Smaller(end, start + length)>>
  BY DEF RangeSlice
<1>6. /\ IsFiniteSet(inside) /\ IsFiniteSet(after)
      /\ inside \subseteq Nat /\ after \subseteq Nat
  <2> DEFINE J == {j \in DOMAIN t : t[j].page \in from..to}
             L == {j \in DOMAIN t : t[j].page > to}
  <2>1. IsFiniteSet(1..n) /\ J \subseteq 1..n /\ L \subseteq 1..n  BY <1>4, IntervalSize
  <2>2. IsFiniteSet(J) /\ IsFiniteSet(L)  BY <2>1, FS_Subset
  <2> HIDE DEF J, L
  <2>3. IsFiniteSet({t[m].pos : m \in J}) /\ IsFiniteSet({t[m].pos : m \in L})  BY <2>2, FieldsFiniteOf
  <2>4. {t[m].pos : m \in J} \subseteq Nat /\ {t[m].pos : m \in L} \subseteq Nat  BY <1>3, <2>1
  <2> QED  BY <2>3, <2>4 DEF J, L
<1>7. \A m \in 1..n : t[m].page > to => t[m].pos \in after  BY <1>4
<1>8. \A p \in inside : \E m \in 1..n : t[m].pos = p /\ t[m].page \in from..to  BY <1>4
<1> HIDE DEF inside, after, slice, k, n
<1>9. /\ Least(after \union {Len(doc)}) \in after \union {Len(doc)}
      /\ \A p \in after \union {Len(doc)} : Least(after \union {Len(doc)}) <= p
  <2>1. IsFiniteSet(after \union {Len(doc)})  BY <1>6, FS_AddElement
  <2>2. after \union {Len(doc)} \subseteq Int /\ after \union {Len(doc)} # {}
    <3>1. Len(doc) \in Int /\ after \subseteq Int  BY <1>1, <1>6
    <3>2. after \union {Len(doc)} \subseteq Int  BY <3>1
    <3>3. Len(doc) \in after \union {Len(doc)}  OBVIOUS
    <3> QED  BY <3>2, <3>3
  <2> QED  BY <2>1, <2>2, SmallestOf
<1>10. Least(inside \union {Len(doc)}) \in inside \union {Len(doc)}
  <2>1. IsFiniteSet(inside \union {Len(doc)})  BY <1>6, FS_AddElement
  <2>2. inside \union {Len(doc)} \subseteq Int /\ inside \union {Len(doc)} # {}
    <3>1. Len(doc) \in Int /\ inside \subseteq Int  BY <1>1, <1>6
    <3>2. inside \union {Len(doc)} \subseteq Int  BY <3>1
    <3>3. Len(doc) \in inside \union {Len(doc)}  OBVIOUS
    <3> QED  BY <3>2, <3>3
  <2> QED  BY <2>1, <2>2, SmallestOf
<1>11. end \in Nat /\ start \in Nat
  <2>1. end \in Nat  BY <1>1, <1>6, <1>9
  <2>2. start \in Nat  BY <1>1, <1>6, <1>10
  <2> QED  BY <2>1, <2>2
<1>12. start < i /\ i <= end
  <2>1. slice[1] < i /\ i <= slice[2]  BY DEF slice
  <2> HIDE DEF start, end
  <2>2. CASE t = <<>> \/ end <= start
    <3>1. slice = <<0, 0>>  BY <1>5, <2>2
    <3> QED  BY <1>1, <2>1, <3>1
  <2>3. CASE ~(t = <<>> \/ end <= start)
    <3>1. slice = <<start, Smaller(end, start + length)>>  BY <1>5, <2>3
    <3>2. start < i /\ i <= Smaller(end, start + length)  BY <2>1, <3>1
    <3>3. Smaller(end, start + length) <= end /\ Smaller(end, start + length) \in Nat
      BY <1>11 DEF Smaller
    <3> QED  BY <1>1, <1>11, <3>2, <3>3
  <2> QED  BY <2>2, <2>3
<1>13. t[k].page \in Nat /\ t[k].pos \in Nat /\ t[k].pos < i
  <2>1. t[k].page \in Nat /\ t[k].pos \in Nat  BY <1>2, <1>3
  <2> QED  BY <1>1, <1>2, <2>1
<1>14. from <= t[k].page
  <2>1. CASE Leading(t, from)
    <3>1. t[k].page > from  BY <1>2, <1>4, <2>1 DEF Leading
    <3> QED  BY <1>13, <3>1
  <2>2. CASE ~Leading(t, from)
    <3>1. start \in inside \union {Len(doc)}  BY <1>10, <2>2
    <3> HIDE DEF start, end
    <3>2. start \in inside  BY <1>1, <1>11, <1>12, <3>1
    <3>3. PICK m \in 1..n : t[m].pos = start /\ t[m].page \in from..to  BY <1>8, <3>2
    <3>4. t[m].pos <= i - 1  BY <1>1, <1>11, <1>12, <3>3
    <3>5. t[m].page <= t[k].page  BY <1>2, <1>3, <3>4
    <3> QED  BY <1>13, <3>3, <3>5
  <2> QED  BY <2>1, <2>2
<1>15. t[k].page <= to
  <2> SUFFICES ASSUME t[k].page > to PROVE FALSE
    BY <1>13
  <2>1. t[k].pos \in after  BY <1>2, <1>7
  <2>2. end <= t[k].pos  BY <1>9, <2>1
  <2> HIDE DEF start, end
  <2> QED  BY <1>1, <1>11, <1>12, <1>13, <2>2
<1> QED  BY <1>13, <1>14, <1>15 DEF k

(* select_page_projection: a block on a page of the range is one piece.     *)
LEMMA PiecesSelected ==
  ASSUME NEW layout, LayoutOK(layout), NEW b \in DOMAIN layout, layout[b].len > 0,
         NEW from \in Nat, NEW to \in Nat, layout[b].page \in from..to
  PROVE  Cardinality({j \in DOMAIN Selected(layout, from, to) :
                        Selected(layout, from, to)[j].block = b}) = 1
<1> DEFINE groups == TableGroups(layout)
           n == Len(groups)
           Y == GroupsOf(layout)
           Own(c) == {g \in DOMAIN groups : groups[g].owner = c}
           PagesOf(c) ==
             IF Own(c) = {} THEN [block |-> c, first |-> layout[c].page, last |-> layout[c].page]
             ELSE [block |-> c, first |-> groups[Least(Own(c))].first, last |-> groups[Least(Own(c))].last]
           B == {c \in DOMAIN layout : layout[c].len > 0}
           ps == Ordered(B)
           N == Len(ps)
           all == Projection(layout)
           K == {x \in DOMAIN all : all[x].first <= to /\ all[x].last >= from}
           t == Selected(layout, from, to)
<1>1. all = [x \in DOMAIN ps |-> PagesOf(ps[x])]
  BY DEF Projection
<1>2. t = Picked(all, K)  BY DEF Selected
<1>3. /\ Len(layout) \in Nat /\ DOMAIN layout = 1..Len(layout)
      /\ layout[b].page \in Nat /\ b \in Nat
  BY BlockHas
<1>4. GroupsFit(groups, layout, Len(layout))  BY TablesGrouped
<1>5. n \in Nat /\ DOMAIN groups = 1..n /\ \A g \in 1..n : groups[g] \in Y
  <2>1. groups \in Seq(Y)  BY <1>4 DEF GroupsFit
  <2> HIDE DEF Y, groups
  <2> QED  BY <2>1
<1>6. PagesOf(b).block = b /\ PagesOf(b).first <= layout[b].page /\ layout[b].page <= PagesOf(b).last
  <2>1. CASE Own(b) = {}
    <3>1. PagesOf(b) = [block |-> b, first |-> layout[b].page, last |-> layout[b].page]
      BY <2>1
    <3> HIDE DEF PagesOf
    <3> QED  BY <1>3, <3>1
  <2>2. CASE Own(b) # {}
    <3> DEFINE g == Least(Own(b))
    <3>1. Own(b) \subseteq 1..n  BY <1>5
    <3>2. IsFiniteSet(Own(b))
      <4>1. IsFiniteSet(1..n)  BY <1>5, IntervalSize
      <4> QED  BY <3>1, <4>1, FS_Subset
    <3>3. Own(b) \subseteq Int  BY <3>1
    <3>4. g \in Own(b)  BY <2>2, <3>2, <3>3, SmallestOf
    <3>5. g \in 1..n /\ groups[g].owner = b  BY <3>1, <3>4
    <3>6. PagesOf(b) = [block |-> b, first |-> groups[g].first, last |-> groups[g].last]
      BY <2>2
    <3> HIDE DEF PagesOf, g
    <3>7. groups[g].first = layout[b].page /\ groups[g].first <= groups[g].last
      BY <1>4, <3>5 DEF GroupsFit, TableFits
    <3> QED  BY <1>3, <3>6, <3>7
  <2> QED  BY <2>1, <2>2
<1>7. \A c : PagesOf(c).block = c
  OBVIOUS
<1>8. B \subseteq 1..Len(layout) /\ b \in B  BY <1>3
<1>9. IsFiniteSet(B) /\ B \in SUBSET Int
  <2>1. IsFiniteSet(1..Len(layout))  BY <1>3, IntervalSize
  <2>2. IsFiniteSet(B)  BY <1>8, <2>1, FS_Subset
  <2>3. B \in SUBSET Int  BY <1>8
  <2> QED  BY <2>2, <2>3
<1> HIDE DEF B, PagesOf
<1>10. /\ ps \in Seq(B)
       /\ \A c \in B : \E x \in 1..N : ps[x] = c
       /\ \A x, y \in 1..N : x < y => ps[x] < ps[y]
  BY <1>9, OrderedOnto
<1> HIDE DEF ps
<1>11. N \in Nat /\ DOMAIN ps = 1..N /\ \A x \in 1..N : ps[x] \in B  BY <1>10
<1> HIDE DEF N, all, t
<1>12. DOMAIN all = 1..N /\ \A x \in 1..N : all[x] = PagesOf(ps[x]) /\ all[x].block = ps[x]
  BY <1>1, <1>7, <1>11
<1>13. PICK x \in 1..N : ps[x] = b  BY <1>8, <1>10
<1>14. \A y \in 1..N : ps[y] = b => y = x
  <2> TAKE y \in 1..N
  <2> HAVE ps[y] = b
  <2>1. ~(y < x) /\ ~(x < y)
    <3>1. x < y => ps[x] < ps[y]  BY <1>10
    <3>2. y < x => ps[y] < ps[x]  BY <1>10
    <3> QED  BY <1>3, <1>13, <3>1, <3>2
  <2> QED  BY <1>11, <2>1
<1>15. K \in SUBSET (1..N) /\ x \in K
  <2>1. all[x].first <= to /\ all[x].last >= from
    <3>1. all[x] = PagesOf(b)  BY <1>12, <1>13
    <3>2. PagesOf(b).first \in Nat /\ PagesOf(b).last \in Nat
      <4>1. \A g \in 1..n : groups[g].first \in Nat /\ groups[g].last \in Nat
        <5> TAKE g \in 1..n
        <5>1. groups[g] \in Y  BY <1>5
        <5> QED  BY <5>1, TableHas
      <4>2. CASE Own(b) = {}
        <5>1. PagesOf(b) = [block |-> b, first |-> layout[b].page, last |-> layout[b].page]
          BY <4>2 DEF PagesOf
        <5> QED  BY <1>3, <5>1
      <4>3. CASE Own(b) # {}
        <5> DEFINE g == Least(Own(b))
        <5>1. Own(b) \subseteq 1..n  BY <1>5
        <5>2. IsFiniteSet(Own(b))
          <6>1. IsFiniteSet(1..n)  BY <1>5, IntervalSize
          <6> QED  BY <5>1, <6>1, FS_Subset
        <5>3. Own(b) \subseteq Int  BY <5>1
        <5>4. g \in 1..n  BY <4>3, <5>1, <5>2, <5>3, SmallestOf
        <5>5. PagesOf(b) = [block |-> b, first |-> groups[g].first, last |-> groups[g].last]
          BY <4>3 DEF PagesOf
        <5> HIDE DEF g
        <5> QED  BY <4>1, <5>4, <5>5
      <4> QED  BY <4>2, <4>3
    <3> QED  BY <1>3, <1>6, <3>1, <3>2
  <2> QED  BY <1>12, <2>1
<1> DEFINE W == {all[y] : y \in {z \in 1..N : ps[z] = b}}
<1>16. Singles(all, K, W, x)
  <2>1. \A y \in 1..N : all[y] \in W <=> y = x
    <3> TAKE y \in 1..N
    <3>1. y = x => all[y] \in W  BY <1>13
    <3>2. all[y] \in W => all[y].block = b  BY <1>12
    <3> QED  BY <1>12, <1>14, <3>1, <3>2
  <2> QED  BY <1>15, <2>1 DEF Singles
<1> HIDE DEF K, W
<1>17. Times(t, W) = 1  BY <1>2, <1>11, <1>12, <1>15, <1>16, PickedOnce
<1>18. {j \in DOMAIN t : t[j] \in W} = {j \in DOMAIN t : t[j].block = b}
  <2> SUFFICES ASSUME NEW j \in DOMAIN t PROVE t[j] \in W <=> t[j].block = b
    OBVIOUS
  <2>1. PICK e : PickedBy(t, all, K, e)  BY <1>2, <1>11, <1>12, <1>15, PickedAre
  <2>2. DOMAIN t = 1..Cardinality(K) /\ e[j] \in K /\ t[j] = all[e[j]]
    <3>1. DOMAIN t = 1..Cardinality(K)  BY <2>1 DEF PickedBy
    <3> QED  BY <2>1, <3>1 DEF PickedBy, Ascends
  <2>3. e[j] \in 1..N  BY <1>15, <2>2
  <2>4. t[j].block = ps[e[j]]  BY <1>12, <2>2, <2>3
  <2>5. t[j] \in W => t[j].block = b  BY <1>12 DEF W
  <2>6. t[j].block = b => t[j] \in W  BY <2>2, <2>3, <2>4 DEF W
  <2> QED  BY <2>5, <2>6
<1> QED  BY <1>17, <1>18 DEF Times, t

(* The ranges of an index.                                                  *)
LEMMA RangesKept ==
  ASSUME IndexInv
  PROVE  RangesHold
<1> SUFFICES ASSUME answer.method = "page"
             PROVE  RangesHold
  BY DEF RangesHold
<1>1. ByPages
  <2>1. answer # None  BY DEF None
  <2>2. ~ByWords  BY DEF ByWords, KeywordMethods
  <2>3. ~ByVectors
    <3> SUFFICES ASSUME ByVectors PROVE FALSE  OBVIOUS
    <3>1. answer.method = "vector_db"  BY DEF ByVectors
    <3> QED  BY <3>1
  <2> QED  BY <2>1, <2>2, <2>3 DEF IndexInv, AnswerOK
<1> DEFINE doc == input.doc
           layout == input.layout
<1>2. PICK q \in input.queries :
        /\ q.method = "page"
        /\ answer = [method |-> q.method, query |-> q,
                      hits |-> PageSlices(doc, pages, q.from, q.to),
                      slice |-> RangeSlice(doc, pages, q.from, q.to, q.length),
                      pieces |-> Selected(layout, q.from, q.to)]
  BY <1>1 DEF ByPages
<1>3. /\ answer.query = q
      /\ answer.hits = PageSlices(doc, pages, q.from, q.to)
      /\ answer.slice = RangeSlice(doc, pages, q.from, q.to, q.length)
      /\ answer.pieces = Selected(layout, q.from, q.to)
  BY <1>2
<1>4. QueryOK(q) /\ doc \in Seq(CellKinds)  BY DEF IndexInv, InputOK
<1>5. q.from \in Nat /\ q.to \in Nat /\ q.length \in Nat
  BY <1>2, <1>4 DEF QueryOK, KeywordMethods
<1>6. Mapped(pages, layout) /\ LayoutOK(layout)  BY PagesMapped
<1>7. DOMAIN doc = 1..Len(doc)  BY <1>4
<1> DEFINE PageAt(i) == IF i <= pages[1].pos THEN 0 ELSE pages[AnchorAt(pages, i - 1)].page
           range == answer.query.from..answer.query.to
<1> HIDE DEF doc, layout
<1>8. ASSUME NEW i \in DOMAIN doc, pages # <<>>, doc[i] \notin Blanks, PageAt(i) # 0
      PROVE  /\ Cardinality({j \in DOMAIN answer.hits : answer.hits[j].start < i /\ i <= answer.hits[j].end}) =
                  (IF PageAt(i) \in range THEN 1 ELSE 0)
             /\ answer.slice[1] < i /\ i <= answer.slice[2] => PageAt(i) \in range
  <2>1. ~(i <= pages[1].pos) /\ PageAt(i) = pages[AnchorAt(pages, i - 1)].page  BY <1>8
  <2>2. i \in 1..Len(doc) /\ i \in Nat  BY <1>4, <1>7
  <2>3. pages[1].pos < i
    <3>1. 1 \in 1..Len(pages)
      <4> DEFINE A == AnchorsOf(layout)
      <4>1. pages \in Seq(A)  BY <1>6 DEF Mapped
      <4> HIDE DEF A
      <4>2. Len(pages) \in Nat /\ Len(pages) # 0  BY <1>8, <4>1
      <4> QED  BY <4>2
    <3>2. pages[1].pos \in Nat  BY <1>6, <3>1, MappedHas
    <3> QED  BY <2>1, <2>2, <3>2
  <2> HIDE DEF PageAt
  <2>4. Cardinality({j \in DOMAIN answer.hits : Covers(answer.hits[j], i)}) =
          (IF pages[AnchorAt(pages, i - 1)].page \in q.from..q.to THEN 1 ELSE 0)
    BY <1>3, <1>4, <1>5, <1>6, <1>8, <2>2, <2>3, SlicesCover
  <2>5. answer.slice[1] < i /\ i <= answer.slice[2] => pages[AnchorAt(pages, i - 1)].page \in q.from..q.to
    BY <1>3, <1>4, <1>5, <1>6, <1>8, <2>2, <2>3, SliceWithin
  <2>6. range = q.from..q.to  BY <1>3
  <2> HIDE DEF range
  <2>7. {j \in DOMAIN answer.hits : Covers(answer.hits[j], i)} =
          {j \in DOMAIN answer.hits : answer.hits[j].start < i /\ i <= answer.hits[j].end}
    BY DEF Covers
  <2> QED  BY <2>1, <2>4, <2>5, <2>6, <2>7
<1>9. ASSUME NEW b \in DOMAIN layout, layout[b].len > 0, layout[b].page \in range
      PROVE  Cardinality({n \in DOMAIN answer.pieces : answer.pieces[n].block = b}) = 1
  <2>1. layout[b].page \in q.from..q.to  BY <1>3, <1>9
  <2> QED  BY <1>3, <1>5, <1>6, <1>9, <2>1, PiecesSelected
<1> QED  BY <1>8, <1>9, Zenon DEF RangesHold, doc, layout

-----------------------------------------------------------------------------
(* Blocks that are found once and whole *)

(* What AnchorsExact assumes of a document.                                 *)
FoundAt(layout, b) == Least(layout[b].full)
InTheirOrder(layout) ==
  \A b, c \in DOMAIN layout : layout[b].len > 0 /\ layout[c].len > 0 /\ b < c =>
    FoundAt(layout, b) + layout[b].len < FoundAt(layout, c)
TableStands(layout, closes, g, b) ==
  IF b <= TableGroups(layout)[g].owner THEN FoundAt(layout, b) < closes[g]
  ELSE closes[g] < FoundAt(layout, b) /\ TableGroups(layout)[g].last <= layout[b].page
TablesStand(layout, closes) ==
  Len(TableGroups(layout)) = Len(closes) =>
    \A g \in DOMAIN TableGroups(layout) : \A b \in DOMAIN layout :
      layout[b].len > 0 => TableStands(layout, closes, g, b)
ExactlyFound(layout, closes) ==
  /\ \A b \in DOMAIN layout : layout[b].len > 0 => Unique(layout[b].full)
  /\ InTheirOrder(layout) /\ TablesStand(layout, closes)

(* The anchor of a block, and that behind a table.                          *)
OfBlock(x, layout, b) ==
  /\ b \in DOMAIN layout /\ layout[b].len > 0
  /\ x.pos = FoundAt(layout, b) /\ x.page = layout[b].page /\ x.block = b
OfTable(x, layout, closes, g) ==
  /\ Len(TableGroups(layout)) = Len(closes) /\ g \in 1..Len(TableGroups(layout))
  /\ x.pos = closes[g] /\ x.page = TableGroups(layout)[g].last
OfEither(x, layout, closes) ==
  (\E b : OfBlock(x, layout, b)) \/ (\E g : OfTable(x, layout, closes, g))

(* The anchors of the first round, then.                                    *)
LEMMA FirstAnchorsExact ==
  ASSUME NEW layout, LayoutOK(layout), NEW closes, ClosesOK(closes), ExactlyFound(layout, closes)
  PROVE  LET s == FirstAnchors(layout, closes)
         IN /\ s \in Seq(AnchorsOf(layout))
            /\ \A i \in 1..Len(s) : OfEither(s[i], layout, closes)
            /\ \A b \in DOMAIN layout : layout[b].len > 0 =>
                 \E i \in 1..Len(s) : OfBlock(s[i], layout, b)
            /\ \A b \in DOMAIN layout : layout[b].len > 0 => Candidates(layout) # <<>>
<1> DEFINE X == AnchorsOf(layout)
           n == Len(layout)
           given == CandidateRows(layout)
           cand == Candidates(layout)
           cross == CrossPage(layout, closes)
           s == FirstAnchors(layout, closes)
           c == Len(cand)
           d == Len(cross)
<1>1. /\ n \in Nat /\ DOMAIN layout = 1..n
      /\ \A b \in 1..n : given[b] = Candidate(layout, b) /\ GivesOne(given[b], layout, b)
      /\ cand \in Seq(X) /\ \E h : Laid(cand, given, n, h)
  BY CandidatesHave
<1>2. cross \in Seq(X) /\ \E at : CrossOf(cross, layout, closes, at)  BY CrossHas
<1>3. PICK h : Laid(cand, given, n, h)  BY <1>1
<1>4. PICK at : CrossOf(cross, layout, closes, at)  BY <1>2
<1>5. s = cand \o cross  BY DEF FirstAnchors
<1>6. c \in Nat /\ d \in Nat /\ \A i \in 1..c : cand[i] \in X
  <2> HIDE DEF X, cand, cross
  <2> QED  BY <1>1, <1>2
<1>7. /\ s \in Seq(X) /\ Len(s) = c + d
      /\ \A i \in 1..c : s[i] = cand[i]
      /\ \A i \in c + 1..c + d : s[i] = cross[i - c] /\ i - c \in 1..d
  <2> HIDE DEF X, s, cand, cross
  <2> QED  BY <1>1, <1>2, <1>5, <1>6
<1>8. ASSUME NEW b \in 1..n
      PROVE  /\ layout[b].len > 0 => Len(given[b]) = 1 /\ OfBlock(given[b][1], layout, b)
             /\ given[b] # <<>> => layout[b].len > 0
  <2>1. /\ Unique(layout[b].full) =>
             given[b] = <<[pos |-> Least(layout[b].full), len |-> layout[b].len,
                          page |-> layout[b].page, block |-> b]>>
        /\ layout[b].len = 0 => given[b] = <<>>
    BY <1>1, CandidateHas
  <2>2. layout[b].len \in Nat  BY <1>1, BlockHas
  <2>3. ASSUME layout[b].len > 0
        PROVE  Len(given[b]) = 1 /\ OfBlock(given[b][1], layout, b)
    <3> DEFINE v == [pos |-> Least(layout[b].full), len |-> layout[b].len,
                     page |-> layout[b].page, block |-> b]
    <3>1. given[b] = <<v>>  BY <1>1, <2>1, <2>3 DEF ExactlyFound
    <3>2. OfBlock(v, layout, b)  BY <1>1, <2>3 DEF OfBlock, FoundAt
    <3> HIDE DEF v, given
    <3> QED  BY <3>1, <3>2
  <2> QED  BY <2>1, <2>2, <2>3
<1> HIDE DEF given, cand, cross, s, n
<1>9. ASSUME NEW i \in 1..c PROVE \E b : OfBlock(s[i], layout, b)
  <2>1. /\ h[i].row \in 1..n /\ h[i].col \in 1..Len(given[h[i].row])
        /\ cand[i] = given[h[i].row][h[i].col]
    BY <1>3 DEF Laid
  <2> DEFINE b == h[i].row
  <2> HIDE DEF b
  <2>2. b \in 1..n /\ h[i].col \in 1..Len(given[b]) /\ cand[i] = given[b][h[i].col]  BY <2>1 DEF b
  <2>3. given[b] # <<>>
    <3>1. given[b] \in Seq(X)  BY <1>1, <2>2 DEF GivesOne
    <3> SUFFICES ASSUME given[b] = <<>> PROVE FALSE  OBVIOUS
    <3>2. Len(given[b]) = 0 /\ 1..0 = {}  OBVIOUS
    <3> QED  BY <2>2, <3>2
  <2>4. Len(given[b]) = 1 /\ OfBlock(given[b][1], layout, b)  BY <1>8, <2>2, <2>3
  <2>5. h[i].col = 1  BY <2>2, <2>4
  <2> QED  BY <1>7, <2>2, <2>4, <2>5
<1>10. ASSUME NEW j \in 1..d PROVE \E g : OfTable(cross[j], layout, closes, g)
  <2>1. at[j] \in 1..Len(TableGroups(layout)) /\ cross[j] = CrossAnchor(layout, closes, at[j])
    BY <1>4 DEF CrossOf
  <2>2. Len(TableGroups(layout)) = Len(closes)
    <3>1. cross # <<>>
      <4> SUFFICES ASSUME cross = <<>> PROVE FALSE  OBVIOUS
      <4>1. d = 0  OBVIOUS
      <4> QED  BY <4>1
    <3> QED  BY <1>4, <3>1 DEF CrossOf
  <2>3. OfTable(cross[j], layout, closes, at[j])  BY <2>1, <2>2 DEF OfTable, CrossAnchor
  <2> QED  BY <2>3
<1>11. \A i \in 1..Len(s) : OfEither(s[i], layout, closes)
  <2> TAKE i \in 1..Len(s)
  <2>1. i \in 1..c \/ i \in c + 1..c + d  BY <1>6, <1>7
  <2>2. CASE i \in 1..c  BY <1>9, <2>2 DEF OfEither
  <2>3. CASE i \in c + 1..c + d
    <3>1. s[i] = cross[i - c] /\ i - c \in 1..d  BY <1>7, <2>3
    <3>2. \E g : OfTable(cross[i - c], layout, closes, g)  BY <1>10, <3>1
    <3> QED  BY <3>1, <3>2 DEF OfEither
  <2> QED  BY <2>1, <2>2, <2>3
<1>12. ASSUME NEW b \in DOMAIN layout, layout[b].len > 0
       PROVE  \E i \in 1..c : OfBlock(cand[i], layout, b)
  <2>1. b \in 1..n  BY <1>1
  <2>2. Len(given[b]) = 1 /\ OfBlock(given[b][1], layout, b)  BY <1>8, <1>12, <2>1
  <2>3. PICK i \in 1..c : h[i].row = b /\ h[i].col = 1
    <3>1. 1 \in 1..Len(given[b])  BY <2>2
    <3> QED  BY <1>3, <2>1, <3>1 DEF Laid
  <2>4. cand[i] = given[b][1]  BY <1>3, <2>3 DEF Laid
  <2> QED  BY <2>2, <2>4
<1>13. ASSUME NEW b \in DOMAIN layout, layout[b].len > 0
       PROVE  (\E i \in 1..Len(s) : OfBlock(s[i], layout, b)) /\ cand # <<>>
  <2>1. PICK i \in 1..c : OfBlock(cand[i], layout, b)  BY <1>12, <1>13
  <2>2. i \in 1..Len(s) /\ s[i] = cand[i]  BY <1>6, <1>7
  <2>3. cand # <<>>
    <3> SUFFICES ASSUME cand = <<>> PROVE FALSE  OBVIOUS
    <3>1. c = 0  OBVIOUS
    <3> QED  BY <3>1
  <2> QED  BY <2>1, <2>2, <2>3
<1> QED  BY <1>7, <1>11, <1>13 DEF s, cand

(* They go forward together.                                                *)
LEMMA ExactOnward ==
  ASSUME NEW layout, LayoutOK(layout), NEW closes, ClosesOK(closes), ExactlyFound(layout, closes),
         NEW x, OfEither(x, layout, closes), NEW y, OfEither(y, layout, closes)
  PROVE  Onward(x, y)
<1> DEFINE groups == TableGroups(layout)
           Y == GroupsOf(layout)
<1> SUFFICES ASSUME x.pos <= y.pos PROVE x.page <= y.page
  BY DEF Onward
<1>1. GroupsFit(groups, layout, Len(layout))  BY TablesGrouped
<1>2. Len(groups) \in Nat /\ DOMAIN groups = 1..Len(groups) /\ \A g \in 1..Len(groups) : groups[g] \in Y
  <2>1. groups \in Seq(Y)  BY <1>1 DEF GroupsFit
  <2> HIDE DEF Y, groups
  <2> QED  BY <2>1
<1>3. \A g \in 1..Len(groups) :
        /\ groups[g].owner \in DOMAIN layout /\ groups[g].owner \in Nat
        /\ groups[g].first \in Nat /\ groups[g].last \in Nat
        /\ groups[g].first = layout[groups[g].owner].page /\ groups[g].first <= groups[g].last
  <2> TAKE g \in 1..Len(groups)
  <2>1. groups[g] \in Y  BY <1>2
  <2>2. TableFits(layout, Len(layout), groups[g])  BY <1>1 DEF GroupsFit
  <2> QED  BY <2>1, <2>2, TableHas DEF TableFits
<1>4. \A g, h \in 1..Len(groups) : g < h => groups[g].last <= groups[h].first
  BY <1>1 DEF GroupsFit, TablesApart
<1>5. \A b \in DOMAIN layout :
        /\ b \in Nat /\ layout[b].page \in Nat /\ layout[b].len \in Nat
        /\ layout[b].len > 0 => FoundAt(layout, b) \in Nat
  <2> TAKE b \in DOMAIN layout
  <2>1. layout[b].len > 0 => Unique(layout[b].full)  BY DEF ExactlyFound
  <2>2. layout[b].full \subseteq Nat /\ IsFiniteSet(layout[b].full)  BY BlockHas
  <2> QED  BY <2>1, <2>2, BlockHas, UniqueLeast DEF FoundAt
<1>6. \A b, c \in DOMAIN layout : b <= c => layout[b].page <= layout[c].page
  <2> TAKE b, c \in DOMAIN layout
  <2> HAVE b <= c
  <2>1. b = c \/ b < c  BY <1>5
  <2> QED  BY <1>5, <2>1 DEF LayoutOK
<1>7. \A g \in 1..Len(closes) : closes[g] \in Nat  BY DEF ClosesOK
<1> HIDE DEF groups, Y
<1>8. CASE (\E b : OfBlock(x, layout, b)) /\ (\E c : OfBlock(y, layout, c))
  <2>1. PICK b : OfBlock(x, layout, b)  BY <1>8
  <2>2. PICK c : OfBlock(y, layout, c)  BY <1>8
  <2>3. b <= c
    <3> SUFFICES ASSUME c < b PROVE FALSE  BY <1>5, <2>1, <2>2 DEF OfBlock
    <3>1. FoundAt(layout, c) + layout[c].len < FoundAt(layout, b)
      BY <2>1, <2>2 DEF OfBlock, ExactlyFound, InTheirOrder
    <3>2. FoundAt(layout, b) <= FoundAt(layout, c)  BY <2>1, <2>2 DEF OfBlock
    <3>3. FoundAt(layout, b) \in Nat /\ FoundAt(layout, c) \in Nat /\ layout[c].len \in Nat
      BY <1>5, <2>1, <2>2 DEF OfBlock
    <3> QED  BY <3>1, <3>2, <3>3
  <2> QED  BY <1>6, <2>1, <2>2, <2>3 DEF OfBlock
<1>9. CASE (\E b : OfBlock(x, layout, b)) /\ (\E g : OfTable(y, layout, closes, g))
  <2>1. PICK b : OfBlock(x, layout, b)  BY <1>9
  <2>2. PICK g : OfTable(y, layout, closes, g)  BY <1>9
  <2>3. g \in 1..Len(groups) /\ g \in 1..Len(closes) /\ y.pos = closes[g] /\ y.page = groups[g].last
    BY <2>2 DEF OfTable, groups
  <2>4. b \in DOMAIN layout /\ layout[b].len > 0 /\ x.pos = FoundAt(layout, b) /\ x.page = layout[b].page
    BY <2>1 DEF OfBlock
  <2>5. TableStands(layout, closes, g, b)
    BY <1>2, <2>2, <2>3, <2>4 DEF ExactlyFound, TablesStand, OfTable, groups
  <2>6. b <= groups[g].owner
    <3> SUFFICES ASSUME ~(b <= groups[g].owner) PROVE FALSE  OBVIOUS
    <3>1. closes[g] < FoundAt(layout, b)  BY <2>5 DEF TableStands, groups
    <3>2. closes[g] \in Nat /\ FoundAt(layout, b) \in Nat  BY <1>5, <1>7, <2>3, <2>4
    <3> QED  BY <2>3, <2>4, <3>1, <3>2
  <2>7. layout[b].page <= groups[g].first  BY <1>3, <1>6, <2>3, <2>4, <2>6
  <2>8. groups[g].first \in Nat /\ groups[g].last \in Nat /\ groups[g].first <= groups[g].last /\ layout[b].page \in Nat
    BY <1>3, <1>5, <2>3, <2>4
  <2> QED  BY <2>3, <2>4, <2>7, <2>8
<1>10. CASE (\E g : OfTable(x, layout, closes, g)) /\ (\E b : OfBlock(y, layout, b))
  <2>1. PICK b : OfBlock(y, layout, b)  BY <1>10
  <2>2. PICK g : OfTable(x, layout, closes, g)  BY <1>10
  <2>3. g \in 1..Len(groups) /\ g \in 1..Len(closes) /\ x.pos = closes[g] /\ x.page = groups[g].last
    BY <2>2 DEF OfTable, groups
  <2>4. b \in DOMAIN layout /\ layout[b].len > 0 /\ y.pos = FoundAt(layout, b) /\ y.page = layout[b].page
    BY <2>1 DEF OfBlock
  <2>5. TableStands(layout, closes, g, b)
    BY <1>2, <2>2, <2>3, <2>4 DEF ExactlyFound, TablesStand, OfTable, groups
  <2>6. ~(b <= groups[g].owner)
    <3> SUFFICES ASSUME b <= groups[g].owner PROVE FALSE  OBVIOUS
    <3>1. FoundAt(layout, b) < closes[g]  BY <2>5 DEF TableStands, groups
    <3>2. closes[g] \in Nat /\ FoundAt(layout, b) \in Nat  BY <1>5, <1>7, <2>3, <2>4
    <3> QED  BY <2>3, <2>4, <3>1, <3>2
  <2> QED  BY <2>3, <2>4, <2>5, <2>6 DEF TableStands, groups
<1>11. CASE (\E g : OfTable(x, layout, closes, g)) /\ (\E h : OfTable(y, layout, closes, h))
  <2>1. PICK g : OfTable(x, layout, closes, g)  BY <1>11
  <2>2. PICK h : OfTable(y, layout, closes, h)  BY <1>11
  <2>3. /\ g \in 1..Len(groups) /\ g \in 1..Len(closes) /\ x.pos = closes[g] /\ x.page = groups[g].last
        /\ h \in 1..Len(groups) /\ h \in 1..Len(closes) /\ y.pos = closes[h] /\ y.page = groups[h].last
    BY <2>1, <2>2 DEF OfTable, groups
  <2>4. ~(h < g)
    <3> SUFFICES ASSUME h < g PROVE FALSE  OBVIOUS
    <3>1. closes[h] < closes[g]
      <4>1. DOMAIN closes = 1..Len(closes)  BY DEF ClosesOK
      <4> QED  BY <2>3, <4>1 DEF ClosesOK
    <3> QED  BY <1>7, <2>3, <3>1
  <2>5. g = h \/ g < h  BY <1>2, <2>3, <2>4
  <2>6. groups[g].last \in Nat /\ groups[h].last \in Nat /\ groups[h].first \in Nat /\ groups[h].first <= groups[h].last
    BY <1>3, <2>3
  <2>7. g < h => groups[g].last <= groups[h].first  BY <1>4, <2>3
  <2> QED  BY <2>3, <2>5, <2>6, <2>7
<1> QED  BY <1>8, <1>9, <1>10, <1>11 DEF OfEither

(* Where anchors of the first round go forward, they are the mapping.       *)
LEMMA ExactlyMapped ==
  ASSUME NEW layout, LayoutOK(layout), NEW closes, ClosesOK(closes), ExactlyFound(layout, closes),
         NEW b \in DOMAIN layout, layout[b].len > 0
  PROVE  LET t == Mapping(layout, closes)
         IN /\ \A k \in 1..Len(t) : OfEither(t[k], layout, closes)
            /\ \E m \in 1..Len(t) : OfBlock(t[m], layout, b)
<1> DEFINE X == AnchorsOf(layout)
           s == FirstAnchors(layout, closes)
           u == ByPosition(s)
           first == FirstRound(layout, closes)
           w == Windowed(layout, first)
           t == Mapping(layout, closes)
<1>1. /\ s \in Seq(X)
      /\ \A i \in 1..Len(s) : OfEither(s[i], layout, closes)
      /\ \A c \in DOMAIN layout : layout[c].len > 0 => \E i \in 1..Len(s) : OfBlock(s[i], layout, c)
      /\ Candidates(layout) # <<>>
  BY FirstAnchorsExact
<1>2. \A x \in X : x.pos \in Int  BY AnchorHas
<1>3. u \in Seq(X) /\ Len(u) = Len(s) /\ Positioned(u) /\ ToSet(u) = ToSet(s)
  <2> HIDE DEF X, s
  <2> QED  BY <1>1, <1>2, PositionedAgain
<1> HIDE DEF u, s, X, w, t, first
<1>4. DOMAIN u = 1..Len(u) /\ DOMAIN s = 1..Len(s) /\ Len(u) \in Nat  BY <1>1, <1>3
<1>5. \A k \in 1..Len(u) : OfEither(u[k], layout, closes)
  <2> TAKE k \in 1..Len(u)
  <2>1. u[k] \in ToSet(s)  BY <1>3, <1>4 DEF ToSet
  <2>2. PICK i \in 1..Len(s) : s[i] = u[k]  BY <1>4, <2>1 DEF ToSet
  <2> QED  BY <1>1, <2>2
<1>6. \A c \in DOMAIN layout : layout[c].len > 0 => \E k \in 1..Len(u) : OfBlock(u[k], layout, c)
  <2> SUFFICES ASSUME NEW c \in DOMAIN layout, layout[c].len > 0
               PROVE  \E k \in 1..Len(u) : OfBlock(u[k], layout, c)
    OBVIOUS
  <2>1. PICK i \in 1..Len(s) : OfBlock(s[i], layout, c)  BY <1>1
  <2>2. s[i] \in ToSet(u)  BY <1>3, <1>4 DEF ToSet
  <2>3. PICK k \in 1..Len(u) : u[k] = s[i]  BY <1>4, <2>2 DEF ToSet
  <2> QED  BY <2>1, <2>3
<1>7. Rising(u)
  <2> SUFFICES ASSUME NEW j \in 1..Len(u), NEW k \in 1..Len(u), j < k PROVE u[j].page <= u[k].page
    BY DEF Rising
  <2>1. u[j].pos <= u[k].pos  BY <1>3 DEF Positioned
  <2>2. Onward(u[j], u[k])  BY <1>5, ExactOnward
  <2> QED  BY <2>1, <2>2 DEF Onward
<1>8. first = u  BY <1>1, <1>7, FirstRoundHas DEF first, u, s
<1>9. EachHeld(layout, first)
  <2> SUFFICES ASSUME NEW c \in DOMAIN layout, layout[c].len > 0
               PROVE  \E k \in 1..Len(first) : first[k].block = c
    BY DEF EachHeld
  <2>1. PICK k \in 1..Len(u) : OfBlock(u[k], layout, c)  BY <1>6
  <2> QED  BY <1>8, <2>1 DEF OfBlock
<1>10. w = <<>>  BY <1>3, <1>8, <1>9, WindowedFits DEF w, X
<1>11. t = ByPosition(u)
  <2>1. t = ByPosition(first \o w)  BY MappingHas DEF t, first, w
  <2>2. first \o w = u  BY <1>3, <1>8, <1>10
  <2> QED  BY <2>1, <2>2
<1>12. t \in Seq(X) /\ Len(t) = Len(u) /\ ToSet(t) = ToSet(u)
  BY <1>2, <1>3, <1>11, PositionedAgain
<1>13. DOMAIN t = 1..Len(t)  BY <1>12
<1>14. \A k \in 1..Len(t) : OfEither(t[k], layout, closes)
  <2> TAKE k \in 1..Len(t)
  <2>1. t[k] \in ToSet(u)  BY <1>12, <1>13 DEF ToSet
  <2>2. PICK i \in 1..Len(u) : u[i] = t[k]  BY <1>4, <2>1 DEF ToSet
  <2> QED  BY <1>5, <2>2
<1>15. \E m \in 1..Len(t) : OfBlock(t[m], layout, b)
  <2>1. PICK i \in 1..Len(u) : OfBlock(u[i], layout, b)  BY <1>6
  <2>2. u[i] \in ToSet(t)  BY <1>4, <1>12 DEF ToSet
  <2>3. PICK m \in 1..Len(t) : t[m] = u[i]  BY <1>13, <2>2 DEF ToSet
  <2> QED  BY <2>1, <2>3
<1> QED  BY <1>14, <1>15 DEF t

(* The text at a block has the page of the block.                           *)
LEMMA BlockPaged ==
  ASSUME NEW layout, LayoutOK(layout), NEW closes, ClosesOK(closes), ExactlyFound(layout, closes),
         NEW b \in DOMAIN layout, layout[b].len > 0
  PROVE  Label(Mapping(layout, closes), FoundAt(layout, b), FoundAt(layout, b)).from = layout[b].page
<1> DEFINE t == Mapping(layout, closes)
           p == FoundAt(layout, b)
           k == AnchorAt(t, p)
<1>1. Mapped(t, layout)  BY MappingHas
<1>2. /\ \A j \in 1..Len(t) : OfEither(t[j], layout, closes)
      /\ \E j \in 1..Len(t) : OfBlock(t[j], layout, b)
  BY ExactlyMapped
<1> HIDE DEF t
<1>3. PICK m \in 1..Len(t) : OfBlock(t[m], layout, b)  BY <1>2
<1>4. t[m].pos = p /\ t[m].page = layout[b].page  BY <1>3 DEF OfBlock
<1>5. p \in Nat /\ Len(t) \in Nat  BY <1>1, <1>4, MappedHas
<1> HIDE DEF p
<1>6. t # <<>>
  <2> SUFFICES ASSUME t = <<>> PROVE FALSE  OBVIOUS
  <2>1. Len(t) = 0  OBVIOUS
  <2> QED  BY <1>3, <2>1
<1>7. /\ k \in 1..Len(t) /\ (k = 1 \/ t[k].pos <= p)
      /\ \A i \in 1..Len(t) : t[i].pos <= p => i <= k
  BY <1>1, <1>5, <1>6, AnchorAtHas
<1> HIDE DEF k
<1>8. m <= k
  <2>1. t[m].pos <= p  BY <1>4, <1>5
  <2> QED  BY <1>7, <2>1
<1>9. t[m].page <= t[k].page /\ t[k].page \in Nat /\ t[m].page \in Nat  BY <1>1, <1>7, <1>8, MappedHas
<1>10. t[k].page <= t[m].page
  <2>1. CASE k = 1
    <3>1. m = k  BY <1>5, <1>8, <2>1
    <3> QED  BY <1>9, <3>1
  <2>2. CASE k # 1
    <3>1. t[k].pos <= t[m].pos  BY <1>4, <1>7, <2>2
    <3>2. Onward(t[k], t[m])  BY <1>2, <1>7, ExactOnward
    <3> QED  BY <3>1, <3>2 DEF Onward
  <2> QED  BY <2>1, <2>2
<1>11. t[k].page = layout[b].page  BY <1>4, <1>9, <1>10
<1> QED  BY <1>11 DEF Label, k, t, p

(* The mapping of an index is exact where it can be.                        *)
LEMMA AnchorsAreExact ==
  ASSUME IndexInv
  PROVE  AnchorsExact
<1> DEFINE layout == input.layout
           closes == input.closes
           pieces == {b \in DOMAIN layout : layout[b].len > 0}
           groups == TableGroups(layout)
           Stand(b) == Least(layout[b].full)
           Stands(g, b) == IF b <= groups[g].owner THEN Stand(b) < closes[g]
                           ELSE closes[g] < Stand(b) /\ groups[g].last <= layout[b].page
           exact == /\ \A b \in pieces : Cardinality(layout[b].full) = 1
                    /\ \A b, c \in pieces : b < c => Stand(b) + layout[b].len < Stand(c)
                    /\ Len(groups) = Len(closes) => \A g \in DOMAIN groups : \A b \in pieces : Stands(g, b)
<1>1. ASSUME current > 0, exact, NEW b \in pieces
      PROVE  Label(pages, Stand(b), Stand(b)).from = layout[b].page
  <2>1. pages = Mapping(layout, closes) /\ LayoutOK(layout) /\ ClosesOK(closes)
    BY <1>1, PagesMapped
  <2>2. ExactlyFound(layout, closes)
    <3> HIDE DEF layout, closes
    <3>1. \A c \in DOMAIN layout : layout[c].len > 0 => Unique(layout[c].full)  BY <1>1 DEF Unique
    <3>2. InTheirOrder(layout)  BY <1>1 DEF InTheirOrder, FoundAt
    <3>3. TablesStand(layout, closes)  BY <1>1 DEF TablesStand, TableStands, FoundAt
    <3> QED  BY <3>1, <3>2, <3>3 DEF ExactlyFound
  <2> HIDE DEF layout, closes, exact
  <2>3. b \in DOMAIN layout /\ layout[b].len > 0  BY <1>1
  <2>4. Label(Mapping(layout, closes), FoundAt(layout, b), FoundAt(layout, b)).from = layout[b].page
    BY <2>1, <2>2, <2>3, BlockPaged
  <2> QED  BY <2>1, <2>4 DEF FoundAt
<1> QED  BY <1>1, Zenon DEF AnchorsExact

-----------------------------------------------------------------------------
(* The pages on a span, its marks and its boxes, are those its label names  *)
(* (PagesAgree): split_span_by_pages and page_bounds_for_span agree.        *)
THEOREM SpansNamePages == IndexSpec => []PagesAgree
BY IndexInvariant, PagesNamed, PTL

(* Where every block is found once, whole and in order, the text at a block *)
(* has the page of the block (AnchorsExact): build_page_mapping then has    *)
(* nothing to leave out.                                                    *)
THEOREM BlocksKeepPages == IndexSpec => []AnchorsExact
BY IndexInvariant, AnchorsAreExact, PTL

(* A range of pages has each position on its pages once and none of another *)
(* page, and each block on its pages once (RangesHold).                     *)
THEOREM RangesAreExact == IndexSpec => []RangesHold
BY IndexInvariant, RangesKept, PTL

(* What was parsed can be found (DocumentSearchable): whatever the text,    *)
(* the layout, the sizes, the faults and the retries, no cell that is no    *)
(* separator is lost, sizes and spans hold, pages are those of the text,    *)
(* and each search returns what it promises.                                *)
THEOREM DocumentFound == IndexSpec => []DocumentSearchable
<1>1. IndexInv => DocumentSearchable
  BY CellsStay, SizesBound, SpansWithin, PagesNamed, FirstStay, AnchorsAreExact, RangesKept,
     WordsKept, ParentsKept
     DEF DocumentSearchable
<1> QED  BY <1>1, IndexInvariant, PTL
=============================================================================

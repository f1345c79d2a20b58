------------------------------- MODULE Orders -------------------------------
(* Least and greatest elements, and sorting as the code does it. *)
EXTENDS Integers, FiniteSets, Sequences

Least(S) == CHOOSE x \in S : \A y \in S : x <= y
Most(S)  == CHOOSE x \in S : \A y \in S : x >= y
Smaller(m, n) == IF m <= n THEN m ELSE n
Larger(m, n) == IF m >= n THEN m ELSE n
Ordered(S) ==
  [j \in 1..Cardinality(S) |-> CHOOSE x \in S : Cardinality({y \in S : y < x}) = j - 1]

(* The elements of a sequence at some of its places, in order. *)
Picked(s, places) ==
  LET at == Ordered(places) IN [j \in DOMAIN at |-> s[at[j]]]

(* `list.sort` with a key: equal elements stay in order. *)
Arranged(s, Less(_, _)) ==
  LET Ahead(i) == {j \in DOMAIN s : Less(s[j], s[i]) \/ (~Less(s[i], s[j]) /\ j < i)}
  IN [n \in DOMAIN s |-> s[CHOOSE i \in DOMAIN s : Cardinality(Ahead(i)) = n - 1]]

Prefix(s, n) == SubSeq(s, 1, Smaller(n, Len(s)))
=============================================================================

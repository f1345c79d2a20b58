----------------------------- MODULE MCIndexing -----------------------------
(* Documents to start the index of a file from. *)
EXTENDS Indexing

CONSTANT Wide    \* length of the texts without a table

SeqsTo(S, n) == UNION {[1..m -> S] : m \in 0..n}

Doc(d, named, at, queries) ==
  [doc |-> d, named |-> named, layout |-> at.layout, closes |-> at.closes, size |-> 9,
   cut |-> [size |-> 3, overlap |-> 1], faults |-> {}, again |-> {}, runs |-> 1,
   queries |-> queries]

WordQuery(m, k, o, n, t) ==
  [method |-> m, keywords |-> k, order |-> o, maxResults |-> n, maxTotal |-> t]
VectorQuery(f, r, n) == [method |-> "vector_db", floor |-> f, ratio |-> r, maxResults |-> n]

Words ==
  {WordQuery(m, <<"ink", "stop">>, o, 2, 2) :
     m \in {"context", "rule", "chunk_db"}, o \in {"relevance", "asc", "desc"}}
  \union {WordQuery(m, <<"stop", "ink", "stop">>, "relevance", 2, 3) : m \in {"context", "chunk_db"}}
Similar == {VectorQuery(0, 5, 2), VectorQuery(5, 0, 1)}
Ranges ==
  {[method |-> "page", from |-> r[1], to |-> r[2], length |-> 4] : r \in {<<1, 1>>, <<2, 3>>}}

Block(kind, page, n, places) ==
  [kind |-> kind, page |-> page, len |-> n, full |-> places, begin |-> {}, frag |-> {}]
At(layout) == [layout |-> layout, closes |-> <<>>]
Nowhere == At(<<>>)
Pages3 == At(<<Block("text", 1, 1, {0}), Block("text", 2, 1, {2}), Block("text", 3, 1, {4})>>)
Skips  == At(<<Block("text", 1, 1, {1}), Block("text", 3, 1, {3})>>)
Within(d, at) ==
  [at EXCEPT !.layout = SelectSeq(@, LAMBDA b : \A p \in b.full : p + b.len <= Len(d))]

(* Three blocks, found once or twice, truly or falsely; a table on one page *)
(* or on two, paired with the text or not.                                  *)
Ink(n) == [i \in 1..n |-> "ink"]
Spots == {S \in SUBSET {0, 2, 4} : Cardinality(S) \in {1, 2}}
Scattered ==
  {At(<<Block("text", p[1], 1, s[1]), [Block("text", p[2], 2, s[2]) EXCEPT !.begin = r[1], !.frag = r[2]],
        Block("text", p[3], 1, s[3])>>) :
     p \in {<<1, 1, 2>>, <<1, 2, 3>>, <<2, 2, 4>>}, s \in [1..3 -> Spots], r \in {<<{}, {}>>, <<{3}, {}>>, <<{}, {1, 3}>>}}
AcrossPages ==
  {[layout |-> <<Block("text", 1, 1, {0}), Block("table", 1, t[1], t[2])>>
                 \o shells \o <<Block("text", n, 1, s)>>,
    closes |-> closes] :
     n \in {2, 3}, t \in {<<1, {2}>>, <<1, {3, 5}>>, <<0, {}>>}, s \in {{4}, {5}, {0, 5}}, closes \in {<<>>, <<3>>},
     shells \in {<<>>, <<Block("shell", 2, 0, {})>>}}

MCSeparators == <<"line", "stop", "mark", "gap">>
Nested ==
  <<"ink", "mark", "ink", "gap">> \o Ink(6) \o <<"stop", "ink", "line", "ink">>

IdleDocument == Doc(<<>>, FALSE, Nowhere, {})

MCDocuments ==
  {IdleDocument}
  \union {Doc(d, FALSE, Within(d, m), Words \union Similar \union Ranges) :
     d \in SeqsTo({"ink", "line", "stop"}, Wide), m \in {Pages3, Skips}}
  \union {Doc(d, n, Nowhere, {VectorQuery(0, 5, 2)} \union Words) :
            d \in SeqsTo({"ink", "line", "row", "open", "close"}, Wide - 2), n \in BOOLEAN}
  \union {[Doc(Nested, FALSE, Nowhere, {}) EXCEPT !.cut = [size |-> 5, overlap |-> n]] : n \in {0, 1, 4}}
  \union {Doc(Ink(6), FALSE, m, Ranges) : m \in Scattered \union AcrossPages}
  \union {[Doc(<<"ink", "ink", "stop", "ink", "open", "ink", "close">>, FALSE, Pages3, {}) EXCEPT
             !.size = s[1], !.faults = s[2], !.runs = 2, !.again = {TRUE}] :
            s \in {<<2, {"drop"}>>, <<2, {"refuse"}>>, <<2, {"short"}>>, <<3, {"milvus"}>>}}

-----------------------------------------------------------------------------
(* Documents for the promises that the code breaks: one that is embedded    *)
(* twice, and one whose overlaps are taken from overlaps.                   *)
RetriedDocument == {[Doc(Ink(6), FALSE, Pages3, {}) EXCEPT !.runs = 2]}
NestedDocument == {[Doc(Nested, FALSE, Nowhere, {}) EXCEPT !.cut = [size |-> 5, overlap |-> 4]]}
=============================================================================

----------------------------- MODULE Retrieval ------------------------------
(***************************************************************************)
(* What a search returns: keyword windows and their merging                 *)
(* (service/search_merge.py, search_context and search_rule of              *)
(* service/extraction_service.py), the ranking of keyword hits              *)
(* (service/search_ranking.py) and the choice of chunks by the vectors of   *)
(* their subchunks (service/file_vector_index.py).                          *)
(*                                                                         *)
(* A keyword is a kind of cell.  The weight of a keyword stands for its     *)
(* logarithm: the rarer, the heavier.                                       *)
(***************************************************************************)
EXTENDS Passages

CONSTANTS Before, After,   \* context_before and context_after
          Reach,           \* max_length of a rule search
          MinLength        \* min_length of a rule search

ASSUME WidthsNatural == {Before, After, Reach, MinLength} \subseteq Nat

-----------------------------------------------------------------------------
(* Windows around keywords *)

(* search_context *)
ContextWindow(doc, i) ==
  [pos |-> i - 1, start |-> Larger(0, i - 1 - Before), end |-> Smaller(Len(doc), i + After)]

(* search_rule: to the nearest stop word, or as far as Reach, without the   *)
(* blanks at the ends.                                                      *)
StopKinds == {"line", "stop"}
RuleWindow(doc, i, direction) ==
  LET low == Larger(0, i - 1 - Reach)
      high == Smaller(Len(doc), i + Reach)
      behind == {j \in low + 1..i - 1 : doc[j] \in StopKinds}
      ahead == {j \in i + 1..high : doc[j] \in StopKinds}
      start == IF direction = "forward" THEN i - 1 ELSE Most(behind \union {low})
      end == IF direction = "backward" THEN i ELSE Least({j - 1 : j \in ahead} \union {high})
      ink == {j \in start + 1..end : doc[j] \notin Blanks}
  IN [pos |-> i - 1,
      start |-> IF ink = {} THEN end ELSE Least(ink) - 1,
      end |-> IF ink = {} THEN end ELSE Most(ink)]

(* A window that touches a table is widened to the whole of it. *)
Widened(doc, w) ==
  LET tables == Tables(doc)
      met == {tables[j] : j \in {m \in DOMAIN tables : tables[m].to > w.start /\ tables[m].from - 1 < w.end}}
  IN [w EXCEPT !.start = Least({w.start} \union {v.from - 1 : v \in met}),
               !.end = Most({w.end} \union {v.to : v \in met})]

(* Mutant of Apart: windows that touch stay two. *)
MutApartTouching(last, w) == w.start >= last.end

Apart(last, w) == w.start > last.end

(* merge_keyword_spans, for one keyword. *)
Merged(doc, windows, descending) ==
  LET wide == [j \in DOMAIN windows |-> Widened(doc, windows[j])]
      Sooner(v, w) == v.start < w.start \/ (v.start = w.start /\ v.end < w.end)
      Join(spans, w) ==
        IF spans = <<>> THEN <<w>>
        ELSE IF Apart(Last(spans), w) THEN Append(spans, w)
        ELSE LET last == Last(spans)
             IN [spans EXCEPT ![Len(spans)] =
                   [start |-> last.start, end |-> Larger(last.end, w.end),
                    pos |-> IF descending THEN Larger(last.pos, w.pos)
                            ELSE Smaller(last.pos, w.pos)]]
  IN FoldLeft(Join, <<>>, Arranged(wide, Sooner))

-----------------------------------------------------------------------------
(* Ranking *)

(* compute_keyword_weights, over the chunks of the file. *)
Weight(keyword, chunks) ==
  1 + Len(chunks) - Cardinality({c \in DOMAIN chunks : Holds(chunks[c].text, keyword)})

(* score_segment: each keyword that occurs counts once, as the groups and   *)
(* the weights are dictionaries.                                            *)
Firsts(keywords) ==
  Ordered({i \in DOMAIN keywords : \A j \in 1..i - 1 : keywords[j] # keywords[i]})
Score(text, keywords, chunks) ==
  LET Add(sum, i) == IF Holds(text, keywords[i]) THEN sum + Weight(keywords[i], chunks) ELSE sum
  IN FoldLeft(Add, 0, Firsts(keywords))

(* The groups in turn, one hit of each, until there are `limit` (0: all). *)
RoundRobin(groups, limit) ==
  LET deepest == Most({0} \union {Len(groups[g]) : g \in DOMAIN groups})
      Turn(d) == LET deep == Picked(groups, {g \in DOMAIN groups : Len(groups[g]) >= d})
                 IN [j \in DOMAIN deep |-> deep[j][d]]
      all == FlattenSeq([d \in 1..deepest |-> Turn(d)])
  IN IF limit = 0 THEN all ELSE Prefix(all, limit)

(* Mutant of Shortened: the limit of all hits is put on the best ones. *)
MutShortenedGlobally(groups, limit) ==
  LET all == FlattenSeq(groups) IN IF limit = 0 THEN all ELSE Prefix(all, limit)

(* The last of the three steps of rank_and_truncate. *)
Shortened(groups, limit) == RoundRobin(groups, limit)

(* rank_and_truncate.  `groups` has the hits of each keyword, as records    *)
(* with `pos` and `score`.                                                  *)
Ranked(groups, order, maxResults, maxTotal) ==
  LET Ahead(r, s) ==
        CASE order = "relevance" -> r.score > s.score \/ (r.score = s.score /\ r.pos < s.pos)
          [] order = "asc" -> r.pos < s.pos
          [] order = "desc" -> r.pos > s.pos
      Foremost(g, h) ==
        IF order = "relevance" THEN g[1].score > h[1].score ELSE Ahead(g[1], h[1])
      cut == [g \in DOMAIN groups |-> Prefix(Arranged(groups[g], Ahead), maxResults)]
      kept == Picked(cut, {g \in DOMAIN cut : cut[g] # <<>>})
  IN Shortened(Arranged(kept, Foremost), maxTotal)

-----------------------------------------------------------------------------
(* The three searches by keyword.  A query is [method, keywords, order,     *)
(* maxResults, maxTotal].                                                   *)

Occurrences(doc, keyword) == Ordered({i \in DOMAIN doc : doc[i] = keyword})

WindowAt(doc, query, i) ==
  IF query.method = "context" THEN ContextWindow(doc, i) ELSE RuleWindow(doc, i, "both")

(* search_context, search_rule *)
WindowHits(doc, chunks, query) ==
  LET Group(keyword) ==
        LET at == Occurrences(doc, keyword)
            windows == [j \in DOMAIN at |-> WindowAt(doc, query, at[j])]
            long == IF query.method = "rule"
                      THEN Picked(windows, {j \in DOMAIN windows :
                                              windows[j].end - windows[j].start >= MinLength})
                      ELSE windows
            spans == Merged(doc, long, query.order = "desc")
        IN [j \in DOMAIN spans |->
              [keyword |-> keyword, pos |-> spans[j].pos, start |-> spans[j].start,
               end |-> spans[j].end,
               score |-> Score(SubSeq(CellsOf(doc), spans[j].start + 1, spans[j].end),
                               query.keywords, chunks)]]
      firsts == Firsts(query.keywords)
  IN [g \in DOMAIN firsts |-> Group(query.keywords[firsts[g]])]

(* search_chunk_db; a keyword that is repeated finds its chunks again. *)
ChunkHits(chunks, query) ==
  LET Group(keyword) ==
        LET once == Ordered({c \in DOMAIN chunks : Holds(chunks[c].text, keyword)})
            times == {i \in DOMAIN query.keywords : query.keywords[i] = keyword}
            at == FlattenSeq([m \in 1..Cardinality(times) |-> once])
        IN [j \in DOMAIN at |->
              [keyword |-> keyword, pos |-> at[j], start |-> chunks[at[j]].start,
               end |-> chunks[at[j]].end,
               score |-> Score(chunks[at[j]].text, query.keywords, chunks)]]
      firsts == Firsts(query.keywords)
  IN [g \in DOMAIN firsts |-> Group(query.keywords[firsts[g]])]

Found(doc, chunks, query) ==
  LET groups ==
        IF query.method = "chunk_db" THEN ChunkHits(chunks, query)
        ELSE WindowHits(doc, chunks, query)
  IN Ranked(groups, query.order, query.maxResults, query.maxTotal)

-----------------------------------------------------------------------------
(* The search by vectors *)

(* select_parent_hits.  `rows` are the rows of the file, `score` gives each *)
(* row its similarity, `ratio` is score_ratio in tenths, `floor` the        *)
(* absolute threshold.                                                      *)
ParentHits(rows, score, floor, ratio, limit) ==
  LET parents == {rows[i].parent : i \in DOMAIN rows}
      Best(p) == Most({score[i] : i \in {j \in DOMAIN rows : rows[j].parent = p}})
      First(p) == Least({i \in DOMAIN rows : rows[i].parent = p})
      inOrder == [j \in 1..Cardinality(parents) |->
                    rows[Ordered({First(p) : p \in parents})[j]].parent]
      ranked == Arranged(inOrder, LAMBDA p, q : Best(p) > Best(q))
      above == Picked(ranked, {j \in DOMAIN ranked : Best(ranked[j]) >= floor})
      near == Picked(above, {j \in DOMAIN above : 10 * Best(above[j]) >= ratio * Best(above[1])})
  IN Prefix(IF ratio > 0 THEN near ELSE above, limit)
=============================================================================

------------------------------ MODULE Indexing ------------------------------
(***************************************************************************)
(* The index of ONE file: the chunking stage cuts the text and stores the   *)
(* chunks with their pages, the embedding stage (Embedding) makes their     *)
(* vectors, and searches read both (Retrieval).  A retry may begin again,   *)
(* with tables that were named anew.                                        *)
(***************************************************************************)
EXTENDS Retrieval, Embedding

CONSTANTS Documents,  \* what to start from: [doc, named, layout, closes],
                      \* how it is cut, batch size and faults, whether a later naming
                      \* finds names (`again`), at most `runs` calls, and `queries`:
                      \* [method, keywords, order, maxResults, maxTotal] by
                      \* keyword, [method, floor, ratio, maxResults] by
                      \* vector, [method, from, to, length] by page
          Scores      \* similarities, in tenths

InputFields ==
  {"doc", "named", "layout", "closes", "size", "cut", "faults", "again", "runs", "queries"}

(* What a search can ask for. *)
KeywordMethods == {"context", "rule", "chunk_db"}
QueryOK(q) ==
  \/ /\ q.method \in KeywordMethods /\ q.keywords \in Seq(CellKinds)
     /\ q.order \in {"relevance", "asc", "desc"} /\ q.maxResults \in Nat /\ q.maxTotal \in Nat
  \/ q.method = "vector_db" /\ q.floor \in Int /\ q.ratio \in Nat /\ q.maxResults \in Nat
  \/ q.method = "page" /\ {q.from, q.to, q.length} \subseteq Nat

ASSUME DocumentsTyped ==
  \A d \in Documents :
    /\ DOMAIN d = InputFields
    /\ d.doc \in Seq(CellKinds) /\ d.cut \in Cutting
    /\ d.named \in BOOLEAN /\ d.again \subseteq BOOLEAN
    /\ LayoutOK(d.layout) /\ ClosesOK(d.closes)
    /\ \A q \in d.queries : QueryOK(q)
ASSUME ScoresNumbers == Scores \subseteq Int

VARIABLES input,    \* the document, as it was parsed last
          pages,    \* its page mapping
          chunks,   \* the rows of file_chunk
          carried,  \* the pages of the chunks as embed_chunks was given them
          answer    \* what the last search returned

indexVars == <<embeddingVars, input, pages, chunks, carried, answer>>

None == [method |-> "none"]

IndexInit ==
  /\ input \in Documents
  /\ size = input.size /\ faults = input.faults /\ EmbeddingInit
  /\ pages = <<>>
  /\ chunks = <<>> /\ carried = <<>>
  /\ answer = None

(* chunk_content and save_chunks; the pages come from the mapping. *)
WithPages(cut, mapping) ==
  [c \in DOMAIN cut |->
     [text |-> cut[c].text, start |-> cut[c].start, end |-> cut[c].end,
      label |-> IF mapping = <<>> THEN <<>>
                ELSE LET l == Label(mapping, cut[c].start, cut[c].end) IN <<l.from, l.to>>]]

TextsOf(subs) == [j \in DOMAIN subs |-> subs[j].text]

(* The stages chunking and embedding of a pipeline begin; a retry has       *)
(* deleted the chunks and the vectors.                                      *)
Cut ==
  /\ pages' = Mapping(input'.layout, input'.closes)
  /\ chunks' = WithPages(Chunks(input'.doc, input'.named, input'.cut), pages')
  /\ StartCall(TextsOf(Subchunks(chunks')))
  /\ answer' = None

(* The first run embeds the chunks as they were cut. *)
Begin ==
  /\ current = 0 /\ input' = input /\ Cut
  /\ carried' = [c \in DOMAIN chunks' |-> chunks'[c].label]

(* A retry, from tableing or from a later stage, reads the chunks that it   *)
(* embeds back from their table, without their places.                      *)
Again ==
  /\ current \in 1..input.runs - 1 /\ stage \in {"done", "failed"}
  /\ \E named \in {input.named} \union input.again : input' = [input EXCEPT !.named = named]
  /\ Cut
  /\ carried' = [c \in DOMAIN chunks' |-> <<>>]

Work == CallStep /\ UNCHANGED <<input, pages, chunks, carried, answer>>

Settled == stage \in {"done", "failed"} /\ answer = None

(* A search by keyword, over the text and the chunks. *)
SearchWords ==
  /\ Settled
  /\ \E q \in {r \in input.queries : r.method \in KeywordMethods} :
       answer' = [method |-> q.method, query |-> q, hits |-> Found(input.doc, chunks, q)]
  /\ UNCHANGED <<embeddingVars, input, pages, chunks, carried>>

(* The parent of a row, as the row was written. *)
ParentOf(i) == Subchunks(chunks)[stored[i].at].parent

(* search_vector_db, with every similarity the rows may have. *)
SearchVectors ==
  /\ Settled
  /\ \E q \in {r \in input.queries : r.method = "vector_db"}, score \in [DOMAIN stored -> Scores] :
       LET parents == [i \in DOMAIN stored |-> [parent |-> ParentOf(i)]]
       IN answer' = [method |-> q.method, query |-> q, score |-> score,
                     hits |-> ParentHits(parents, score, q.floor, q.ratio, q.maxResults)]
  /\ UNCHANGED <<embeddingVars, input, pages, chunks, carried>>

(* The text of a range of pages: page by page, in one slice, and as the     *)
(* blocks it was made of.                                                   *)
SearchPages ==
  /\ Settled
  /\ \E q \in {r \in input.queries : r.method = "page"} :
       answer' = [method |-> q.method, query |-> q,
                  hits |-> PageSlices(input.doc, pages, q.from, q.to),
                  slice |-> RangeSlice(input.doc, pages, q.from, q.to, q.length),
                  pieces |-> Selected(input.layout, q.from, q.to)]
  /\ UNCHANGED <<embeddingVars, input, pages, chunks, carried>>

IndexNext == Begin \/ Again \/ Work \/ SearchWords \/ SearchVectors \/ SearchPages

IndexSpec == IndexInit /\ [][IndexNext]_indexVars

-----------------------------------------------------------------------------
(* Properties *)

(* What may vanish at a cut. *)
Lost == Blanks \union ToSet(Separators) \union ToSet(TableSeparators) \union ToSet(SubSeparators)

(* Nothing but separators is lost between the text, its chunks and what is  *)
(* embedded, whatever separators meet and however tables are split.         *)
NothingLost ==
  current > 0 =>
    \A i \in DOMAIN input.doc : input.doc[i] \notin Lost =>
      \E c \in DOMAIN chunks :
        /\ \E j \in DOMAIN chunks[c].text : chunks[c].text[j].at = i
        /\ \E s \in DOMAIN texts[current] :
             \E j \in DOMAIN texts[current][s] : texts[current][s][j].at = i

(* No text that is embedded is longer than a subchunk may be, but for a     *)
(* table that is kept whole; a chunk exceeds its size by no more than the   *)
(* overlaps of the separators it was split by.                              *)
SizesKept ==
  /\ current > 0 => \A s \in DOMAIN texts[current] :
       Holds(texts[current][s], "open") \/ Len(texts[current][s]) <= SubSize
  /\ \A c \in DOMAIN chunks :
       Len(chunks[c].text) <=
         (IF Holds(chunks[c].text, "open") THEN Larger(MaxTable, input.cut.size) ELSE input.cut.size)
           + Larger(Len(Separators), Len(TableSeparators)) * (input.cut.overlap + 1)

(* The span of a chunk, by which its pages and boxes are found, is no empty *)
(* one and ends where its text ends, but for the name of a table that had   *)
(* to be split; with no overlap it starts in the document, with one it      *)
(* starts at most that much before it.                                      *)
SpansHold ==
  \A c \in DOMAIN chunks :
    LET slack == IF input.named /\ Holds(CellsOf(input.doc), "open") THEN Len(Name) ELSE 0
        last == Last(chunks[c].text)
    IN /\ -input.cut.overlap <= chunks[c].start /\ chunks[c].start < chunks[c].end
       /\ chunks[c].end <= Len(input.doc) + slack
       /\ last.at > 0 => chunks[c].end - last.at \in 0..slack

(* What split_text_with_positions says of its spans: they are positions in  *)
(* the document.                                                            *)
PositionsAbsolute ==
  \A c \in DOMAIN chunks : 0 <= chunks[c].start /\ chunks[c].end <= Len(input.doc)

(* A comment in _build_text_source_refs: the pages written into the prompt  *)
(* agree with those kept for reference.  Every page that the text of a      *)
(* chunk is marked with, or that has a box of it, is one of its own pages.  *)
PagesAgree ==
  \A c \in DOMAIN chunks : pages # <<>> =>
    LET marked == Segments(pages, chunks[c].start, chunks[c].end)
        own == chunks[c].label[1]..chunks[c].label[2]
    IN /\ \A j \in DOMAIN marked : marked[j].page \in own
       /\ \A j \in 1..Len(marked) - 1 : marked[j].end = marked[j + 1].start
       /\ BoxPages(pages, chunks[c].start, chunks[c].end) \subseteq own

(* Completing the anchors between two good ones never costs one of the      *)
(* first round, whatever was found twice or in a wrong place.               *)
AnchorsStay == current > 0 => ToSet(FirstRound(input.layout, input.closes)) \subseteq ToSet(pages)

(* Where each block is found once and whole, in order, and a table ends     *)
(* behind what comes before it, and before what follows it and goes on at   *)
(* once, the text at every block has the page of the block, also behind a   *)
(* table that spans several pages.                                          *)
AnchorsExact ==
  current > 0 =>
    LET layout == input.layout
        closes == input.closes
        pieces == {b \in DOMAIN layout : layout[b].len > 0}
        groups == TableGroups(layout)
        At(b) == Least(layout[b].full)
        GoesOn(g, b) == closes[g] < At(b) /\ groups[g].last <= layout[b].page
        exact ==
          /\ \A b \in pieces : Cardinality(layout[b].full) = 1
          /\ \A b, c \in pieces : b < c => At(b) + layout[b].len < At(c)
          /\ Len(groups) = Len(closes) => \A g \in DOMAIN groups :
               \A b \in pieces : IF b <= groups[g].owner THEN At(b) < closes[g] ELSE GoesOn(g, b)
    IN exact => \A b \in pieces : Label(pages, At(b), At(b)).from = layout[b].page

(* A range of pages gives the text of these pages and no other: page by     *)
(* page every cell of the range once, in one slice no cell that belongs to  *)
(* another page, as blocks every block of the range, a table of several     *)
(* pages whole and once.                                                    *)
RangesHold ==
  answer.method = "page" =>
    LET PageAt(i) == IF i <= pages[1].pos THEN 0 ELSE pages[AnchorAt(pages, i - 1)].page
        range == answer.query.from..answer.query.to
        In(i, hit) == hit.start < i /\ i <= hit.end
    IN /\ \A i \in DOMAIN input.doc :
            pages # <<>> /\ input.doc[i] \notin Blanks /\ PageAt(i) # 0 =>
              /\ Cardinality({j \in DOMAIN answer.hits : In(i, answer.hits[j])}) =
                   (IF PageAt(i) \in range THEN 1 ELSE 0)
              /\ answer.slice[1] < i /\ i <= answer.slice[2] => PageAt(i) \in range
       /\ \A b \in DOMAIN input.layout :
            input.layout[b].len > 0 /\ input.layout[b].page \in range =>
              Cardinality({n \in DOMAIN answer.pieces : answer.pieces[n].block = b}) = 1

Occurs(q, keyword) ==
  CASE q.method = "context" -> Holds(CellsOf(input.doc), keyword)
    [] q.method = "chunk_db" -> \E c \in DOMAIN chunks : Holds(chunks[c].text, keyword)
    [] q.method = "rule" -> FALSE

(* "As long as max_total >= the number of keywords, each keeps one hit"     *)
(* (rank_and_truncate); windows of a keyword never overlap, so that nothing *)
(* is injected twice.  Rule windows that are too short are no hits.         *)
EveryKeywordKept ==
  answer.method \in KeywordMethods =>
    LET q == answer.query
        hits == answer.hits
    IN /\ q.maxResults > 0 /\ (q.maxTotal = 0 \/ q.maxTotal >= Len(q.keywords)) =>
            \A g \in DOMAIN q.keywords :
              Occurs(q, q.keywords[g]) => \E j \in DOMAIN hits : hits[j].keyword = q.keywords[g]
       /\ q.method # "chunk_db" =>
            \A i, j \in DOMAIN hits :
              i # j /\ hits[i].keyword = hits[j].keyword =>
                hits[i].end < hits[j].start \/ hits[j].end < hits[i].start

(* The search by vectors returns each chunk once, and no chunk it leaves    *)
(* out within its limit is better than one it returns.                      *)
BestParents ==
  answer.method = "vector_db" =>
    LET Of(p) == Most({answer.score[i] : i \in {j \in DOMAIN stored : ParentOf(j) = p}})
        got == {answer.hits[j] : j \in DOMAIN answer.hits}
    IN /\ Cardinality(got) = Len(answer.hits) /\ Len(answer.hits) <= answer.query.maxResults
       /\ \A p \in {ParentOf(i) : i \in DOMAIN stored} \ got :
            \A q \in got : Of(p) <= Of(q)

(* What split_into_subchunks says of the rows in Milvus, which POST /search *)
(* returns as they are: they inherit the pages of their chunks.             *)
SubchunksInherit ==
  \A i \in DOMAIN stored : carried[ParentOf(i)] = chunks[ParentOf(i)].label

(* What was parsed can be found: nothing is lost, and a search returns the  *)
(* right spans, pages and chunks.                                           *)
DocumentSearchable ==
  /\ NothingLost /\ SizesKept /\ SpansHold
  /\ PagesAgree /\ AnchorsStay /\ AnchorsExact /\ RangesHold
  /\ EveryKeywordKept /\ BestParents

(* Type correctness. *)
IndexTypeOK ==
  /\ EmbeddingTypeOK
  /\ \A c \in DOMAIN chunks : \A j \in DOMAIN chunks[c].text : chunks[c].text[j] \in Cell
=============================================================================

------------------------------- MODULE PageMap -------------------------------
(***************************************************************************)
(* Pages.  MinerU returns a text and, page by page, the BLOCKS it was made  *)
(* of; where a block stands in the text is found by searching for it.  This *)
(* module makes the page mapping from what was found, looks spans up in it  *)
(* and cuts ranges of pages out of a text or out of the blocks              *)
(* (utils/page_mapping.py, slices in service/extraction_service.py).        *)
(*                                                                         *)
(* A layout is the sequence of the blocks, page after page: a block has its *)
(* kind ("text", "table", or "shell", the empty continuation of a table on  *)
(* a later page), its page, its length, and the positions where all of its  *)
(* text is found (`full`), where only a beginning of it is (`begin`) and    *)
(* where one of the fragments it is made of is (`frag`).  A mapping is a    *)
(* sequence of anchors [pos, len, page, block], by position.                *)
(***************************************************************************)
EXTENDS Orders, SequencesExt

CONSTANT MinPage      \* _MIN_CHARS_PER_PAGE

Blanks == {"line", "gap"}  \* the cells that `strip` takes away

ASSUME MinPageNatural == MinPage \in Nat

(* What MinerU may return: the pages in order; a block without text, as     *)
(* every shell is, is found nowhere.                                        *)
Positions == {S \in SUBSET Nat : IsFiniteSet(S)}
BlockType ==
  [kind : {"text", "table", "shell"}, page : Nat \ {0}, len : Nat,
   full : Positions, begin : Positions, frag : Positions]
LayoutOK(layout) ==
  /\ layout \in Seq(BlockType)
  /\ \A b, c \in DOMAIN layout : b < c => layout[b].page <= layout[c].page
  /\ \A b \in DOMAIN layout :
       /\ layout[b].kind = "shell" => layout[b].len = 0
       /\ layout[b].len = 0 => layout[b].full \union layout[b].begin \union layout[b].frag = {}

(* The ends of the tables of a text, in order. *)
ClosesOK(closes) ==
  closes \in Seq(Nat) /\ \A g, h \in DOMAIN closes : g < h => closes[g] < closes[h]

-----------------------------------------------------------------------------
(* The page mapping *)

(* _longest_nondecreasing_keep: of the longest sequences of anchors whose   *)
(* pages do not decrease, the one that keeps its pages lowest.              *)
Kept(found) ==
  LET Add(acc, i) ==
        LET n == Cardinality({k \in DOMAIN acc.tails : found[acc.tails[k]].page <= found[i].page})
        IN [tails |-> IF n = Len(acc.tails) THEN Append(acc.tails, i)
                      ELSE [acc.tails EXCEPT ![n + 1] = i],
            before |-> Append(acc.before, IF n = 0 THEN 0 ELSE acc.tails[n])]
      end == FoldLeft(Add, [tails |-> <<>>, before |-> <<>>], [i \in DOMAIN found |-> i])
      chain[i \in 0..Len(found)] ==
        IF i = 0 THEN <<>> ELSE Append(chain[end.before[i]], found[i])
  IN IF found = <<>> THEN <<>> ELSE chain[Last(end.tails)]

ByPosition(anchors) == Arranged(anchors, LAMBDA m, n : m.pos < n.pos)

(* _unique_find, in the whole text: all of the block if that is found once, *)
(* or else a part of it that is.                                            *)
Unique(places) == Cardinality(places) = 1
Candidate(layout, b) ==
  LET block == layout[b]
      Anchor(places, n) == <<[pos |-> Least(places), len |-> n, page |-> block.page, block |-> b]>>
  IN CASE Unique(block.full) -> Anchor(block.full, block.len)
       [] ~Unique(block.full) /\ Unique(block.begin) -> Anchor(block.begin, 1)
       [] ~Unique(block.full) /\ ~Unique(block.begin) /\ Unique(block.frag) -> Anchor(block.frag, 1)
       [] OTHER -> <<>>

(* _unique_find with full_only, between two positions: all of the block, or *)
(* else a fragment.                                                         *)
Claim(layout, b, from, to) ==
  LET block == layout[b]
      In(places, n) == {p \in places : from <= p /\ p + n <= to}
      Anchor(places, n) ==
        <<[pos |-> Least(In(places, n)), len |-> n, page |-> block.page, block |-> b]>>
  IN CASE Unique(In(block.full, block.len)) -> Anchor(block.full, block.len)
       [] ~Unique(In(block.full, block.len)) /\ Unique(In(block.frag, 1)) -> Anchor(block.frag, 1)
       [] OTHER -> <<>>

(* _collect_table_groups: a table with the shells that follow it on the     *)
(* pages next to it.                                                        *)
TableGroups(layout) ==
  LET Add(groups, b) ==
        CASE layout[b].kind = "text" -> groups
          [] layout[b].kind = "table" ->
               Append(groups, [first |-> layout[b].page, last |-> layout[b].page, owner |-> b])
          [] layout[b].kind = "shell" ->
               IF groups # <<>> /\ layout[b].page = Last(groups).last + 1
                 THEN [groups EXCEPT ![Len(groups)].last = layout[b].page]
                 ELSE groups
  IN FoldLeft(Add, <<>>, [b \in DOMAIN layout |-> b])

(* _cross_page_table_anchors: behind a table of several pages stands its    *)
(* last page.  `closes` are the ends of the tables of the text; the two     *)
(* lists are paired, if they can be.                                        *)
CrossPage(layout, closes) ==
  LET groups == TableGroups(layout)
      all == [g \in DOMAIN groups |->
                [pos |-> closes[g], len |-> 0, page |-> groups[g].last, block |-> 0,
                 several |-> groups[g].last > groups[g].first]]
  IN IF Len(groups) # Len(closes) THEN <<>>
     ELSE LET chosen == Picked(all, {g \in DOMAIN all : all[g].several})
          IN [j \in DOMAIN chosen |->
                [pos |-> chosen[j].pos, len |-> 0, page |-> chosen[j].page, block |-> 0]]

(* Mutant of Compatible: other anchors may stand within the window. *)
MutCompatibleAnywhere(kept, i, j) == TRUE

(* The next block that was found stands next in the text, too. *)
Compatible(kept, i, j) == j = i + 1

(* _bounded_block_anchors: between two neighbours that were found whole, a  *)
(* block that is found once in the window is added, unless it meets or      *)
(* passes another one.                                                      *)
Window(layout, left, right) ==
  LET Claimed(b) == Claim(layout, b, left.pos + left.len, right.pos)
      once == {b \in left.block + 1..right.block - 1 : Claimed(b) # <<>>}
      Clear(b, c) ==
        /\ c < b => Claimed(c)[1].pos + Claimed(c)[1].len <= Claimed(b)[1].pos
        /\ c > b => Claimed(b)[1].pos + Claimed(b)[1].len <= Claimed(c)[1].pos
      added == Ordered({b \in once : \A c \in once : Clear(b, c)})
  IN [n \in DOMAIN added |-> Claimed(added[n])[1]]

Windowed(layout, kept) ==
  LET fixed == {i \in DOMAIN kept : kept[i].block # 0}
      Whole(a) == a.len = layout[a.block].len /\ a.pos \in layout[a.block].full
      Follows(i, j) ==
        /\ {i, j} \subseteq fixed /\ kept[j].block > kept[i].block
        /\ \A k \in fixed : kept[k].block <= kept[i].block \/ kept[k].block >= kept[j].block
      Filled(i) ==
        LET next == {j \in DOMAIN kept : /\ Follows(i, j) /\ Compatible(kept, i, j)
                                         /\ Whole(kept[i]) /\ Whole(kept[j])}
        IN IF next = {} THEN <<>> ELSE Window(layout, kept[i], kept[CHOOSE j \in next : TRUE])
  IN FlattenSeq([i \in DOMAIN kept |-> Filled(i)])

(* build_page_mapping.  Its anchors of the first round, and all of them. *)
FirstRound(layout, closes) ==
  LET candidates == FlattenSeq([b \in DOMAIN layout |-> Candidate(layout, b)])
  IN IF candidates = <<>> THEN <<>>
     ELSE Kept(ByPosition(candidates \o CrossPage(layout, closes)))

Mapping(layout, closes) ==
  LET first == FirstRound(layout, closes)
  IN Kept(ByPosition(first \o Windowed(layout, first)))

(* build_page_projection: the blocks as pieces of text, each with its       *)
(* pages; the shells belong to the table, and a block without text is no    *)
(* piece.  (The code joins neighbouring blocks of a page.)                  *)
Projection(layout) ==
  LET groups == TableGroups(layout)
      PagesOf(b) ==
        LET own == {g \in DOMAIN groups : groups[g].owner = b}
        IN IF own = {} THEN [block |-> b, first |-> layout[b].page, last |-> layout[b].page]
           ELSE [block |-> b, first |-> groups[Least(own)].first, last |-> groups[Least(own)].last]
      pieces == Ordered({b \in DOMAIN layout : layout[b].len > 0})
  IN [n \in DOMAIN pieces |-> PagesOf(pieces[n])]

(* select_page_projection *)
Selected(layout, from, to) ==
  LET pieces == Projection(layout)
  IN Picked(pieces, {n \in DOMAIN pieces : pieces[n].first <= to /\ pieces[n].last >= from})

-----------------------------------------------------------------------------
(* Spans and pages *)

(* The last anchor at or before a position, the first one if there is none. *)
AnchorAt(mapping, pos) ==
  Most({1} \union {i \in DOMAIN mapping : mapping[i].pos <= pos})

(* lookup_page_num, as its first and its last page. *)
Label(mapping, start, end) ==
  [from |-> mapping[AnchorAt(mapping, start)].page, to |-> mapping[AnchorAt(mapping, end)].page]

(* lookup_bboxes: the pages of the boxes of a span.  The anchor behind a     *)
(* table over several pages has no box.                                     *)
BoxPages(mapping, start, end) ==
  {mapping[i].page : i \in {j \in DOMAIN mapping :
                              /\ mapping[j].block # 0 /\ mapping[j].pos <= end
                              /\ j >= AnchorAt(mapping, start)}}

(* An anchor that skips pages which the text before it cannot hold. *)
Implausible(seg, anchor) ==
  anchor.page - seg.page >= 2 /\ anchor.pos - seg.start < (anchor.page - seg.page - 1) * MinPage

(* split_span_by_pages *)
Segments(mapping, start, end) ==
  LET first == AnchorAt(mapping, start)
      Cut(segs, anchor) ==
        LET seg == Last(segs)
        IN IF \/ anchor.pos >= end \/ anchor.pos <= seg.start
              \/ anchor.page = seg.page \/ Implausible(seg, anchor)
             THEN segs
             ELSE Append([segs EXCEPT ![Len(segs)].end = anchor.pos],
                         [page |-> anchor.page, start |-> anchor.pos, end |-> end])
  IN IF mapping = <<>> \/ end <= start THEN <<>>
     ELSE FoldLeft(Cut, <<[page |-> mapping[first].page, start |-> start, end |-> end]>>,
                   SubSeq(mapping, first + 1, Len(mapping)))

(* slice_pages_in_range: every page from its first anchor to that of the    *)
(* next page; only page 1 takes what stands before the first anchor.        *)
PageSlices(doc, mapping, from, to) ==
  LET pages == Ordered({mapping[i].page : i \in DOMAIN mapping})
      Start(j) == Least({mapping[i].pos : i \in {m \in DOMAIN mapping : mapping[m].page = pages[j]}})
      Slice(j) == [page |-> pages[j],
                   start |-> IF j = 1 /\ pages[j] = 1 THEN 0 ELSE Start(j),
                   end |-> IF j < Len(pages) THEN Start(j + 1) ELSE Len(doc)]
      all == [j \in DOMAIN pages |-> Slice(j)]
      Wanted(s) ==
        /\ s.page \in from..to
        /\ \E i \in s.start + 1..s.end : doc[i] \notin Blanks
  IN Picked(all, {j \in DOMAIN all : Wanted(all[j])})

(* slice_by_page_range: one slice, for files whose text begins before the   *)
(* first anchor; <<0, 0>> where the code gives a reason instead.            *)
Leading(mapping, from) == \A i \in DOMAIN mapping : mapping[i].page > from
RangeSlice(doc, mapping, from, to, length) ==
  LET inside == {mapping[i].pos : i \in {j \in DOMAIN mapping : mapping[j].page \in from..to}}
      after == {mapping[i].pos : i \in {j \in DOMAIN mapping : mapping[j].page > to}}
      start == IF Leading(mapping, from) THEN 0 ELSE Least(inside \union {Len(doc)})
      end == Least(after \union {Len(doc)})
  IN IF mapping = <<>> \/ end <= start THEN <<0, 0>>
     ELSE <<start, Smaller(end, start + length)>>
=============================================================================

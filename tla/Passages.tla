------------------------------ MODULE Passages ------------------------------
(***************************************************************************)
(* How a document is cut: the splitter, the chunks of a file and the        *)
(* subchunks that are embedded (service/chunk_service.py,                   *)
(* service/subchunk_service.py).                                            *)
(*                                                                         *)
(* A text is a sequence of CELLS: a kind, and the place of the document     *)
(* where the cell stands, 0 for what was put in.  A separator, a tag and a  *)
(* table's name are one cell each.  Spans are half-open and count from 0,   *)
(* as in the code.                                                          *)
(***************************************************************************)
EXTENDS PageMap

CONSTANTS Separators,  \* chunking.separators, the coarsest first
          SubSize,     \* SUBCHUNK_SIZE
          MaxTable     \* max_embedding_len: a longer table is split

(* "line" and "gap" are blank separators, "stop" and "mark" are not; "row"  *)
(* is only used in tables.                                                  *)
CellKinds == {"ink", "line", "gap", "stop", "mark", "row", "open", "close"}
Cell == [k : CellKinds, at : Nat]

ASSUME SeparatorsListed == Separators \in Seq(CellKinds)
ASSUME SizesNatural == SubSize \in Nat \ {0} /\ MaxTable \in Nat

TableSeparators == <<"row", "line">>
SubSeparators   == <<"line", "stop", "gap">>    \* SUBCHUNK_SEPARATORS

(* chunking.chunk_size and chunk_overlap, which a document is cut by. *)
Cutting == [size : Nat \ {0}, overlap : Nat]

Blank(t) == \A i \in DOMAIN t : t[i].k \in Blanks
Holds(t, kind) == \E i \in DOMAIN t : t[i].k = kind
CellsOf(doc) == [i \in DOMAIN doc |-> [k |-> doc[i], at |-> i]]

-----------------------------------------------------------------------------
(* The splitter *)

Interval(a, b) == [from |-> a, to |-> b]
Width(v) == v.to - v.from + 1

(* text.split(sep) *)
Parts(t, sep) ==
  LET at == Ordered({i \in DOMAIN t : t[i].k = sep})
  IN [j \in 1..Len(at) + 1 |->
        Interval(IF j = 1 THEN 1 ELSE at[j - 1] + 1,
                 IF j = Len(at) + 1 THEN Len(t) ELSE at[j] - 1)]

Chunk(t, v, base) ==
  [text |-> SubSeq(t, v.from, v.to), start |-> base + v.from - 1, end |-> base + v.to]

(* _normalize_chunk_overlap *)
SafeOverlap(size, overlap) == Smaller(overlap, size - 1)

(* Without a separator: windows of `size`, each `overlap` before the end of *)
(* the one before.                                                          *)
Windows(t, size, overlap, base) ==
  LET step == size - overlap
      n == IF Len(t) <= size THEN 1 ELSE ((Len(t) - size + step - 1) \div step) + 1
  IN [j \in 1..n |-> Chunk(t, Interval((j - 1) * step + 1,
                                       Smaller((j - 1) * step + size, Len(t))), base)]

(* Each chunk but the first takes the end of the one before it, as that was *)
(* before it took anything itself.                                          *)
Overlapped(chunks, overlap, sep) ==
  [j \in DOMAIN chunks |->
     IF j = 1 \/ overlap = 0 THEN chunks[j]
     ELSE LET last == chunks[j - 1]
              n == Smaller(overlap, Len(last.text))
          IN [text |-> SubSeq(last.text, Len(last.text) - n + 1, Len(last.text))
                         \o <<[k |-> sep, at |-> 0]>> \o chunks[j].text,
              start |-> last.end - n,
              end |-> chunks[j].end]]

(* Mutant of Fits: the separator is not counted. *)
MutFitsBare(joined, size) == Width(joined) - 1 <= size

Fits(joined, size) == Width(joined) <= size

(* The parts of a text, joined as long as they fit.  A part that is too     *)
(* long by itself is split by `finer`.                                      *)
Gather(t, parts, size, finer, base) ==
  LET Take(acc, part) ==
        LET open == acc.cur.to >= acc.cur.from
            joined == IF open THEN Interval(acc.cur.from, part.to) ELSE part
            flushed == IF open THEN Append(acc.out, Chunk(t, acc.cur, base)) ELSE acc.out
            long == SubSeq(t, part.from, part.to)
        IN IF Fits(joined, size) THEN [acc EXCEPT !.cur = joined]
           ELSE IF Width(part) > size
             THEN [out |-> flushed \o finer[<<long, base + part.from - 1>>],
                   cur |-> Interval(1, 0)]
             ELSE [out |-> flushed, cur |-> part]
      end == FoldLeft(Take, [out |-> <<>>, cur |-> Interval(1, 0)], parts)
  IN IF end.cur.to >= end.cur.from THEN Append(end.out, Chunk(t, end.cur, base)) ELSE end.out

(* split_text_with_positions is a function of a text and of the place where *)
(* it begins.  Without a separator it makes windows.                        *)
Unseparated(size, overlap) ==
  [p \in Seq(Cell) \X Nat |-> IF p[1] = <<>> THEN <<>> ELSE Windows(p[1], size, overlap, p[2])]

(* With one more, a text that is too long is split at that separator if it  *)
(* has it; the others are tried on its parts, or on the text itself.        *)
Separated(finer, sep, size, overlap) ==
  [p \in Seq(Cell) \X Nat |->
     IF Len(p[1]) > size /\ Holds(p[1], sep)
       THEN Overlapped(Gather(p[1], Parts(p[1], sep), size, finer, p[2]), overlap, sep)
       ELSE finer[p]]

Splitter(size, overlap, seps) ==
  LET safe == SafeOverlap(size, overlap)
      Coarser(finer, sep) == Separated(finer, sep, size, safe)
  IN FoldLeft(Coarser, Unseparated(size, safe), Reverse(seps))

Split(t, size, overlap, seps, base) == Splitter(size, overlap, seps)[<<t, base>>]

-----------------------------------------------------------------------------
(* The chunks of a file *)

(* _find_table_positions: from an opening tag to the next closing one. *)
Tables(doc) ==
  LET Look(acc, i) ==
        IF acc.open = 0 /\ doc[i] = "open" THEN [acc EXCEPT !.open = i]
        ELSE IF acc.open # 0 /\ doc[i] = "close"
          THEN [open |-> 0, found |-> Append(acc.found, Interval(acc.open, i))]
        ELSE acc
  IN FoldLeft(Look, [open |-> 0, found |-> <<>>], [i \in DOMAIN doc |-> i]).found

(* The text of an interval, without blanks at its ends, split. *)
Prose(doc, v, cut) ==
  LET ink == {i \in v.from..v.to : doc[i] \notin Blanks}
  IN IF ink = {} THEN <<>>
     ELSE Split(SubSeq(CellsOf(doc), Least(ink), Most(ink)),
                cut.size, cut.overlap, Separators, Least(ink) - 1)

(* The name and a line break go before a table that has one. *)
Name == <<[k |-> "ink", at |-> 0], [k |-> "line", at |-> 0]>>

(* A table is one chunk, or split if it is too long; the splitter counts    *)
(* from the start of the table, the name included.                          *)
TableChunks(doc, v, named, cut) ==
  LET raw == SubSeq(CellsOf(doc), v.from, v.to)
      t == IF named THEN Name \o raw ELSE raw
  IN IF Len(t) > MaxTable
       THEN Split(t, cut.size, cut.overlap, TableSeparators, v.from - 1)
       ELSE <<[text |-> t, start |-> v.from - 1, end |-> v.to]>>

(* Mutant of Remainder: the text after the last table is forgotten. *)
MutRemainderNone(doc, tables) == Interval(1, 0)

(* What stands after the last table, the whole text if there is none. *)
Remainder(doc, tables) ==
  Interval(IF tables = <<>> THEN 1 ELSE Last(tables).to + 1, Len(doc))

(* chunk_content *)
Chunks(doc, named, cut) ==
  LET tables == Tables(doc)
      Ahead(j) == Interval(IF j = 1 THEN 1 ELSE tables[j - 1].to + 1, tables[j].from - 1)
      pieces == [j \in DOMAIN tables |->
                   Prose(doc, Ahead(j), cut) \o TableChunks(doc, tables[j], named, cut)]
  IN FlattenSeq(pieces) \o Prose(doc, Remainder(doc, tables), cut)

(* split_into_subchunks, for one chunk: a table and a short chunk stay      *)
(* whole, a blank chunk and blank pieces have no vector.                    *)
SubTexts(t) ==
  IF Blank(t) THEN <<>>
  ELSE IF Holds(t, "open") \/ Len(t) <= SubSize THEN <<t>>
  ELSE LET pieces == Split(t, SubSize, 0, SubSeparators, 0)
       IN FlattenSeq([j \in DOMAIN pieces |->
                        IF Blank(pieces[j].text) THEN <<>> ELSE <<pieces[j].text>>])

(* The subchunks of a file, each with the index of its parent. *)
Subchunks(chunks) ==
  FlattenSeq([c \in DOMAIN chunks |->
                LET texts == SubTexts(chunks[c].text)
                IN [j \in DOMAIN texts |-> [parent |-> c, text |-> texts[j]]]])
=============================================================================

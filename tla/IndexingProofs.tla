--------------------------- MODULE IndexingProofs ---------------------------
(***************************************************************************)
(* Proofs about the index of a document (modules Passages, Indexing), for   *)
(* every document, sizes, overlap, list of separators and batch size.       *)
(***************************************************************************)
EXTENDS DocumentProofs, MCDocument

(* A chunk, as the splitter returns it. *)
Passage == [text : Seq(Cell), start : Int, end : Int]

(* A chunk of text t, which stands behind the first `base` cells: it ends   *)
(* where its text ends, and begins at most an overlap before t.             *)
Placed(c, t, base, overlap, longest) ==
  /\ c.text # <<>> /\ Len(c.text) <= longest
  /\ base < c.end /\ c.end <= base + Len(t)
  /\ c.text[Len(c.text)] = t[c.end - base]
  /\ base - overlap <= c.start /\ c.start < c.end

(* Chunks of the first n cells of t, one behind the other. *)
Cuts(cs, t, base, overlap, longest, n) ==
  /\ cs \in Seq(Passage)
  /\ \A j \in 1..Len(cs) : Placed(cs[j], t, base, overlap, longest) /\ cs[j].end <= base + n
  /\ \A i, j \in 1..Len(cs) : i < j => cs[i].end < cs[j].end

(* What a chunk has. *)
LEMMA PassageHas ==
  \A c \in Passage : /\ c.text \in Seq(Cell) /\ Len(c.text) \in Nat
                     /\ c.start \in Int /\ c.end \in Int
BY DEF Passage

Says(text, cell) == \E x \in 1..Len(text) : text[x] = cell
InSome(cs, cell) == \E j \in 1..Len(cs) : Says(cs[j].text, cell)

(* The cells of an interval. *)
CutOf(t, base, overlap, longest, a, b) ==
  /\ t \in Seq(Cell) /\ base \in Nat /\ overlap \in Nat /\ longest \in Nat
  /\ a \in 1..Len(t) /\ b \in a..Len(t) /\ b - a + 1 <= longest

(* Such a chunk stands where its interval does.                             *)
LEMMA ChunkPlaced ==
  ASSUME NEW t, NEW base, NEW overlap, NEW longest, NEW a, NEW b,
         CutOf(t, base, overlap, longest, a, b),
         NEW c, c = Chunk(t, Interval(a, b), base)
  PROVE  /\ c \in Passage /\ Placed(c, t, base, overlap, longest)
         /\ c.start = base + a - 1 /\ c.end = base + b
         /\ \A i \in a..b : Says(c.text, t[i])
<1> DEFINE u == SubSeq(t, a, b)
<1>1. /\ t \in Seq(Cell) /\ base \in Nat /\ overlap \in Nat /\ longest \in Nat
      /\ Len(t) \in Nat /\ a \in Int /\ b \in Int /\ 1 <= a /\ a <= b /\ b <= Len(t)
      /\ b - a + 1 <= longest
  BY DEF CutOf
<1>2. /\ u \in Seq(Cell) /\ Len(u) = b - a + 1 /\ \A i \in 1..(b - a + 1) : u[i] = t[a + i - 1]
  BY <1>1
<1>3. c = [text |-> u, start |-> base + a - 1, end |-> base + b]  BY DEF Chunk, Interval
<1> HIDE DEF u
<1>4. c \in Passage /\ c.text = u /\ c.start = base + a - 1 /\ c.end = base + b
  BY <1>1, <1>2, <1>3 DEF Passage
<1>5. u # <<>>
  <2>1. Len(u) # 0  BY <1>1, <1>2
  <2> QED  BY <2>1
<1>6. u[Len(u)] = t[b]
  <2>1. b - a + 1 \in 1..(b - a + 1) /\ a + (b - a + 1) - 1 = b  BY <1>1
  <2> QED  BY <1>2, <2>1
<1>7. Placed(c, t, base, overlap, longest)
  <2>1. (base + b) - base = b  BY <1>1
  <2> QED  BY <1>1, <1>2, <1>4, <1>5, <1>6, <2>1 DEF Placed
<1>8. ASSUME NEW i \in a..b PROVE Says(u, t[i])
  <2>1. i - a + 1 \in 1..(b - a + 1) /\ a + (i - a + 1) - 1 = i  BY <1>1
  <2> QED  BY <1>2, <2>1 DEF Says
<1> QED  BY <1>4, <1>7, <1>8

(* The limits may be wider. *)
LEMMA CutsWiden ==
  ASSUME NEW cs, NEW t \in Seq(Cell), NEW base \in Nat, NEW overlap \in Nat,
         NEW longest \in Nat, NEW n \in Nat, Cuts(cs, t, base, overlap, longest, n),
         NEW longer \in Nat, longest <= longer, NEW m \in Nat, n <= m
  PROVE  Cuts(cs, t, base, overlap, longer, m)
<1>1. \A j \in 1..Len(cs) : cs[j].end \in Int /\ Len(cs[j].text) \in Nat
  <2>1. \A j \in 1..Len(cs) : cs[j] \in Passage  BY DEF Cuts
  <2> QED  BY <2>1, PassageHas
<1>2. ASSUME NEW j \in 1..Len(cs)
      PROVE  Placed(cs[j], t, base, overlap, longer) /\ cs[j].end <= base + m
  <2>1. Placed(cs[j], t, base, overlap, longest) /\ cs[j].end <= base + n  BY DEF Cuts
  <2>2. cs[j].end \in Int /\ Len(cs[j].text) \in Nat  BY <1>1
  <2>3. cs[j].end <= base + m  BY <2>1, <2>2
  <2>4. Len(cs[j].text) <= longest  BY <2>1 DEF Placed
  <2>5. Len(cs[j].text) <= longer  BY <2>2, <2>4
  <2> QED  BY <2>1, <2>3, <2>5 DEF Placed
<1> QED  BY <1>2 DEF Cuts

(* A chunk that ends behind all others. *)
LEMMA CutsAppend ==
  ASSUME NEW cs, NEW t \in Seq(Cell), NEW base \in Nat, NEW overlap \in Nat,
         NEW longest \in Nat, NEW n \in Nat, Cuts(cs, t, base, overlap, longest, n),
         NEW c \in Passage, Placed(c, t, base, overlap, longest), base + n < c.end,
         NEW m \in Nat, c.end <= base + m
  PROVE  /\ Cuts(Append(cs, c), t, base, overlap, longest, m)
         /\ \A cell : InSome(cs, cell) \/ Says(c.text, cell) => InSome(Append(cs, c), cell)
<1> DEFINE ds == Append(cs, c)
           k == Len(cs)
<1>1. cs \in Seq(Passage) /\ k \in Nat  BY DEF Cuts
<1>2. /\ ds \in Seq(Passage) /\ Len(ds) = k + 1 /\ ds[k + 1] = c
      /\ \A i \in 1..k : ds[i] = cs[i]
  BY <1>1
<1>3. \A i \in 1..k : cs[i].end \in Int
  <2>1. \A i \in 1..k : cs[i] \in Passage  BY <1>1
  <2> QED  BY <2>1, PassageHas
<1>4. c.end \in Int  BY PassageHas
<1> HIDE DEF ds
<1>5. ASSUME NEW j \in 1..(k + 1)
      PROVE  Placed(ds[j], t, base, overlap, longest) /\ ds[j].end <= base + m
  <2>1. CASE j \in 1..k
    <3>1. cs[j].end <= base + n  BY <2>1 DEF Cuts
    <3> QED  BY <1>2, <1>3, <1>4, <2>1, <3>1 DEF Cuts
  <2>2. CASE j = k + 1  BY <1>2, <2>2
  <2>3. j \in 1..k \/ j = k + 1  BY <1>1
  <2> QED  BY <2>1, <2>2, <2>3
<1>6. ASSUME NEW i \in 1..(k + 1), NEW j \in 1..(k + 1), i < j PROVE ds[i].end < ds[j].end
  <2>1. i \in 1..k  BY <1>1, <1>6
  <2>2. CASE j \in 1..k  BY <1>2, <1>6, <2>1, <2>2 DEF Cuts
  <2>3. CASE j = k + 1
    <3>1. cs[i].end <= base + n  BY <2>1 DEF Cuts
    <3> QED  BY <1>2, <1>3, <1>4, <2>1, <2>3, <3>1
  <2>4. j \in 1..k \/ j = k + 1  BY <1>1
  <2> QED  BY <2>2, <2>3, <2>4
<1>7. Cuts(ds, t, base, overlap, longest, m)  BY <1>2, <1>5, <1>6 DEF Cuts
<1>8. ASSUME NEW cell, InSome(cs, cell) \/ Says(c.text, cell) PROVE InSome(ds, cell)
  <2>1. \A j \in 1..k : j \in 1..(k + 1)  BY <1>1
  <2>2. k + 1 \in 1..(k + 1)  BY <1>1
  <2> QED  BY <1>2, <1>8, <2>1, <2>2 DEF InSome
<1> QED  BY <1>7, <1>8 DEF ds

(* The chunks of a part that stands behind them. *)
LEMMA CutsConcat ==
  ASSUME NEW cs, NEW t \in Seq(Cell), NEW base \in Nat, NEW overlap \in Nat,
         NEW longest \in Nat, NEW n \in Nat, Cuts(cs, t, base, overlap, longest, n),
         NEW a \in 1..Len(t), NEW b \in a..Len(t), n <= a - 1,
         NEW ds, Cuts(ds, SubSeq(t, a, b), base + a - 1, overlap, longest, b - a + 1)
  PROVE  /\ Cuts(cs \o ds, t, base, overlap, longest, b)
         /\ \A cell : InSome(cs, cell) \/ InSome(ds, cell) => InSome(cs \o ds, cell)
<1> DEFINE u == SubSeq(t, a, b)
           es == cs \o ds
           k == Len(cs)
           l == Len(ds)
<1>1. cs \in Seq(Passage) /\ ds \in Seq(Passage) /\ k \in Nat /\ l \in Nat  BY DEF Cuts
<1>2. /\ es \in Seq(Passage) /\ Len(es) = k + l
      /\ \A i \in 1..k : es[i] = cs[i]
      /\ \A i \in 1..l : es[k + i] = ds[i]
  BY <1>1, SMTT(40)
<1>3. /\ Len(t) \in Nat /\ a \in Int /\ b \in Int /\ 1 <= a /\ a <= b /\ b <= Len(t)  OBVIOUS
<1>4. /\ u \in Seq(Cell) /\ Len(u) = b - a + 1 /\ \A i \in 1..(b - a + 1) : u[i] = t[a + i - 1]
  BY <1>3
<1>5. /\ \A i \in 1..k : cs[i].end \in Int
      /\ \A i \in 1..l : ds[i].end \in Int /\ ds[i].start \in Int
  <2>1. (\A i \in 1..k : cs[i] \in Passage) /\ (\A i \in 1..l : ds[i] \in Passage)  BY <1>1
  <2> QED  BY <2>1, PassageHas
<1>6. \A i \in 1..k : /\ cs[i].end <= base + n /\ Placed(cs[i], t, base, overlap, longest)
                      /\ \A j \in 1..k : i < j => cs[i].end < cs[j].end
  BY DEF Cuts
<1>7. \A i \in 1..l : /\ ds[i].end <= (base + a - 1) + (b - a + 1)
                      /\ Placed(ds[i], u, base + a - 1, overlap, longest)
                      /\ \A j \in 1..l : i < j => ds[i].end < ds[j].end
  BY DEF Cuts
<1> HIDE DEF u, es, k, l
<1>8. ASSUME NEW i \in 1..l
      PROVE  /\ Placed(ds[i], t, base, overlap, longest)
             /\ base + n < ds[i].end /\ ds[i].end <= base + b
  <2>1. /\ ds[i].text # <<>> /\ Len(ds[i].text) <= longest
        /\ base + a - 1 < ds[i].end
        /\ ds[i].text[Len(ds[i].text)] = u[ds[i].end - (base + a - 1)]
        /\ (base + a - 1) - overlap <= ds[i].start /\ ds[i].start < ds[i].end
        /\ ds[i].end <= base + b
    BY <1>3, <1>5, <1>7 DEF Placed
  <2>2. /\ ds[i].end - (base + a - 1) \in 1..(b - a + 1)
        /\ a + (ds[i].end - (base + a - 1)) - 1 = ds[i].end - base
    <3> DEFINE e == ds[i].end
    <3>1. e \in Int /\ base + a - 1 < e /\ e <= base + b  BY <1>5, <2>1
    <3> HIDE DEF e
    <3>2. e - (base + a - 1) \in 1..(b - a + 1) /\ a + (e - (base + a - 1)) - 1 = e - base
      BY <1>3, <3>1
    <3> QED  BY <3>2 DEF e
  <2>3. u[ds[i].end - (base + a - 1)] = t[ds[i].end - base]  BY <1>4, <2>2
  <2>4. base < ds[i].end /\ ds[i].end <= base + Len(t) /\ base - overlap <= ds[i].start
        /\ base + n < ds[i].end
    BY <1>3, <1>5, <2>1, SMTT(40)
  <2> QED  BY <2>1, <2>3, <2>4 DEF Placed
<1>9. ASSUME NEW j \in 1..(k + l)
      PROVE  Placed(es[j], t, base, overlap, longest) /\ es[j].end <= base + b
  <2>1. CASE j \in 1..k  BY <1>2, <1>3, <1>5, <1>6, <2>1
  <2>2. CASE j - k \in 1..l
    <3>1. es[j] = ds[j - k]
      <4>1. k + (j - k) = j  BY <1>1
      <4> QED  BY <1>2, <2>2, <4>1
    <3> QED  BY <1>8, <2>2, <3>1
  <2>3. j \in 1..k \/ j - k \in 1..l  BY <1>1
  <2> QED  BY <2>1, <2>2, <2>3
<1>10. ASSUME NEW i \in 1..(k + l), NEW j \in 1..(k + l), i < j PROVE es[i].end < es[j].end
  <2>1. CASE j \in 1..k
    <3>1. i \in 1..k  BY <1>1, <1>10, <2>1
    <3> QED  BY <1>2, <1>6, <1>10, <2>1, <3>1
  <2>2. CASE i \in 1..k /\ j - k \in 1..l
    <3>1. es[j] = ds[j - k] /\ es[i] = cs[i]
      <4>1. k + (j - k) = j  BY <1>1
      <4> QED  BY <1>2, <2>2, <4>1
    <3>2. cs[i].end <= base + n /\ base + n < ds[j - k].end  BY <1>6, <1>8, <2>2
    <3>3. cs[i].end \in Int /\ ds[j - k].end \in Int /\ base + n \in Int  BY <1>5, <2>2
    <3> QED  BY <3>1, <3>2, <3>3
  <2>3. CASE i - k \in 1..l /\ j - k \in 1..l
    <3>1. es[j] = ds[j - k] /\ es[i] = ds[i - k]
      <4>1. k + (j - k) = j /\ k + (i - k) = i  BY <1>1
      <4> QED  BY <1>2, <2>3, <4>1
    <3>2. i - k < j - k  BY <1>1, <1>10
    <3> QED  BY <1>7, <2>3, <3>1, <3>2
  <2>4. j \in 1..k \/ (i \in 1..k /\ j - k \in 1..l) \/ (i - k \in 1..l /\ j - k \in 1..l)
    BY <1>1, <1>10
  <2> QED  BY <2>1, <2>2, <2>3, <2>4
<1>11. Cuts(es, t, base, overlap, longest, b)  BY <1>2, <1>9, <1>10 DEF Cuts
<1>12. ASSUME NEW cell, InSome(cs, cell) \/ InSome(ds, cell) PROVE InSome(es, cell)
  <2>1. CASE InSome(cs, cell)
    <3>1. PICK j \in 1..k : Says(cs[j].text, cell)  BY <2>1 DEF InSome, k
    <3>2. j \in 1..(k + l) /\ es[j] = cs[j]  BY <1>1, <1>2, <3>1
    <3> QED  BY <1>2, <3>1, <3>2 DEF InSome
  <2>2. CASE InSome(ds, cell)
    <3>1. PICK j \in 1..l : Says(ds[j].text, cell)  BY <2>2 DEF InSome, l
    <3>2. k + j \in 1..(k + l) /\ es[k + j] = ds[j]  BY <1>1, <1>2, <3>1
    <3> QED  BY <1>2, <3>1, <3>2 DEF InSome
  <2> QED  BY <1>12, <2>1, <2>2
<1> QED  BY <1>11, <1>12 DEF es

-----------------------------------------------------------------------------
(* What an overlap adds to the length of a chunk. *)
Extra(overlap) == IF overlap = 0 THEN 0 ELSE overlap + 1

(* The end of a text, a separator, and another text. *)
LEMMA OverlapText ==
  ASSUME NEW p \in Seq(Cell), NEW m \in 1..Len(p), NEW e \in Cell, NEW q \in Seq(Cell), q # <<>>
  PROVE  LET r == SubSeq(p, Len(p) - m + 1, Len(p)) \o <<e>> \o q
         IN /\ r \in Seq(Cell) /\ Len(r) = m + 1 + Len(q) /\ r # <<>>
            /\ \A x \in 1..Len(q) : m + 1 + x \in 1..Len(r) /\ r[m + 1 + x] = q[x]
            /\ r[Len(r)] = q[Len(q)]
<1> DEFINE u == SubSeq(p, Len(p) - m + 1, Len(p))
           v == u \o <<e>>
           r == v \o q
           n == Len(q)
<1>1. n \in Nat /\ n # 0 /\ m \in Nat /\ Len(p) \in Nat /\ m <= Len(p) /\ 1 <= m  OBVIOUS
<1>2. u \in Seq(Cell) /\ Len(u) = m
  <2>1. Len(p) - m + 1 \in 1..(Len(p) + 1) /\ Len(p) - (Len(p) - m + 1) + 1 = m  BY <1>1
  <2> QED  BY <1>1, <2>1
<1> HIDE DEF u
<1>3. v \in Seq(Cell) /\ Len(v) = m + 1  BY <1>1, <1>2
<1> HIDE DEF v
<1>4. /\ r \in Seq(Cell) /\ Len(r) = m + 1 + n
      /\ \A x \in 1..n : r[m + 1 + x] = q[x]
  BY <1>1, <1>3
<1> HIDE DEF r, n
<1>5. \A x \in 1..n : m + 1 + x \in 1..(m + 1 + n)  BY <1>1
<1>6. r # <<>>
  <2>1. Len(r) # 0  BY <1>1, <1>4
  <2> QED  BY <2>1
<1>7. n \in 1..n  BY <1>1
<1>8. r[Len(r)] = q[n]  BY <1>4, <1>7
<1> QED  BY <1>4, <1>5, <1>6, <1>8 DEF r, v, u, n

(* Each chunk takes the end of the one before it. *)
LEMMA OverlappedCuts ==
  ASSUME NEW cs, NEW t \in Seq(Cell), NEW base \in Nat, NEW overlap \in Nat,
         NEW longest \in Nat, NEW n \in Nat, Cuts(cs, t, base, overlap, longest, n),
         NEW sep \in CellKinds
  PROVE  /\ Cuts(Overlapped(cs, overlap, sep), t, base, overlap, longest + Extra(overlap), n)
         /\ \A cell : InSome(cs, cell) => InSome(Overlapped(cs, overlap, sep), cell)
<1> DEFINE ds == Overlapped(cs, overlap, sep)
           k == Len(cs)
           e == [k |-> sep, at |-> 0]
           Text(j) == LET p == cs[j - 1].text
                          m == Smaller(overlap, Len(p))
                      IN SubSeq(p, Len(p) - m + 1, Len(p)) \o <<e>> \o cs[j].text
           Longer(j) == [text |-> Text(j), start |-> cs[j - 1].end - Smaller(overlap, Len(cs[j - 1].text)),
                      end |-> cs[j].end]
           Keep(j) == j = 1 \/ overlap = 0
<1>1. cs \in Seq(Passage) /\ k \in Nat /\ DOMAIN cs = 1..k  BY DEF Cuts
<1>2. \A j \in 1..k : /\ cs[j] \in Passage /\ cs[j].text \in Seq(Cell) /\ Len(cs[j].text) \in Nat
                      /\ cs[j].start \in Int /\ cs[j].end \in Int
  <2>1. \A j \in 1..k : cs[j] \in Passage  BY <1>1
  <2> QED  BY <2>1, PassageHas
<1>3. \A j \in 1..k : /\ Placed(cs[j], t, base, overlap, longest) /\ cs[j].end <= base + n
                      /\ \A i \in 1..k : i < j => cs[i].end < cs[j].end
  BY DEF Cuts
<1>4. e \in Cell  BY DEF Cell
<1>5. ds = [j \in 1..k |-> IF Keep(j) THEN cs[j] ELSE Longer(j)]
  BY <1>1 DEF Overlapped
<1> HIDE DEF ds, k, e
<1>6. Extra(overlap) \in Nat  BY DEF Extra
<1>7. ASSUME NEW j \in 1..k
      PROVE  /\ ds[j] \in Passage /\ ds[j].end = cs[j].end
             /\ Placed(ds[j], t, base, overlap, longest + Extra(overlap))
             /\ \A cell : Says(cs[j].text, cell) => Says(ds[j].text, cell)
  <2>1. CASE Keep(j)
    <3>1. ds[j] = cs[j]  BY <1>5, <2>1
    <3>2. Len(cs[j].text) <= longest + Extra(overlap)  BY <1>2, <1>3, <1>6 DEF Placed
    <3> QED  BY <1>2, <1>3, <3>1, <3>2 DEF Placed
  <2>2. CASE ~Keep(j)
    <3> DEFINE i == j - 1
               p == cs[i].text
               m == Smaller(overlap, Len(p))
               q == cs[j].text
               r == SubSeq(p, Len(p) - m + 1, Len(p)) \o <<e>> \o q
    <3>1. j # 1 /\ overlap # 0 /\ i \in 1..k /\ i < j  BY <1>1, <2>2
    <3>2. ds[j] = [text |-> r, start |-> cs[i].end - m, end |-> cs[j].end]
      BY <1>5, <2>2
    <3>3. p \in Seq(Cell) /\ q \in Seq(Cell) /\ q # <<>> /\ p # <<>> /\ Len(p) \in Nat
      BY <1>2, <1>3, <3>1 DEF Placed
    <3>4. /\ base < cs[i].end /\ base < cs[j].end /\ cs[j].end <= base + Len(t)
          /\ cs[i].end < cs[j].end /\ Len(q) <= longest /\ q[Len(q)] = t[cs[j].end - base]
      BY <1>3, <3>1 DEF Placed
    <3>5. cs[i].end \in Int /\ cs[j].end \in Int  BY <1>2, <3>1
    <3> HIDE DEF i, p, q
    <3>6. m \in 1..Len(p) /\ m <= overlap
      <4>1. Len(p) # 0  BY <3>3
      <4> QED  BY <3>1, <3>3, <4>1 DEF Smaller
    <3> HIDE DEF m
    <3>7. /\ r \in Seq(Cell) /\ Len(r) = m + 1 + Len(q) /\ r # <<>>
          /\ \A x \in 1..Len(q) : m + 1 + x \in 1..Len(r) /\ r[m + 1 + x] = q[x]
          /\ r[Len(r)] = q[Len(q)]
      BY <1>4, <3>3, <3>6, OverlapText
    <3> HIDE DEF r
    <3>8. Len(q) \in Nat /\ m \in Nat  BY <3>3, <3>6
    <3>9. /\ ds[j] \in Passage /\ ds[j].text = r /\ ds[j].start = cs[i].end - m
          /\ ds[j].end = cs[j].end
      BY <3>2, <3>5, <3>7, <3>8 DEF Passage
    <3>10. Len(r) <= longest + Extra(overlap)
      <4>1. Extra(overlap) = overlap + 1  BY <3>1 DEF Extra
      <4> QED  BY <3>4, <3>6, <3>7, <3>8, <4>1
    <3>11. base - overlap <= cs[i].end - m /\ cs[i].end - m < cs[j].end
      BY <3>4, <3>5, <3>6, <3>8, SMTT(40)
    <3>12. Placed(ds[j], t, base, overlap, longest + Extra(overlap))
      BY <3>4, <3>7, <3>9, <3>10, <3>11 DEF Placed
    <3>13. \A cell : Says(q, cell) => Says(r, cell)  BY <3>7 DEF Says
    <3> QED  BY <3>9, <3>12, <3>13 DEF q
  <2> QED  BY <2>1, <2>2
<1>8. ds \in Seq(Passage) /\ Len(ds) = k
  <2>1. \A j \in 1..k : ds[j] \in Passage  BY <1>7
  <2>2. ds = [j \in 1..k |-> ds[j]]  BY <1>5
  <2> QED  BY <1>1, <2>1, <2>2
<1>9. Cuts(ds, t, base, overlap, longest + Extra(overlap), n)
  BY <1>3, <1>7, <1>8 DEF Cuts
<1>10. \A cell : InSome(cs, cell) => InSome(ds, cell)
  BY <1>7, <1>8 DEF InSome, k
<1> QED  BY <1>9, <1>10 DEF ds

-----------------------------------------------------------------------------

(* Steps of z reach x after q of them, and not before. *)
LEMMA StepsReach ==
  ASSUME NEW x \in Nat, NEW z \in Nat \ {0}
  PROVE  /\ BatchesOf(x, z) \in Nat /\ BatchesOf(x, z) * z >= x
         /\ BatchesOf(x, z) * z < x + z
         /\ \A b \in Nat : b < BatchesOf(x, z) => b * z < x
<1> DEFINE q == BatchesOf(x, z)
<1>1. q \in Int /\ q * z <= x + z - 1 /\ x + z - 1 < q * z + z
  BY DEF BatchesOf
<1>2. q \in Nat /\ q * z >= x
  <2>1. q * z >= x  BY <1>1
  <2>2. q < 0 => q * z + z <= 0  BY <1>1
  <2> QED  BY <1>1, <2>1, <2>2
<1> HIDE DEF q
<1>3. ASSUME NEW b \in Nat, b < q PROVE b * z < x
  <2>1. q - b - 1 \in Nat  BY <1>2, <1>3
  <2>2. (q - b - 1) * z \in Nat /\ (q - b - 1) * z = q * z - b * z - z  BY <1>2, <2>1
  <2>3. b * z \in Nat /\ q * z \in Nat  BY <1>2
  <2> QED  BY <1>1, <2>2, <2>3
<1>4. q * z < x + z
  <2>1. q * z \in Nat  BY <1>2
  <2> QED  BY <1>1, <2>1
<1> QED  BY <1>2, <1>3, <1>4 DEF q

(* Where the windows of a text begin and end. *)
WindowsOf(n, width, step) == IF n <= width THEN 1 ELSE BatchesOf(n - width, step) + 1
WindowEnd(n, width, step, j) == Smaller((j - 1) * step + width, n)

(* Each window is in the text and no longer than the width.                 *)
LEMMA WindowEnds ==
  ASSUME NEW n \in Nat \ {0}, NEW width \in Nat \ {0}, NEW step \in 1..width
  PROVE  /\ WindowsOf(n, width, step) \in Nat
         /\ \A j \in 1..WindowsOf(n, width, step) :
              /\ (j - 1) * step \in Nat
              /\ WindowEnd(n, width, step, j) \in (j - 1) * step + 1..n
              /\ WindowEnd(n, width, step, j) - (j - 1) * step <= width
              /\ \A i \in 1..WindowsOf(n, width, step) :
                   i < j => WindowEnd(n, width, step, i) < WindowEnd(n, width, step, j)
         /\ \A i \in 1..n : \E j \in 1..WindowsOf(n, width, step) :
              i \in (j - 1) * step + 1..WindowEnd(n, width, step, j)
<1> DEFINE m == WindowsOf(n, width, step)
           x == n - width
           q == BatchesOf(x, step)
           Begins(j) == (j - 1) * step
           To(j) == WindowEnd(n, width, step, j)
<1>1. step \in Nat \ {0} /\ step <= width  OBVIOUS
<1>2. CASE n <= width
  <2>1. m = 1  BY <1>2 DEF WindowsOf
  <2>2. Begins(1) = 0 /\ To(1) = n  BY <1>1, <1>2 DEF WindowEnd, Smaller
  <2>3. 1..m = {1}  BY <2>1
  <2>4. \A i, j \in 1..m : ~(i < j)  BY <2>3
  <2> HIDE DEF m, Begins, To
  <2>5. \A j \in 1..m : /\ Begins(j) \in Nat /\ To(j) \in Begins(j) + 1..n /\ To(j) - Begins(j) <= width
                        /\ \A i \in 1..m : i < j => To(i) < To(j)
    <3> TAKE j \in 1..m
    <3>1. j = 1  BY <2>3
    <3>2. n \in 0 + 1..n /\ n - 0 <= width  BY <1>2
    <3> QED  BY <2>2, <2>4, <3>1, <3>2
  <2>6. \A i \in 1..n : i \in Begins(1) + 1..To(1) /\ 1 \in 1..m  BY <2>2, <2>3
  <2> QED  BY <2>1, <2>5, <2>6 DEF m, Begins, To
<1>3. CASE n > width
  <2>1. x \in Nat \ {0} /\ n = x + width  BY <1>3
  <2>2. m = q + 1  BY <1>3 DEF WindowsOf
  <2> HIDE DEF x
  <2>3. /\ q \in Nat /\ q * step >= x /\ q * step < x + step
        /\ \A b \in Nat : b < q => b * step < x
    BY <1>1, <2>1, StepsReach
  <2> HIDE DEF q, m
  <2>4. ASSUME NEW j \in 1..m
        PROVE  /\ Begins(j) \in Nat
               /\ j < m => Begins(j) < x /\ To(j) = Begins(j) + width
               /\ j = m => Begins(j) >= x /\ Begins(j) < x + step /\ To(j) = n
    <3>1. j - 1 \in Nat /\ j \in Int  BY <2>2, <2>3
    <3>2. Begins(j) \in Nat  BY <1>1, <3>1
    <3>3. j < m => Begins(j) < x
      <4>1. j < m => j - 1 < q  BY <2>2, <2>3, <3>1
      <4> QED  BY <2>3, <3>1, <4>1
    <3>4. j = m => Begins(j) >= x /\ Begins(j) < x + step
      <4>1. j = m => j - 1 = q  BY <2>2, <2>3, <3>1
      <4> QED  BY <2>3, <4>1
    <3>5. To(j) = IF Begins(j) + width <= n THEN Begins(j) + width ELSE n  BY DEF WindowEnd, Smaller
    <3> HIDE DEF Begins, To
    <3>6. j < m => To(j) = Begins(j) + width
      BY <2>1, <3>2, <3>3, <3>5
    <3>7. j = m => To(j) = n
      BY <2>1, <3>2, <3>4, <3>5
    <3> QED  BY <3>2, <3>3, <3>4, <3>6, <3>7
  <2>5. m \in Nat  BY <2>2, <2>3
  <2>6. \A i, j \in 1..m : i < j => Begins(i) < Begins(j)
    <3> SUFFICES ASSUME NEW i \in 1..m, NEW j \in 1..m, i < j PROVE Begins(i) < Begins(j)
      OBVIOUS
    <3>1. i \in Int /\ j \in Int /\ j - i - 1 \in Nat  BY <2>5
    <3>2. (j - i - 1) * step \in Nat  BY <1>1, <3>1
    <3>3. (j - i - 1) * step = Begins(j) - Begins(i) - step  BY <1>1, <3>1
    <3>4. Begins(i) \in Int /\ Begins(j) \in Int  BY <1>1, <3>1
    <3> HIDE DEF Begins
    <3> QED  BY <1>1, <3>2, <3>3, <3>4
  <2>7. ASSUME NEW i \in 1..n
        PROVE  \E j \in 1..m : i \in Begins(j) + 1..To(j)
    <3>1. CASE i <= width
      <4>1. 1 \in 1..m /\ Begins(1) = 0  BY <1>1, <2>2, <2>3
      <4>2. To(1) >= i
        <5>1. m = 1 \/ 1 < m  BY <2>5, <4>1
        <5> HIDE DEF To, Begins
        <5> QED  BY <2>4, <3>1, <4>1, <5>1
      <4>3. To(1) \in Int
        <5>1. m = 1 \/ 1 < m  BY <2>5, <4>1
        <5> HIDE DEF To, Begins
        <5> QED  BY <2>4, <4>1, <5>1
      <4> HIDE DEF To, Begins
      <4> QED  BY <4>1, <4>2, <4>3
    <3>2. CASE i > width
      <4> DEFINE y == i - width
                 p == BatchesOf(y, step)
                 j == p + 1
      <4>1. y \in Nat \ {0} /\ y <= x /\ i = y + width  BY <2>1, <3>2
      <4> HIDE DEF y
      <4>2. p \in Nat /\ p * step >= y /\ p * step < y + step  BY <1>1, <4>1, StepsReach
      <4> HIDE DEF p
      <4>3. p <= q
        <5> SUFFICES ASSUME q < p PROVE FALSE
          BY <2>3, <4>2
        <5>1. p - q - 1 \in Nat  BY <2>3, <4>2
        <5>2. (p - q - 1) * step \in Nat /\ (p - q - 1) * step = p * step - q * step - step
          BY <1>1, <2>3, <4>2, <5>1
        <5>3. p * step \in Nat /\ q * step \in Nat  BY <1>1, <2>3, <4>2
        <5> QED  BY <1>1, <2>1, <2>3, <4>1, <4>2, <5>2, <5>3
      <4>4. j \in 1..m /\ j - 1 = p  BY <2>2, <2>3, <4>2, <4>3
      <4>5. Begins(j) = p * step  BY <4>4
      <4>6. j < m \/ j = m  BY <2>5, <4>4
      <4> HIDE DEF Begins, To, j
      <4>7. Begins(j) \in Nat /\ Begins(j) + 1 <= i  BY <1>1, <2>4, <4>1, <4>2, <4>4, <4>5
      <4>8. To(j) \in Int /\ i <= To(j)  BY <1>1, <2>4, <4>1, <4>2, <4>4, <4>5, <4>6
      <4> QED  BY <4>4, <4>7, <4>8
    <3> QED  BY <3>1, <3>2
  <2>8. ASSUME NEW j \in 1..m
        PROVE  /\ Begins(j) \in Nat /\ To(j) \in Begins(j) + 1..n /\ To(j) - Begins(j) <= width
               /\ \A i \in 1..m : i < j => To(i) < To(j)
    <3> HIDE DEF Begins, To
    <3>1. j < m \/ j = m  BY <2>5
    <3>2. /\ Begins(j) \in Nat /\ To(j) \in Begins(j) + 1..n /\ To(j) - Begins(j) <= width
      <4>1. CASE j < m  BY <1>1, <2>1, <2>4, <4>1
      <4>2. CASE j = m  BY <1>1, <2>1, <2>4, <4>2
      <4> QED  BY <3>1, <4>1, <4>2
    <3>3. ASSUME NEW i \in 1..m, i < j PROVE To(i) < To(j)
      <4>1. i < m  BY <2>5, <3>3
      <4>2. Begins(i) \in Nat /\ Begins(i) < x /\ To(i) = Begins(i) + width  BY <2>4, <4>1
      <4>3. Begins(i) < Begins(j)  BY <2>6, <3>3
      <4>4. CASE j < m  BY <2>4, <3>2, <4>2, <4>3, <4>4
      <4>5. CASE j = m  BY <2>1, <2>4, <4>2, <4>5
      <4> QED  BY <3>1, <4>4, <4>5
    <3> QED  BY <3>2, <3>3
  <2> HIDE DEF Begins, To
  <2>9. /\ m \in Nat
        /\ \A j \in 1..m : /\ Begins(j) \in Nat /\ To(j) \in Begins(j) + 1..n /\ To(j) - Begins(j) <= width
                           /\ \A i \in 1..m : i < j => To(i) < To(j)
        /\ \A i \in 1..n : \E j \in 1..m : i \in Begins(j) + 1..To(j)
    BY <2>5, <2>7, <2>8
  <2> QED  BY <2>9 DEF m, Begins, To
<1> QED  BY <1>1, <1>2, <1>3

(* A text without a separator is cut into windows. *)
LEMMA WindowsCut ==
  ASSUME NEW t \in Seq(Cell), t # <<>>, NEW base \in Nat, NEW width \in Nat \ {0},
         NEW overlap \in 0..(width - 1)
  PROVE  /\ Cuts(Windows(t, width, overlap, base), t, base, overlap, width, Len(t))
         /\ \A i \in 1..Len(t) : InSome(Windows(t, width, overlap, base), t[i])
<1> DEFINE step == width - overlap
           n == Len(t)
           m == WindowsOf(n, width, step)
           Begins(j) == (j - 1) * step
           To(j) == WindowEnd(n, width, step, j)
           cs == Windows(t, width, overlap, base)
<1>1. step \in 1..width /\ n \in Nat \ {0}
  <2>1. Len(t) \in Nat /\ Len(t) # 0  OBVIOUS
  <2> QED  BY <2>1
<1>2. /\ m \in Nat
      /\ \A j \in 1..m : /\ Begins(j) \in Nat /\ To(j) \in Begins(j) + 1..n /\ To(j) - Begins(j) <= width
                         /\ \A i \in 1..m : i < j => To(i) < To(j)
      /\ \A i \in 1..n : \E j \in 1..m : i \in Begins(j) + 1..To(j)
  <2> HIDE DEF step, n
  <2> QED  BY <1>1, WindowEnds
<1>3. cs = [j \in 1..m |-> Chunk(t, Interval(Begins(j) + 1, To(j)), base)]
  BY DEF Windows, WindowsOf, WindowEnd, BatchesOf
<1> HIDE DEF step, m, Begins, To, cs
<1>4. overlap \in Nat /\ width \in Nat  OBVIOUS
<1>5. ASSUME NEW j \in 1..m
      PROVE  /\ cs[j] \in Passage /\ Placed(cs[j], t, base, overlap, width)
             /\ cs[j].end = base + To(j)
             /\ \A i \in Begins(j) + 1..To(j) : Says(cs[j].text, t[i])
  <2> DEFINE a == Begins(j) + 1
             b == To(j)
  <2>1. a \in 1..Len(t) /\ b \in a..Len(t) /\ b - a + 1 <= width
    <3>1. Begins(j) \in Nat /\ To(j) \in Begins(j) + 1..n /\ To(j) - Begins(j) <= width  BY <1>2
    <3> QED  BY <1>1, <3>1
  <2>2. cs[j] = Chunk(t, Interval(a, b), base)  BY <1>3
  <2> HIDE DEF a, b
  <2>3. /\ cs[j] \in Passage /\ Placed(cs[j], t, base, overlap, width) /\ cs[j].end = base + b
        /\ \A i \in a..b : Says(cs[j].text, t[i])
    <3>1. CutOf(t, base, overlap, width, a, b)  BY <1>4, <2>1 DEF CutOf
    <3> QED  BY <2>2, <3>1, ChunkPlaced
  <2> QED  BY <2>3 DEF a, b
<1>6. cs \in Seq(Passage) /\ Len(cs) = m
  <2>1. \A j \in 1..m : cs[j] \in Passage  BY <1>5
  <2>2. cs = [j \in 1..m |-> cs[j]]  BY <1>3
  <2>3. m \in Nat  BY <1>2
  <2> QED  BY <2>1, <2>2, <2>3
<1>7. \A j \in 1..m : To(j) \in Int /\ To(j) <= n
  <2> TAKE j \in 1..m
  <2>1. Begins(j) \in Nat /\ To(j) \in Begins(j) + 1..n  BY <1>2
  <2> QED  BY <1>1, <2>1
<1>8. \A j \in 1..m : cs[j].end <= base + n  BY <1>1, <1>5, <1>7
<1>9. \A i, j \in 1..m : i < j => cs[i].end < cs[j].end
  <2> SUFFICES ASSUME NEW i \in 1..m, NEW j \in 1..m, i < j PROVE cs[i].end < cs[j].end
    OBVIOUS
  <2>1. To(i) < To(j) /\ cs[i].end = base + To(i) /\ cs[j].end = base + To(j)  BY <1>2, <1>5
  <2> QED  BY <1>7, <2>1
<1>10. Cuts(cs, t, base, overlap, width, n)  BY <1>5, <1>6, <1>8, <1>9 DEF Cuts
<1>11. \A i \in 1..n : InSome(cs, t[i])
  <2> TAKE i \in 1..n
  <2>1. PICK j \in 1..m : i \in Begins(j) + 1..To(j)  BY <1>2
  <2>2. Says(cs[j].text, t[i])  BY <1>5, <2>1
  <2> QED  BY <1>6, <2>2 DEF InSome
<1> QED  BY <1>10, <1>11 DEF cs

-----------------------------------------------------------------------------
(* The parts of a text: neighbours have one separator between them. *)
LEMMA PartsAdjoin ==
  ASSUME NEW t \in Seq(Cell), NEW sep, NEW ps, ps = Parts(t, sep)
  PROVE  /\ Len(ps) \in Nat \ {0} /\ DOMAIN ps = 1..Len(ps) /\ ps \in Seq([from : Int, to : Int])
         /\ \A j \in 1..Len(ps) :
              /\ ps[j].from \in 1..(Len(t) + 1) /\ ps[j].to \in (ps[j].from - 1)..Len(t)
              /\ j = 1 => ps[j].from = 1
              /\ j > 1 => ps[j].from = ps[j - 1].to + 2 /\ t[ps[j - 1].to + 1].k = sep
         /\ ps[Len(ps)].to = Len(t)
<1> DEFINE n == Len(t)
           I == {i \in DOMAIN t : t[i].k = sep}
           at == Ordered(I)
           m == Len(at)
           From(j) == IF j = 1 THEN 1 ELSE at[j - 1] + 1
           To(j) == IF j = m + 1 THEN n ELSE at[j] - 1
<1>1. n \in Nat /\ DOMAIN t = 1..n  OBVIOUS
<1>2. I \in SUBSET Int /\ IsFiniteSet(I)
  <2>1. IsFiniteSet(1..n)  BY <1>1, FS_Interval
  <2>2. I \in SUBSET (1..n)  BY <1>1
  <2> QED  BY <2>1, <2>2, FS_Subset
<1>3. \A i \in I : i \in 1..n /\ t[i].k = sep  BY <1>1
<1>6. ps = [j \in 1..(m + 1) |-> [from |-> From(j), to |-> To(j)]]
  BY DEF Parts, Interval
<1> HIDE DEF I
<1>4. at \in Seq(I) /\ \A i, j \in 1..m : i < j => at[i] < at[j]
  BY <1>2, OrderedOnto
<1>5. m \in Nat /\ \A j \in 1..m : at[j] \in 1..n /\ t[at[j]].k = sep
  <2>1. m \in Nat /\ \A j \in 1..m : at[j] \in I  BY <1>4
  <2> QED  BY <1>3, <2>1
<1>7. Len(ps) = m + 1 /\ DOMAIN ps = 1..(m + 1)  BY <1>5, <1>6
<1>8. \A j \in 1..(m + 1) : ps[j].from = From(j) /\ ps[j].to = To(j)  BY <1>6
<1> HIDE DEF at, m, n
<1>9. ASSUME NEW j \in 1..(m + 1)
      PROVE  /\ From(j) \in 1..(n + 1) /\ To(j) \in (From(j) - 1)..n
             /\ j > 1 => From(j) = To(j - 1) + 2 /\ t[To(j - 1) + 1].k = sep
  <2>1. From(j) \in 1..(n + 1)
    <3>1. CASE j = 1  BY <1>1, <3>1
    <3>2. CASE j # 1
      <4>1. j - 1 \in 1..m  BY <1>5, <3>2
      <4> QED  BY <1>1, <1>5, <3>2, <4>1
    <3> QED  BY <3>1, <3>2
  <2>2. To(j) \in (From(j) - 1)..n
    <3>1. CASE j = m + 1  BY <1>1, <2>1, <3>1
    <3>2. CASE j # m + 1
      <4>1. j \in 1..m  BY <1>5, <3>2
      <4>2. at[j] \in 1..n  BY <1>5, <4>1
      <4>3. CASE j = 1  BY <1>1, <3>2, <4>2, <4>3
      <4>4. CASE j # 1
        <5>1. j - 1 \in 1..m /\ j - 1 < j  BY <1>5, <4>1, <4>4
        <5>2. at[j - 1] < at[j] /\ at[j - 1] \in 1..n  BY <1>4, <1>5, <4>1, <5>1
        <5> QED  BY <1>1, <3>2, <4>2, <4>4, <5>2
      <4> QED  BY <4>3, <4>4
    <3> QED  BY <3>1, <3>2
  <2>3. ASSUME j > 1 PROVE From(j) = To(j - 1) + 2 /\ t[To(j - 1) + 1].k = sep
    <3>1. j - 1 \in 1..m /\ j # 1 /\ j - 1 # m + 1  BY <1>5, <2>3
    <3>2. at[j - 1] \in 1..n /\ t[at[j - 1]].k = sep  BY <1>5, <3>1
    <3>3. From(j) = at[j - 1] + 1 /\ To(j - 1) = at[j - 1] - 1  BY <3>1
    <3>4. To(j - 1) + 1 = at[j - 1] /\ at[j - 1] + 1 = To(j - 1) + 2  BY <1>1, <3>2, <3>3
    <3> QED  BY <3>2, <3>3, <3>4
  <2> QED  BY <2>1, <2>2, <2>3
<1>10. To(m + 1) = n /\ From(1) = 1  OBVIOUS
<1> HIDE DEF From, To
<1>11. \A j \in 1..(m + 1) : ps[j] \in [from : Int, to : Int]
  <2> TAKE j \in 1..(m + 1)
  <2>1. ps[j] = [from |-> From(j), to |-> To(j)]  BY <1>6
  <2>2. From(j) \in Int /\ To(j) \in Int  BY <1>1, <1>9
  <2> QED  BY <2>1, <2>2
<1>12. ps \in Seq([from : Int, to : Int])
  <2> DEFINE X == [from : Int, to : Int]
  <2>1. ps = [j \in 1..(m + 1) |-> ps[j]]  BY <1>6
  <2>2. \A j \in 1..(m + 1) : ps[j] \in X  BY <1>11
  <2> HIDE DEF X
  <2>3. ps \in Seq(X)  BY <1>5, <2>1, <2>2
  <2> QED  BY <2>3 DEF X
<1>13. \A j \in 1..(m + 1) :
         /\ ps[j].from \in 1..(n + 1) /\ ps[j].to \in (ps[j].from - 1)..n
         /\ j = 1 => ps[j].from = 1
         /\ j > 1 => ps[j].from = ps[j - 1].to + 2 /\ t[ps[j - 1].to + 1].k = sep
  <2> TAKE j \in 1..(m + 1)
  <2>1. j > 1 => j - 1 \in 1..(m + 1)  BY <1>5
  <2> QED  BY <1>8, <1>9, <1>10, <2>1
<1>14. m + 1 \in Nat \ {0} /\ ps[m + 1].to = n
  <2>1. m + 1 \in 1..(m + 1)  BY <1>5
  <2> QED  BY <1>5, <1>8, <1>10, <2>1
<1> QED  BY <1>7, <1>12, <1>13, <1>14 DEF n

-----------------------------------------------------------------------------
(* The loop over the parts *)

(* What is said of the splitter for the separators that are left. *)
Splits(finer, overlap, longest, S) ==
  \A u \in Seq(Cell), b \in Nat :
    /\ Cuts(finer[<<u, b>>], u, b, overlap, longest, Len(u))
    /\ \A i \in 1..Len(u) : u[i].k \notin S => InSome(finer[<<u, b>>], u[i])

Setting(t, base, overlap, longest, limit) ==
  /\ t \in Seq(Cell) /\ base \in Nat /\ overlap \in Nat
  /\ longest \in Nat /\ limit \in Nat \ {0} /\ limit <= longest

(* The first e cells are cut, up to separators. *)
CutUpTo(out, t, base, overlap, longest, S, e) ==
  /\ Cuts(out, t, base, overlap, longest, e)
  /\ \A i \in 1..e : t[i].k \notin S => InSome(out, t[i])

(* A part that comes next. *)
Follows(piece, t, S, e) ==
  /\ e \in 0..Len(t)
  /\ piece.from \in 1..(Len(t) + 1) /\ piece.to \in (piece.from - 1)..Len(t)
  /\ piece.from = e + 1 \/ (piece.from = e + 2 /\ t[e + 1].k \in S)

Spans == [from : Int, to : Int]

(* The chunks that are finished and the one that is open, after e cells.    *)
InLoop(acc, t, base, overlap, longest, limit, S, e) ==
  /\ acc \in [out : Seq(Passage), cur : Spans] /\ e \in 0..Len(t)
  /\ IF acc.cur.to >= acc.cur.from
       THEN /\ acc.cur.from >= 1 /\ acc.cur.to = e /\ e - acc.cur.from + 1 <= limit
            /\ Cuts(acc.out, t, base, overlap, longest, acc.cur.from - 1)
            /\ \A i \in 1..e : t[i].k \notin S => InSome(acc.out, t[i]) \/ acc.cur.from <= i
       ELSE CutUpTo(acc.out, t, base, overlap, longest, S, e)

(* One turn of the loop. *)
TakePart(t, limit, finer, base, acc, piece) ==
  LET open == acc.cur.to >= acc.cur.from
      joined == IF open THEN Interval(acc.cur.from, piece.to) ELSE piece
      flushed == IF open THEN Append(acc.out, Chunk(t, acc.cur, base)) ELSE acc.out
      long == SubSeq(t, piece.from, piece.to)
  IN IF Fits(joined, limit) THEN [acc EXCEPT !.cur = joined]
     ELSE IF Width(piece) > limit
       THEN [out |-> flushed \o finer[<<long, base + piece.from - 1>>],
             cur |-> Interval(1, 0)]
       ELSE [out |-> flushed, cur |-> piece]

(* The chunk that is open is finished. *)
Flushed(t, base, acc) ==
  IF acc.cur.to >= acc.cur.from THEN Append(acc.out, Chunk(t, acc.cur, base)) ELSE acc.out

(* Then all that was gone through is cut.                                   *)
LEMMA FlushedCut ==
  ASSUME NEW t, NEW base, NEW overlap, NEW longest, NEW limit, NEW S, NEW e, NEW acc,
         Setting(t, base, overlap, longest, limit),
         InLoop(acc, t, base, overlap, longest, limit, S, e)
  PROVE  CutUpTo(Flushed(t, base, acc), t, base, overlap, longest, S, e)
<1>1. /\ t \in Seq(Cell) /\ base \in Nat /\ overlap \in Nat /\ Len(t) \in Nat
      /\ longest \in Nat /\ limit \in Nat \ {0} /\ limit <= longest /\ e \in 0..Len(t)
  BY DEF Setting, InLoop
<1>2. CASE acc.cur.to >= acc.cur.from
  <2> DEFINE a == acc.cur.from
             c == Chunk(t, acc.cur, base)
  <2>1. /\ a \in Int /\ a >= 1 /\ acc.cur.to = e /\ a <= e /\ e - a + 1 <= limit
        /\ Cuts(acc.out, t, base, overlap, longest, a - 1)
        /\ \A i \in 1..e : t[i].k \notin S => InSome(acc.out, t[i]) \/ a <= i
    BY <1>2 DEF InLoop, Spans
  <2>2. c = Chunk(t, Interval(a, e), base)
    <3>1. acc.cur = [from |-> a, to |-> e]  BY <2>1 DEF InLoop, Spans
    <3> HIDE DEF a
    <3> QED  BY <3>1 DEF Interval
  <2> HIDE DEF a, c
  <2>3. CutOf(t, base, overlap, longest, a, e)  BY <1>1, <2>1 DEF CutOf
  <2>4. /\ c \in Passage /\ Placed(c, t, base, overlap, longest) /\ c.end = base + e
        /\ \A i \in a..e : Says(c.text, t[i])
    BY <2>2, <2>3, ChunkPlaced
  <2>5. a - 1 \in Nat /\ e \in Nat /\ base + (a - 1) < c.end /\ c.end <= base + e
    BY <1>1, <2>1, <2>4
  <2>6. /\ Cuts(Append(acc.out, c), t, base, overlap, longest, e)
        /\ \A cell : InSome(acc.out, cell) \/ Says(c.text, cell) => InSome(Append(acc.out, c), cell)
    BY <1>1, <2>1, <2>4, <2>5, CutsAppend
  <2>7. ASSUME NEW i \in 1..e, t[i].k \notin S PROVE InSome(Append(acc.out, c), t[i])
    <3>1. CASE InSome(acc.out, t[i])  BY <2>6, <3>1
    <3>2. CASE a <= i
      <4>1. i \in a..e  BY <1>1, <2>1, <3>2
      <4> QED  BY <2>4, <2>6, <4>1
    <3> QED  BY <2>1, <2>7, <3>1, <3>2
  <2>8. Flushed(t, base, acc) = Append(acc.out, c)  BY <1>2 DEF Flushed, c
  <2> QED  BY <2>6, <2>7, <2>8 DEF CutUpTo
<1>3. CASE ~(acc.cur.to >= acc.cur.from)
  BY <1>3 DEF Flushed, InLoop
<1> QED  BY <1>2, <1>3

(* A part that is short enough becomes the open chunk. *)
LEMMA OpenPart ==
  ASSUME NEW t, NEW base, NEW overlap, NEW longest, NEW limit, NEW S, NEW e, NEW out, NEW piece \in Spans,
         Setting(t, base, overlap, longest, limit), Follows(piece, t, S, e),
         CutUpTo(out, t, base, overlap, longest, S, e), Width(piece) <= limit,
         NEW acc, acc = [out |-> out, cur |-> piece]
  PROVE  InLoop(acc, t, base, overlap, longest, limit, S, piece.to)
<1>1. /\ t \in Seq(Cell) /\ base \in Nat /\ overlap \in Nat /\ Len(t) \in Nat
      /\ longest \in Nat /\ limit \in Nat \ {0} /\ limit <= longest /\ e \in 0..Len(t)
  BY DEF Setting, Follows
<1> DEFINE a == piece.from
           b == piece.to
<1>2. /\ a \in 1..(Len(t) + 1) /\ b \in (a - 1)..Len(t)
      /\ a = e + 1 \/ (a = e + 2 /\ t[e + 1].k \in S)
      /\ b - a + 1 <= limit
  BY DEF Follows, Width
<1>3. out \in Seq(Passage)  BY DEF CutUpTo, Cuts
<1>9. acc \in [out : Seq(Passage), cur : Spans] /\ acc.out = out /\ acc.cur = piece  BY <1>3
<1> HIDE DEF a, b
<1>4. a \in Int /\ b \in Int /\ b \in 0..Len(t)  BY <1>1, <1>2
<1>5. \A i \in 1..b : t[i].k \notin S => InSome(out, t[i]) \/ a <= i
  <2> TAKE i \in 1..b
  <2>1. CASE i \in 1..e  BY <2>1 DEF CutUpTo
  <2>2. CASE a <= i  BY <2>2
  <2>3. CASE i = e + 1 /\ t[e + 1].k \in S  BY <2>3
  <2> QED  BY <1>1, <1>2, <1>4, <2>1, <2>2, <2>3
<1>6. ASSUME NEW m \in Nat, e <= m PROVE Cuts(out, t, base, overlap, longest, m)
  <2>1. Cuts(out, t, base, overlap, longest, e) /\ e \in Nat /\ longest <= longest
    BY <1>1 DEF CutUpTo
  <2> QED  BY <1>1, <1>6, <2>1, CutsWiden
<1>7. CASE b >= a
  <2>1. a - 1 \in Nat /\ e <= a - 1  BY <1>1, <1>2, <1>4
  <2>2. Cuts(out, t, base, overlap, longest, a - 1)  BY <1>6, <2>1
  <2>3. a >= 1  BY <1>2, <1>4
  <2> QED  BY <1>2, <1>9, <1>4, <1>5, <1>7, <2>2, <2>3 DEF InLoop, a, b
<1>8. CASE ~(b >= a)
  <2>1. b = a - 1 /\ b \in Nat /\ e <= b  BY <1>1, <1>2, <1>4, <1>8
  <2>2. Cuts(out, t, base, overlap, longest, b)  BY <1>6, <2>1
  <2>3. \A i \in 1..b : t[i].k \notin S => InSome(out, t[i])
    <3>1. \A i \in 1..b : ~(a <= i)  BY <1>4, <2>1
    <3> QED  BY <1>5, <3>1
  <2>4. CutUpTo(out, t, base, overlap, longest, S, b)  BY <2>2, <2>3 DEF CutUpTo
  <2> QED  BY <1>9, <1>4, <1>8, <2>4 DEF InLoop, a, b
<1> QED  BY <1>7, <1>8

(* A part that is too long is split further. *)
LEMMA LongPart ==
  ASSUME NEW t, NEW base, NEW overlap, NEW longest, NEW limit, NEW S, NEW e, NEW out, NEW piece \in Spans,
         Setting(t, base, overlap, longest, limit), Follows(piece, t, S, e),
         CutUpTo(out, t, base, overlap, longest, S, e), Width(piece) > limit,
         NEW finer, Splits(finer, overlap, longest, S),
         NEW acc, acc = [out |-> out \o finer[<<SubSeq(t, piece.from, piece.to), base + piece.from - 1>>],
                         cur |-> Interval(1, 0)]
  PROVE  InLoop(acc, t, base, overlap, longest, limit, S, piece.to)
<1>1. /\ t \in Seq(Cell) /\ base \in Nat /\ overlap \in Nat /\ Len(t) \in Nat
      /\ longest \in Nat /\ limit \in Nat \ {0} /\ limit <= longest /\ e \in 0..Len(t)
  BY DEF Setting, Follows
<1> DEFINE a == piece.from
           b == piece.to
           u == SubSeq(t, a, b)
           ds == finer[<<u, base + a - 1>>]
<1>2. /\ a \in 1..(Len(t) + 1) /\ b \in (a - 1)..Len(t)
      /\ a = e + 1 \/ (a = e + 2 /\ t[e + 1].k \in S)
      /\ b - a + 1 > limit
  BY DEF Follows, Width
<1>3. acc.out = out \o ds /\ acc.cur = Interval(1, 0)  OBVIOUS
<1> HIDE DEF a, b
<1>4. /\ a \in 1..Len(t) /\ b \in a..Len(t) /\ e <= a - 1 /\ base + a - 1 \in Nat
      /\ a \in Int /\ b \in Int
  BY <1>1, <1>2
<1>5. /\ u \in Seq(Cell) /\ Len(u) = b - a + 1 /\ \A i \in 1..(b - a + 1) : u[i] = t[a + i - 1]
  BY <1>1, <1>4
<1>6. /\ Cuts(ds, u, base + a - 1, overlap, longest, b - a + 1)
      /\ \A i \in 1..(b - a + 1) : u[i].k \notin S => InSome(ds, u[i])
  <2> HIDE DEF u
  <2>1. u \in Seq(Cell) /\ base + a - 1 \in Nat  BY <1>4, <1>5
  <2> QED  BY <1>5, <2>1 DEF Splits
<1> HIDE DEF ds
<1>7. Cuts(out, t, base, overlap, longest, e) /\ e \in Nat  BY <1>1 DEF CutUpTo
<1>8. /\ Cuts(out \o ds, t, base, overlap, longest, b)
      /\ \A cell : InSome(out, cell) \/ InSome(ds, cell) => InSome(out \o ds, cell)
  BY <1>1, <1>4, <1>6, <1>7, CutsConcat
<1> HIDE DEF u
<1>9. ASSUME NEW i \in 1..b, t[i].k \notin S PROVE InSome(out \o ds, t[i])
  <2>1. CASE i \in 1..e  BY <1>8, <1>9, <2>1 DEF CutUpTo
  <2>2. CASE a <= i
    <3>1. i - a + 1 \in 1..(b - a + 1) /\ a + (i - a + 1) - 1 = i  BY <1>4, <2>2
    <3>2. u[i - a + 1] = t[i]  BY <1>5, <3>1
    <3> QED  BY <1>6, <1>8, <1>9, <3>1, <3>2
  <2>3. i \in 1..e \/ a <= i \/ (i = e + 1 /\ t[e + 1].k \in S)
    BY <1>1, <1>2, <1>4
  <2> QED  BY <1>9, <2>1, <2>2, <2>3
<1>10. CutUpTo(acc.out, t, base, overlap, longest, S, b)  BY <1>3, <1>8, <1>9 DEF CutUpTo
<1>11. acc.out \in Seq(Passage) /\ b \in 0..Len(t)
  <2>1. out \o ds \in Seq(Passage)  BY <1>8 DEF Cuts
  <2>2. b \in 0..Len(t)  BY <1>1, <1>4
  <2> QED  BY <1>3, <2>1, <2>2
<1>12. acc.cur \in Spans /\ ~(acc.cur.to >= acc.cur.from)  BY <1>3 DEF Interval, Spans
<1>13. acc \in [out : Seq(Passage), cur : Spans]
  <2>1. acc = [out |-> acc.out, cur |-> acc.cur]  OBVIOUS
  <2> QED  BY <1>11, <1>12, <2>1
<1> QED  BY <1>10, <1>11, <1>12, <1>13 DEF InLoop, b

(* Each turn takes one part more. *)
LEMMA TakeKeeps ==
  ASSUME NEW t, NEW base, NEW overlap, NEW longest, NEW limit, NEW S, NEW e, NEW acc, NEW piece \in Spans,
         Setting(t, base, overlap, longest, limit), Follows(piece, t, S, e),
         InLoop(acc, t, base, overlap, longest, limit, S, e),
         NEW finer, Splits(finer, overlap, longest, S)
  PROVE  InLoop(TakePart(t, limit, finer, base, acc, piece), t, base, overlap, longest, limit, S, piece.to)
<1> DEFINE open == acc.cur.to >= acc.cur.from
           joined == IF open THEN Interval(acc.cur.from, piece.to) ELSE piece
           new == TakePart(t, limit, finer, base, acc, piece)
           out == Flushed(t, base, acc)
<1>1. CutUpTo(out, t, base, overlap, longest, S, e)  BY FlushedCut
<1>2. /\ Fits(joined, limit) => new = [acc EXCEPT !.cur = joined]
      /\ ~Fits(joined, limit) /\ Width(piece) > limit
           => new = [out |-> out \o finer[<<SubSeq(t, piece.from, piece.to), base + piece.from - 1>>],
                     cur |-> Interval(1, 0)]
      /\ ~Fits(joined, limit) /\ ~(Width(piece) > limit) => new = [out |-> out, cur |-> piece]
  BY DEF TakePart, Flushed
<1> HIDE DEF new
<1>3. Width(piece) \in Int /\ limit \in Int  BY DEF Width, Spans, Setting
<1>4. /\ acc.cur \in Spans /\ acc.out \in Seq(Passage)
      /\ acc \in [out : Seq(Passage), cur : Spans]
  BY DEF InLoop
<1>5. CASE Fits(joined, limit) /\ open
  <2> DEFINE a == acc.cur.from
             b == piece.to
  <2>1. joined = [from |-> a, to |-> b] /\ joined \in Spans  BY <1>4, <1>5 DEF Interval, Spans
  <2>2. /\ t \in Seq(Cell) /\ Len(t) \in Nat /\ limit \in Nat \ {0} /\ e \in 0..Len(t)
        /\ piece.from \in Int /\ e < piece.from /\ piece.from - 1 <= b /\ b <= Len(t) /\ b \in Int
    BY DEF Setting, Follows, Spans
  <2>3. /\ a \in Int /\ a >= 1 /\ a <= e
        /\ Cuts(acc.out, t, base, overlap, longest, a - 1)
        /\ \A i \in 1..e : t[i].k \notin S => InSome(acc.out, t[i]) \/ a <= i
    BY <1>4, <1>5 DEF InLoop, Spans
  <2>4. new = [out |-> acc.out, cur |-> joined]
    <3>1. new = [acc EXCEPT !.cur = joined]  BY <1>2, <1>5
    <3> HIDE DEF joined
    <3> QED  BY <1>4, <3>1
  <2>5. b - a + 1 <= limit  BY <1>5, <2>1 DEF Fits, Width
  <2> HIDE DEF a, b, joined
  <2>6. /\ new \in [out : Seq(Passage), cur : Spans] /\ new.out = acc.out
        /\ new.cur.from = a /\ new.cur.to = b
    BY <1>4, <2>1, <2>4
  <2>7. b >= a /\ b \in 0..Len(t)  BY <2>2, <2>3
  <2>8. \A i \in 1..b : t[i].k \notin S => InSome(acc.out, t[i]) \/ a <= i
    <3> TAKE i \in 1..b
    <3>1. i \in 1..e \/ a <= i  BY <2>2, <2>3
    <3> QED  BY <2>3, <3>1
  <2> QED  BY <2>3, <2>5, <2>6, <2>7, <2>8 DEF InLoop, b, new
<1>6. CASE Fits(joined, limit) /\ ~open
  <2>1. joined = piece /\ out = acc.out  BY <1>6 DEF Flushed
  <2>2. new = [out |-> out, cur |-> piece]
    <3>1. new = [acc EXCEPT !.cur = piece]  BY <1>2, <1>6, <2>1
    <3> HIDE DEF out
    <3> QED  BY <1>4, <2>1, <3>1
  <2>3. Width(piece) <= limit  BY <1>6, <2>1 DEF Fits
  <2> HIDE DEF out
  <2> QED  BY <1>1, <2>2, <2>3, OpenPart DEF new
<1>7. CASE ~Fits(joined, limit) /\ Width(piece) > limit
  <2>1. new = [out |-> out \o finer[<<SubSeq(t, piece.from, piece.to), base + piece.from - 1>>],
               cur |-> Interval(1, 0)]
    BY <1>2, <1>7
  <2> HIDE DEF out
  <2> QED  BY <1>1, <1>7, <2>1, LongPart DEF new
<1>8. CASE ~Fits(joined, limit) /\ ~(Width(piece) > limit)
  <2>1. new = [out |-> out, cur |-> piece]  BY <1>2, <1>8
  <2>2. Width(piece) <= limit  BY <1>3, <1>8
  <2> HIDE DEF out
  <2> QED  BY <1>1, <2>1, <2>2, OpenPart DEF new
<1> QED  BY <1>5, <1>6, <1>7, <1>8

-----------------------------------------------------------------------------
(* The spans within a text. *)
Inside(t) == {v \in Spans : v.from >= 1 /\ v.to <= Len(t)}

(* The loop stays with chunks of the text. *)
LEMMA TakeTyped ==
  ASSUME NEW t \in Seq(Cell), NEW base \in Nat, NEW limit \in Nat \ {0}, NEW finer,
         \A u \in Seq(Cell), b \in Nat : finer[<<u, b>>] \in Seq(Passage),
         NEW acc \in [out : Seq(Passage), cur : Inside(t)], NEW piece \in Inside(t)
  PROVE  TakePart(t, limit, finer, base, acc, piece) \in [out : Seq(Passage), cur : Inside(t)]
<1> DEFINE open == acc.cur.to >= acc.cur.from
           joined == IF open THEN Interval(acc.cur.from, piece.to) ELSE piece
           out == Flushed(t, base, acc)
           long == SubSeq(t, piece.from, piece.to)
           more == finer[<<long, base + piece.from - 1>>]
           new == TakePart(t, limit, finer, base, acc, piece)
<1>1. /\ acc.out \in Seq(Passage) /\ acc.cur \in Inside(t) /\ Len(t) \in Nat
      /\ acc.cur.from \in Int /\ acc.cur.to \in Int /\ acc.cur.from >= 1 /\ acc.cur.to <= Len(t)
      /\ piece.from \in Int /\ piece.to \in Int /\ piece.from >= 1 /\ piece.to <= Len(t)
  BY DEF Inside, Spans
<1>2. /\ Fits(joined, limit) => new = [acc EXCEPT !.cur = joined]
      /\ ~Fits(joined, limit) /\ Width(piece) > limit
           => new = [out |-> out \o more, cur |-> Interval(1, 0)]
      /\ ~Fits(joined, limit) /\ ~(Width(piece) > limit) => new = [out |-> out, cur |-> piece]
  BY DEF TakePart, Flushed
<1> HIDE DEF new
<1>3. joined \in Inside(t)  BY <1>1 DEF Inside, Spans, Interval
<1>4. out \in Seq(Passage)
  <2>1. CASE open
    <3> DEFINE c == Chunk(t, acc.cur, base)
    <3>1. SubSeq(t, acc.cur.from, acc.cur.to) \in Seq(Cell)  BY <1>1, <2>1
    <3>2. base + acc.cur.from - 1 \in Int /\ base + acc.cur.to \in Int  BY <1>1
    <3>3. c \in Passage  BY <3>1, <3>2 DEF Chunk, Passage
    <3>4. out = Append(acc.out, c)  BY <2>1 DEF Flushed
    <3> HIDE DEF c, out
    <3> QED  BY <1>1, <3>3, <3>4
  <2>2. CASE ~open  BY <1>1, <2>2 DEF Flushed
  <2> QED  BY <2>1, <2>2
<1>5. Width(piece) > limit => out \o more \in Seq(Passage)
  <2> SUFFICES ASSUME Width(piece) > limit PROVE out \o more \in Seq(Passage)
    OBVIOUS
  <2>1. piece.from <= piece.to  BY <1>1 DEF Width
  <2>2. long \in Seq(Cell) /\ base + piece.from - 1 \in Nat  BY <1>1, <2>1
  <2> HIDE DEF long, out
  <2>3. more \in Seq(Passage)  BY <2>2
  <2> HIDE DEF more
  <2> QED  BY <1>4, <2>3
<1>6. Interval(1, 0) \in Inside(t)  BY <1>1 DEF Inside, Spans, Interval
<1>7. Width(piece) \in Int  BY <1>1 DEF Width
<1> HIDE DEF joined, out, more
<1>8. CASE Fits(joined, limit)
  <2>1. new = [acc EXCEPT !.cur = joined]  BY <1>2, <1>8
  <2>2. new = [out |-> acc.out, cur |-> joined]  BY <2>1
  <2> QED  BY <1>1, <1>3, <2>2 DEF new
<1>9. CASE ~Fits(joined, limit)
  <2>1. CASE Width(piece) > limit
    <3> DEFINE both == out \o more
    <3>1. new = [out |-> both, cur |-> Interval(1, 0)] /\ both \in Seq(Passage)
      BY <1>2, <1>5, <1>9, <2>1
    <3> HIDE DEF both
    <3> QED  BY <1>6, <3>1 DEF new
  <2>2. CASE ~(Width(piece) > limit)  BY <1>2, <1>4, <1>9, <2>2 DEF new
  <2> QED  BY <2>1, <2>2
<1> QED  BY <1>8, <1>9

(* What is cut with some separators is cut with more of them. *)
LEMMA SplitsWiden ==
  ASSUME NEW finer, NEW overlap \in Nat, NEW longest \in Nat, NEW S,
         Splits(finer, overlap, longest, S),
         NEW longer \in Nat, longest <= longer, NEW U, S \subseteq U
  PROVE  Splits(finer, overlap, longer, U)
<1> SUFFICES ASSUME NEW u \in Seq(Cell), NEW b \in Nat
    PROVE  /\ Cuts(finer[<<u, b>>], u, b, overlap, longer, Len(u))
           /\ \A i \in 1..Len(u) : u[i].k \notin U => InSome(finer[<<u, b>>], u[i])
  BY DEF Splits
<1> DEFINE cs == finer[<<u, b>>]
<1>1. /\ Cuts(cs, u, b, overlap, longest, Len(u))
      /\ \A i \in 1..Len(u) : u[i].k \notin S => InSome(cs, u[i])
  BY DEF Splits
<1> HIDE DEF cs
<1>2. Cuts(cs, u, b, overlap, longer, Len(u))  BY <1>1, CutsWiden
<1>3. \A i \in 1..Len(u) : u[i].k \notin U => InSome(cs, u[i])  BY <1>1
<1> QED  BY <1>2, <1>3 DEF cs

(* The parts of a text, joined as long as they fit, cut it up to the        *)
(* separator.                                                               *)
LEMMA GatherCuts ==
  ASSUME NEW t, NEW base, NEW overlap, NEW longest, NEW limit, NEW S, NEW sep \in S,
         Setting(t, base, overlap, longest, limit),
         NEW finer, Splits(finer, overlap, longest, S)
  PROVE  CutUpTo(Gather(t, Parts(t, sep), limit, finer, base), t, base, overlap, longest, S, Len(t))
<1> DEFINE ps == Parts(t, sep)
           n == Len(ps)
           A == [out : Seq(Passage), cur : Inside(t)]
           X == Inside(t)
           first == [out |-> <<>>, cur |-> Interval(1, 0)]
           Op(acc, piece) == TakePart(t, limit, finer, base, acc, piece)
           F == [x \in A \X X |-> Op(x[1], x[2])]
           G(h, q) == IF q = {} THEN first ELSE Op(h[q \ {Max(q)}], ps[Max(q)])
           it == CHOOSE h : h = [q \in SUBSET DOMAIN ps |-> G(h, q)]
<1>0. /\ t \in Seq(Cell) /\ base \in Nat /\ overlap \in Nat /\ Len(t) \in Nat
      /\ longest \in Nat /\ limit \in Nat \ {0}
  BY DEF Setting
<1>1. Gather(t, ps, limit, finer, base) = Flushed(t, base, it[DOMAIN ps])
  BY DEF Gather, Flushed, FoldLeft, MapThenFoldSet, TakePart
<1>2. /\ n \in Nat \ {0} /\ DOMAIN ps = 1..n
      /\ \A j \in 1..n : /\ ps[j] \in Spans
                         /\ ps[j].from \in 1..(Len(t) + 1) /\ ps[j].to \in (ps[j].from - 1)..Len(t)
                         /\ j = 1 => ps[j].from = 1
                         /\ j > 1 => ps[j].from = ps[j - 1].to + 2 /\ t[ps[j - 1].to + 1].k = sep
      /\ ps[n].to = Len(t)
  <2> HIDE DEF ps
  <2>1. /\ n \in Nat \ {0} /\ DOMAIN ps = 1..n /\ ps \in Seq([from : Int, to : Int])
        /\ \A j \in 1..n :
                         /\ ps[j].from \in 1..(Len(t) + 1) /\ ps[j].to \in (ps[j].from - 1)..Len(t)
                         /\ j = 1 => ps[j].from = 1
                         /\ j > 1 => ps[j].from = ps[j - 1].to + 2 /\ t[ps[j - 1].to + 1].k = sep
        /\ ps[n].to = Len(t)
    BY <1>0, PartsAdjoin DEF ps
  <2>2. \A j \in 1..n : ps[j] \in [from : Int, to : Int]
    <3> DEFINE Y == [from : Int, to : Int]
    <3>1. n = Len(ps) /\ ps \in Seq(Y)  BY <2>1
    <3> HIDE DEF Y, n
    <3>2. \A j \in 1..n : ps[j] \in Y  BY <3>1
    <3> QED  BY <3>2 DEF Y
  <2> QED  BY <2>1, <2>2 DEF Spans
<1> HIDE DEF ps, n
<1>3. \A j \in 1..n : ps[j] \in X  BY <1>0, <1>2 DEF Inside
<1>4. \A u \in Seq(Cell), b \in Nat : finer[<<u, b>>] \in Seq(Passage)  BY DEF Splits, Cuts
<1>5. \A acc \in A, piece \in X : Op(acc, piece) \in A  BY <1>0, <1>4, TakeTyped
<1>6. first \in A
  <2>1. Interval(1, 0) \in X  BY <1>0 DEF Inside, Spans, Interval
  <2>2. <<>> \in Seq(Passage)  OBVIOUS
  <2> QED  BY <2>1, <2>2
<1> HIDE DEF A, X, first, Op
<1>7. F \in [A \X X -> A] /\ \A acc \in A, piece \in X : F[<<acc, piece>>] = Op(acc, piece)
  BY <1>5
<1> HIDE DEF F
<1>8. PICK h \in [SUBSET (1..n) -> A] : IsFold(h, F, first, ps)
  BY <1>2, <1>3, <1>6, <1>7, FoldExists
<1>9. h = [q \in SUBSET DOMAIN ps |-> G(h, q)]
  <2>1. ASSUME NEW q \in SUBSET (1..n), q # {}
        PROVE  F[<<h[q \ {Max(q)}], ps[Max(q)]>>] = Op(h[q \ {Max(q)}], ps[Max(q)])
    <3>1. Max(q) \in 1..n  BY <1>2, <2>1, MaxOfIndices
    <3>2. q \ {Max(q)} \in SUBSET (1..n)  OBVIOUS
    <3> QED  BY <1>3, <1>7, <1>8, <3>1, <3>2
  <2> QED  BY <1>2, <1>8, <2>1 DEF IsFold
<1>10. it = [q \in SUBSET DOMAIN ps |-> G(it, q)]  BY <1>9
<1> HIDE DEF it
<1>11. \A q \in SUBSET (1..n) : it[q] = G(it, q)  BY <1>2, <1>10
<1>12. StepsBy(it, A, X, F, first, ps, n)
  <2>1. {} \in SUBSET (1..n)  OBVIOUS
  <2>2. ASSUME NEW q \in SUBSET (1..n), q # {}, it[q \ {Max(q)}] \in A
        PROVE  it[q] = F[<<it[q \ {Max(q)}], ps[Max(q)]>>]
    <3>1. Max(q) \in 1..n  BY <1>2, <2>2, MaxOfIndices
    <3> QED  BY <1>3, <1>7, <1>11, <2>2, <3>1
  <2> QED  BY <1>2, <1>3, <1>6, <1>7, <1>11, <2>1, <2>2 DEF StepsBy
<1>13. PICK g : IsPrefixFold(g, A, F, first, ps, n) /\ g[n] = it[1..n]
  BY <1>12, PrefixesOf
<1> DEFINE EndAt(i) == IF i = 0 THEN 0 ELSE ps[i].to
           T == {i \in 0..n : InLoop(g[i], t, base, overlap, longest, limit, S, EndAt(i))}
<1>14. 0 \in T
  <2>1. g[0] = first  BY <1>13 DEF IsPrefixFold
  <2>2. first.out = <<>> /\ ~(first.cur.to >= first.cur.from)
        /\ first \in [out : Seq(Passage), cur : Spans]
    <3>1. <<>> \in Seq(Passage)  OBVIOUS
    <3> QED  BY <3>1 DEF first, Interval, Spans
  <2>3. CutUpTo(<<>>, t, base, overlap, longest, S, 0)
    <3>1. <<>> \in Seq(Passage) /\ Len(<<>>) = 0  OBVIOUS
    <3> QED  BY <3>1 DEF CutUpTo, Cuts
  <2>4. EndAt(0) = 0 /\ 0 \in 0..Len(t) /\ 0 \in 0..n  BY <1>0, <1>2
  <2> HIDE DEF EndAt
  <2>5. InLoop(first, t, base, overlap, longest, limit, S, 0)  BY <2>2, <2>3, <2>4 DEF InLoop
  <2> QED  BY <2>1, <2>4, <2>5
<1>15. ASSUME NEW i \in 0..n, i \in T, i < n PROVE i + 1 \in T
  <2>1. /\ i + 1 \in 1..n /\ i + 1 \in 0..n /\ (i + 1) - 1 = i /\ i + 1 # 0 /\ i \in Nat
        /\ i # 0 => i \in 1..n /\ i + 1 > 1
    BY <1>2, <1>15
  <2> DEFINE piece == ps[i + 1]
  <2>2. g[i] \in A /\ g[i + 1] = F[<<g[i], piece>>]
    <3>1. \A j \in 0..n : g[j] \in A  BY <1>13 DEF IsPrefixFold
    <3>2. g[i + 1] = F[<<g[(i + 1) - 1], ps[i + 1]>>]  BY <1>13, <2>1 DEF IsPrefixFold
    <3> QED  BY <2>1, <3>1, <3>2
  <2>3. piece \in X /\ piece \in Spans  BY <1>2, <1>3, <2>1
  <2>4. g[i + 1] = TakePart(t, limit, finer, base, g[i], piece)
    <3> HIDE DEF piece
    <3> QED  BY <1>7, <2>2, <2>3 DEF Op
  <2>5. Follows(piece, t, S, EndAt(i))
    <3>1. CASE i = 0
      <4>1. ps[1].from = 1 /\ ps[1].to \in 0..Len(t)  BY <1>2, <2>1, <3>1
      <4> QED  BY <1>0, <3>1, <4>1 DEF Follows
    <3>2. CASE i # 0
      <4>1. /\ ps[i].from \in 1..(Len(t) + 1) /\ ps[i].to \in (ps[i].from - 1)..Len(t)
            /\ piece.from \in 1..(Len(t) + 1) /\ piece.to \in (piece.from - 1)..Len(t)
        BY <1>2, <2>1, <3>2
      <4>2. piece.from = ps[i].to + 2 /\ t[ps[i].to + 1].k = sep
        <5>1. /\ ps[i + 1].from = ps[(i + 1) - 1].to + 2
              /\ t[ps[(i + 1) - 1].to + 1].k = sep
          BY <1>2, <2>1, <3>2
        <5> QED  BY <2>1, <5>1
      <4>3. EndAt(i) = ps[i].to /\ EndAt(i) \in 0..Len(t)  BY <1>0, <3>2, <4>1
      <4> HIDE DEF EndAt, piece
      <4> QED  BY <4>1, <4>2, <4>3 DEF Follows
    <3> QED  BY <3>1, <3>2
  <2>6. InLoop(g[i], t, base, overlap, longest, limit, S, EndAt(i))  BY <1>15
  <2>7. EndAt(i + 1) = piece.to  BY <2>1
  <2> HIDE DEF EndAt, piece
  <2>8. InLoop(g[i + 1], t, base, overlap, longest, limit, S, piece.to)
    BY <2>3, <2>4, <2>5, <2>6, TakeKeeps
  <2> QED  BY <2>1, <2>7, <2>8
<1>16. n \in T
  <2> HIDE DEF T
  <2>1. 0..n \subseteq T  BY <1>2, <1>14, <1>15, UpTo
  <2> QED  BY <1>2, <2>1
<1>17. InLoop(g[n], t, base, overlap, longest, limit, S, Len(t))  BY <1>2, <1>16
<1>18. CutUpTo(Flushed(t, base, g[n]), t, base, overlap, longest, S, Len(t))
  BY <1>17, FlushedCut
<1> QED  BY <1>1, <1>2, <1>13, <1>18 DEF ps

-----------------------------------------------------------------------------
(* Windows lose nothing. *)
LEMMA UnseparatedCuts ==
  ASSUME NEW width \in Nat \ {0}, NEW overlap \in 0..(width - 1)
  PROVE  Splits(Unseparated(width, overlap), overlap, width, {})
<1> SUFFICES ASSUME NEW u \in Seq(Cell), NEW b \in Nat
    PROVE  /\ Cuts(Unseparated(width, overlap)[<<u, b>>], u, b, overlap, width, Len(u))
           /\ \A i \in 1..Len(u) : InSome(Unseparated(width, overlap)[<<u, b>>], u[i])
  BY DEF Splits
<1>1. Unseparated(width, overlap)[<<u, b>>] =
        IF u = <<>> THEN <<>> ELSE Windows(u, width, overlap, b)
  BY DEF Unseparated
<1>2. CASE u = <<>>
  <2>1. <<>> \in Seq(Passage) /\ Len(<<>>) = 0  OBVIOUS
  <2>2. Cuts(<<>>, <<>>, b, overlap, width, 0)  BY <2>1 DEF Cuts
  <2> QED  BY <1>1, <1>2, <2>1, <2>2
<1>3. CASE u # <<>>  BY <1>1, <1>3, WindowsCut
<1> QED  BY <1>2, <1>3

(* One more separator: the chunks are longer by an overlap at most, and     *)
(* only the separator may be lost.                                          *)
LEMMA SeparatedCuts ==
  ASSUME NEW limit \in Nat \ {0}, NEW overlap \in Nat, NEW longest \in Nat, limit <= longest,
         NEW S, NEW sep \in CellKinds, NEW finer, Splits(finer, overlap, longest, S)
  PROVE  Splits(Separated(finer, sep, limit, overlap), overlap, longest + Extra(overlap),
                S \union {sep})
<1> DEFINE U == S \union {sep}
           longer == longest + Extra(overlap)
<1>1. longer \in Nat /\ longest <= longer  BY DEF Extra
<1> HIDE DEF longer
<1>2. Splits(finer, overlap, longer, U) /\ Splits(finer, overlap, longest, U)
  BY <1>1, SplitsWiden
<1> SUFFICES ASSUME NEW u \in Seq(Cell), NEW b \in Nat
    PROVE  /\ Cuts(Separated(finer, sep, limit, overlap)[<<u, b>>], u, b, overlap, longer, Len(u))
           /\ \A i \in 1..Len(u) :
                u[i].k \notin U => InSome(Separated(finer, sep, limit, overlap)[<<u, b>>], u[i])
  BY DEF Splits, longer
<1> DEFINE cs == Gather(u, Parts(u, sep), limit, finer, b)
<1>3. Separated(finer, sep, limit, overlap)[<<u, b>>] =
        IF Len(u) > limit /\ Holds(u, sep) THEN Overlapped(cs, overlap, sep) ELSE finer[<<u, b>>]
  BY DEF Separated
<1>4. CASE Len(u) > limit /\ Holds(u, sep)
  <2>1. Setting(u, b, overlap, longest, limit) /\ sep \in U  BY DEF Setting
  <2>2. CutUpTo(cs, u, b, overlap, longest, U, Len(u))  BY <1>2, <2>1, GatherCuts
  <2> HIDE DEF cs
  <2>3. /\ Cuts(cs, u, b, overlap, longest, Len(u))
        /\ \A i \in 1..Len(u) : u[i].k \notin U => InSome(cs, u[i])
    BY <2>2 DEF CutUpTo
  <2>4. /\ Cuts(Overlapped(cs, overlap, sep), u, b, overlap, longer, Len(u))
        /\ \A cell : InSome(cs, cell) => InSome(Overlapped(cs, overlap, sep), cell)
    <3>1. Len(u) \in Nat  OBVIOUS
    <3> QED  BY <2>3, <3>1, OverlappedCuts DEF longer
  <2> QED  BY <1>3, <1>4, <2>3, <2>4
<1>5. CASE ~(Len(u) > limit /\ Holds(u, sep))
  <2>1. /\ Cuts(finer[<<u, b>>], u, b, overlap, longer, Len(u))
        /\ \A i \in 1..Len(u) : u[i].k \notin U => InSome(finer[<<u, b>>], u[i])
    BY <1>2 DEF Splits
  <2> QED  BY <1>3, <1>5, <2>1
<1> QED  BY <1>4, <1>5

(* The length that a chunk may have after k separators. *)
Longest(width, overlap, k) == width + k * Extra(overlap)

(* Each separator adds what an overlap may add.                             *)
LEMMA LongestGrows ==
  ASSUME NEW width \in Nat, NEW overlap \in Nat, NEW k \in Nat
  PROVE  /\ Longest(width, overlap, k) \in Nat /\ width <= Longest(width, overlap, k)
         /\ Longest(width, overlap, k + 1) = Longest(width, overlap, k) + Extra(overlap)
         /\ Longest(width, overlap, 0) = width
<1>1. Extra(overlap) \in Nat  BY DEF Extra
<1> DEFINE x == Extra(overlap)
           y == k * x
<1> HIDE DEF x
<1>2. y \in Nat /\ (k + 1) * x = y + x /\ 0 * x = 0  BY <1>1 DEF x
<1>3. Longest(width, overlap, k) = width + y /\ Longest(width, overlap, k + 1) = width + (k + 1) * x
      /\ Longest(width, overlap, 0) = width + 0 * x
  BY DEF Longest, x
<1> HIDE DEF y
<1>4. x \in Nat  BY <1>1 DEF x
<1> QED  BY <1>2, <1>3, <1>4 DEF x

(* split_text_with_positions, whatever the text: chunks that follow on one  *)
(* another and lose nothing but separators, each longer than its size by at *)
(* most an overlap for each separator.                                      *)
LEMMA SplitterCuts ==
  ASSUME NEW width \in Nat \ {0}, NEW overlap \in Nat, NEW seps \in Seq(CellKinds)
  PROVE  Splits(Splitter(width, overlap, seps), SafeOverlap(width, overlap),
                Longest(width, SafeOverlap(width, overlap), Len(seps)), ToSet(seps))
<1> DEFINE safe == SafeOverlap(width, overlap)
           P == Seq(Cell) \X Nat
           n == Len(seps)
           rs == Reverse(seps)
           Fine(f, k) == Splits(f, safe, Longest(width, safe, k), {rs[i] : i \in 1..k})
           A == {f \in [P -> Seq(Passage)] : \E k \in Nat, S \in SUBSET CellKinds : Splits(f, safe, Longest(width, safe, k), S)}
           first == Unseparated(width, safe)
           Op(finer, sep) == Separated(finer, sep, width, safe)
           F == [x \in A \X CellKinds |-> Op(x[1], x[2])]
           G(h, q) == IF q = {} THEN first ELSE Op(h[q \ {Max(q)}], rs[Max(q)])
           it == CHOOSE h : h = [q \in SUBSET DOMAIN rs |-> G(h, q)]
<1>1. safe \in Nat /\ safe \in 0..(width - 1)
  BY DEF SafeOverlap, Smaller
<1>2. n \in Nat /\ DOMAIN rs = 1..n /\ (\A i \in 1..n : rs[i] \in CellKinds)
      /\ {rs[i] : i \in 1..n} = ToSet(seps)
  <2>1. n \in Nat /\ DOMAIN seps = 1..n /\ \A i \in 1..n : seps[i] \in CellKinds  OBVIOUS
  <2>2. rs = [i \in 1..n |-> seps[(n - i) + 1]]  BY DEF Reverse
  <2> HIDE DEF rs, n
  <2>3. \A i \in 1..n : (n - i) + 1 \in 1..n /\ (n - ((n - i) + 1)) + 1 = i  BY <2>1
  <2>4. \A i \in 1..n : rs[i] = seps[(n - i) + 1]  BY <2>2
  <2>5. \A i \in 1..n : seps[i] = rs[(n - i) + 1]
    <3> TAKE i \in 1..n
    <3> QED  BY <2>3, <2>4
  <2>6. ToSet(seps) = {seps[i] : i \in 1..n}  BY <2>1 DEF ToSet
  <2> QED  BY <2>1, <2>2, <2>3, <2>4, <2>5, <2>6
<1>3. Splitter(width, overlap, seps) = it[DOMAIN rs]
  BY DEF Splitter, FoldLeft, MapThenFoldSet
<1> HIDE DEF it, safe, n, rs
<1>4. ASSUME NEW f, DOMAIN f = P, f = [p \in P |-> f[p]], NEW k \in Nat, NEW S \in SUBSET CellKinds,
             Splits(f, safe, Longest(width, safe, k), S)
      PROVE  f \in A
  <2>1. ASSUME NEW p \in P PROVE f[p] \in Seq(Passage)
    <3>1. p[1] \in Seq(Cell) /\ p[2] \in Nat /\ p = <<p[1], p[2]>>  OBVIOUS
    <3>2. f[<<p[1], p[2]>>] \in Seq(Passage)  BY <1>4, <3>1 DEF Splits, Cuts
    <3> QED  BY <3>1, <3>2
  <2>2. f \in [P -> Seq(Passage)]
    <3> HIDE DEF P
    <3> QED  BY <1>4, <2>1
  <2> HIDE DEF P
  <2> QED  BY <1>4, <2>2
<1>5. first \in A /\ Fine(first, 0)
  <2>1. Splits(first, safe, width, {})  BY <1>1, UnseparatedCuts
  <2>2. Longest(width, safe, 0) = width  BY <1>1, LongestGrows
  <2>3. DOMAIN first = P /\ first = [p \in P |-> first[p]]  BY DEF Unseparated
  <2> HIDE DEF first, A, P
  <2>4. first \in A  BY <1>4, <2>1, <2>2, <2>3
  <2>5. {rs[i] : i \in 1..0} = {}  OBVIOUS
  <2> QED  BY <2>1, <2>2, <2>4, <2>5
<1>6. ASSUME NEW finer, NEW sep \in CellKinds, NEW k \in Nat, NEW S,
             Splits(finer, safe, Longest(width, safe, k), S)
      PROVE  Splits(Op(finer, sep), safe, Longest(width, safe, k + 1), S \union {sep})
  <2> DEFINE longest == Longest(width, safe, k)
  <2>1. longest \in Nat /\ width <= longest
        /\ Longest(width, safe, k + 1) = longest + Extra(safe)
    BY <1>1, LongestGrows
  <2> HIDE DEF longest
  <2>2. Splits(finer, safe, longest, S)  BY <1>6 DEF longest
  <2>3. Splits(Separated(finer, sep, width, safe), safe, longest + Extra(safe), S \union {sep})
    BY <1>1, <2>1, <2>2, SeparatedCuts
  <2> QED  BY <2>1, <2>3
<1>7. \A f \in A, sep \in CellKinds : Op(f, sep) \in A
  <2> SUFFICES ASSUME NEW f \in A, NEW sep \in CellKinds PROVE Op(f, sep) \in A
    OBVIOUS
  <2>1. PICK k \in Nat, S \in SUBSET CellKinds : Splits(f, safe, Longest(width, safe, k), S)  OBVIOUS
  <2>2. Splits(Op(f, sep), safe, Longest(width, safe, k + 1), S \union {sep})  BY <1>6, <2>1
  <2>3. DOMAIN Op(f, sep) = P /\ Op(f, sep) = [p \in P |-> Op(f, sep)[p]]  BY DEF Separated
  <2>4. k + 1 \in Nat /\ S \union {sep} \in SUBSET CellKinds  OBVIOUS
  <2> HIDE DEF A, Op, P
  <2> QED  BY <1>4, <2>2, <2>3, <2>4
<1> HIDE DEF A, P, first, Op
<1>8. F \in [A \X CellKinds -> A] /\ \A f \in A, sep \in CellKinds : F[<<f, sep>>] = Op(f, sep)
  BY <1>7
<1> HIDE DEF F
<1>9. PICK h \in [SUBSET (1..n) -> A] : IsFold(h, F, first, rs)
  BY <1>2, <1>5, <1>8, FoldExists
<1>10. h = [q \in SUBSET DOMAIN rs |-> G(h, q)]
  <2>1. ASSUME NEW q \in SUBSET (1..n), q # {}
        PROVE  F[<<h[q \ {Max(q)}], rs[Max(q)]>>] = Op(h[q \ {Max(q)}], rs[Max(q)])
    <3>1. Max(q) \in 1..n  BY <1>2, <2>1, MaxOfIndices
    <3>2. q \ {Max(q)} \in SUBSET (1..n)  OBVIOUS
    <3> QED  BY <1>2, <1>8, <1>9, <3>1, <3>2
  <2> QED  BY <1>2, <1>9, <2>1 DEF IsFold
<1>11. it = [q \in SUBSET DOMAIN rs |-> G(it, q)]  BY <1>10 DEF it
<1>12. \A q \in SUBSET (1..n) : it[q] = G(it, q)  BY <1>2, <1>11
<1>13. StepsBy(it, A, CellKinds, F, first, rs, n)
  <2>1. {} \in SUBSET (1..n)  OBVIOUS
  <2>2. ASSUME NEW q \in SUBSET (1..n), q # {}, it[q \ {Max(q)}] \in A
        PROVE  it[q] = F[<<it[q \ {Max(q)}], rs[Max(q)]>>]
    <3>1. Max(q) \in 1..n  BY <1>2, <2>2, MaxOfIndices
    <3> QED  BY <1>2, <1>8, <1>12, <2>2, <3>1
  <2> QED  BY <1>2, <1>5, <1>8, <1>12, <2>1, <2>2 DEF StepsBy
<1>14. PICK g : IsPrefixFold(g, A, F, first, rs, n) /\ g[n] = it[1..n]
  BY <1>13, PrefixesOf
<1> DEFINE T == {i \in 0..n : Fine(g[i], i)}
<1>15. 0 \in T
  <2>1. g[0] = first /\ 0 \in 0..n  BY <1>2, <1>14 DEF IsPrefixFold
  <2> HIDE DEF Fine
  <2> QED  BY <1>5, <2>1
<1>16. ASSUME NEW i \in 0..n, i \in T, i < n PROVE i + 1 \in T
  <2>1. i + 1 \in 1..n /\ i + 1 \in 0..n /\ (i + 1) - 1 = i /\ i \in Nat  BY <1>2, <1>16
  <2>2. g[i] \in A /\ g[i + 1] = F[<<g[i], rs[i + 1]>>]
    <3>1. \A j \in 0..n : g[j] \in A  BY <1>14 DEF IsPrefixFold
    <3>2. g[i + 1] = F[<<g[(i + 1) - 1], rs[i + 1]>>]  BY <1>14, <2>1 DEF IsPrefixFold
    <3> QED  BY <2>1, <3>1, <3>2
  <2>3. rs[i + 1] \in CellKinds  BY <1>2, <2>1
  <2>4. g[i + 1] = Op(g[i], rs[i + 1])  BY <1>8, <2>2, <2>3
  <2>5. {rs[j] : j \in 1..(i + 1)} = {rs[j] : j \in 1..i} \union {rs[i + 1]}
    <3>1. 1..(i + 1) = (1..i) \union {i + 1}  BY <2>1
    <3> QED  BY <3>1
  <2>6. Fine(g[i], i)  BY <1>16
  <2>7. Fine(g[i + 1], i + 1)  BY <1>6, <2>1, <2>3, <2>4, <2>5, <2>6
  <2> HIDE DEF Fine
  <2> QED  BY <2>1, <2>7
<1>17. n \in T
  <2> HIDE DEF T
  <2>1. 0..n \subseteq T  BY <1>2, <1>15, <1>16, UpTo
  <2> QED  BY <1>2, <2>1
<1>18. Fine(g[n], n)  BY <1>17
<1> QED  BY <1>2, <1>3, <1>14, <1>18 DEF safe, n

(* split_text_with_positions, for one text. *)
LEMMA SplitCuts ==
  ASSUME NEW t \in Seq(Cell), NEW width \in Nat \ {0}, NEW overlap \in Nat,
         NEW seps \in Seq(CellKinds), NEW base \in Nat
  PROVE  LET safe == SafeOverlap(width, overlap)
             cs == Split(t, width, overlap, seps, base)
         IN /\ Cuts(cs, t, base, safe, Longest(width, safe, Len(seps)), Len(t))
            /\ \A i \in 1..Len(t) : t[i].k \notin ToSet(seps) => InSome(cs, t[i])
BY SplitterCuts DEF Splits, Split

-----------------------------------------------------------------------------
(* What is joined keeps its elements. *)
LEMMA FlattenHas ==
  ASSUME NEW X, NEW s \in Seq(Seq(X))
  PROVE  /\ FlattenSeq(s) \in Seq(X)
         /\ \A j \in 1..Len(s) : \A x \in 1..Len(s[j]) :
              \E y \in 1..Len(FlattenSeq(s)) : FlattenSeq(s)[y] = s[j][x]
<1> DEFINE n == Len(s)
           A == Seq(X)
<1>1. PICK g : /\ g[0] = <<>> /\ \A i \in 0..n : g[i] \in Seq(X)
               /\ \A i \in 1..n : g[i] = g[i - 1] \o s[i]
               /\ FlattenSeq(s) = g[n]
  BY FlattenPrefixes
<1>2. n \in Nat /\ \A i \in 1..n : s[i] \in A
  <2> HIDE DEF A
  <2>1. s \in Seq(A)  BY DEF A
  <2> QED  BY <2>1
<1> HIDE DEF n
<1> DEFINE T == {i \in 0..n : \A j \in 1..i : \A x \in 1..Len(s[j]) :
                                \E y \in 1..Len(g[i]) : g[i][y] = s[j][x]}
<1>3. 0 \in T  BY <1>2
<1>4. ASSUME NEW i \in 0..n, i \in T, i < n PROVE i + 1 \in T
  <2>1. i + 1 \in 1..n /\ i + 1 \in 0..n /\ (i + 1) - 1 = i /\ i \in Nat  BY <1>2, <1>4
  <2> DEFINE p == g[i]
             q == s[i + 1]
             r == g[i + 1]
  <2>2. p \in Seq(X) /\ q \in Seq(X) /\ r = p \o q  BY <1>1, <1>2, <2>1
  <2> HIDE DEF p, q, r
  <2>3. /\ Len(p) \in Nat /\ Len(q) \in Nat /\ Len(r) = Len(p) + Len(q)
        /\ \A y \in 1..Len(p) : y \in 1..Len(r) /\ r[y] = p[y]
        /\ \A x \in 1..Len(q) : r[Len(p) + x] = q[x]
    BY <2>2
  <2>4. ASSUME NEW j \in 1..(i + 1), NEW x \in 1..Len(s[j])
        PROVE  \E y \in 1..Len(r) : r[y] = s[j][x]
    <3>1. CASE j \in 1..i
      <4>1. PICK y \in 1..Len(p) : p[y] = s[j][x]  BY <1>4, <2>4, <3>1 DEF p
      <4>2. y \in 1..Len(r) /\ r[y] = p[y]  BY <2>3, <4>1
      <4> QED  BY <4>1, <4>2
    <3>2. CASE j = i + 1
      <4>1. x \in 1..Len(q)  BY <2>4, <3>2 DEF q
      <4>2. Len(p) + x \in 1..Len(r) /\ r[Len(p) + x] = q[x]  BY <2>3, <4>1
      <4> QED  BY <3>2, <4>2 DEF q
    <3> QED  BY <2>1, <3>1, <3>2
  <2> QED  BY <2>1, <2>4 DEF r
<1>5. n \in T
  <2> HIDE DEF T
  <2>1. 0..n \subseteq T  BY <1>2, <1>3, <1>4, UpTo
  <2> QED  BY <1>2, <2>1
<1>6. \A j \in 1..n : \A x \in 1..Len(s[j]) : \E y \in 1..Len(g[n]) : g[n][y] = s[j][x]
  BY <1>5
<1>7. FlattenSeq(s) \in Seq(X) /\ n \in 0..n  BY <1>1, <1>2
<1> DEFINE h == FlattenSeq(s)
<1>8. h = g[n] /\ h \in Seq(X)  BY <1>1, <1>7
<1> HIDE DEF h
<1>9. \A j \in 1..n : \A x \in 1..Len(s[j]) : \E y \in 1..Len(h) : h[y] = s[j][x]
  BY <1>6, <1>8, Zenon
<1> QED  BY <1>8, <1>9, Zenon DEF h, n

(* The first and the last of some places. *)
LEMMA EndsOf ==
  ASSUME NEW n \in Nat, NEW S \in SUBSET (1..n), S # {}
  PROVE  /\ Least(S) \in S /\ \A y \in S : Least(S) <= y
         /\ Most(S) \in S /\ \A y \in S : y <= Most(S)
<1>1. S \subseteq Nat  OBVIOUS
<1>2. \E x \in S : \A y \in S : x <= y  BY <1>1, LeastNumber
<1>3. Least(S) \in S /\ \A y \in S : Least(S) <= y  BY <1>2 DEF Least
<1> DEFINE D == {n - i : i \in S}
<1>4. D \subseteq Nat /\ D # {}
  <2>1. \A i \in S : n - i \in Nat  OBVIOUS
  <2>2. PICK i : i \in S  OBVIOUS
  <2>3. n - i \in D  BY <2>2
  <2> QED  BY <2>1, <2>3
<1>5. PICK d \in D : \A y \in D : d <= y  BY <1>4, LeastNumber
<1>6. PICK m \in S : d = n - m  OBVIOUS
<1>7. \A y \in S : m >= y
  <2> TAKE y \in S
  <2>1. n - y \in D  OBVIOUS
  <2>2. n - m <= n - y  BY <1>5, <1>6, <2>1
  <2>3. n \in Int /\ m \in Int /\ y \in Int  OBVIOUS
  <2> QED  BY <2>2, <2>3
<1>8. Most(S) \in S /\ \A y \in S : Most(S) >= y  BY <1>7 DEF Most
<1>9. \A y \in S : y <= Most(S)
  <2> TAKE y \in S
  <2>1. Most(S) \in S /\ Most(S) >= y  BY <1>8
  <2> DEFINE m2 == Most(S)
  <2> HIDE DEF m2
  <2>2. m2 \in 1..n /\ y \in 1..n /\ m2 >= y  BY <2>1 DEF m2
  <2>3. y <= m2  BY <2>2
  <2> QED  BY <2>3 DEF m2
<1> QED  BY <1>3, <1>8, <1>9

(* Some separators make a chunk no longer than by their overlaps. *)
LEMMA LongestWithin ==
  ASSUME NEW width \in Nat \ {0}, NEW overlap \in Nat, NEW k \in Nat, NEW m \in Nat, k <= m
  PROVE  Longest(width, SafeOverlap(width, overlap), k) <= width + m * (overlap + 1)
<1> DEFINE safe == SafeOverlap(width, overlap)
           x == Extra(safe)
           y == overlap + 1
<1>1. x \in Nat /\ y \in Nat /\ x <= y
  BY DEF Extra, SafeOverlap, Smaller
<1> HIDE DEF x, y
<1>2. (m - k) * y >= 0 /\ k * (y - x) >= 0
  <2>1. m - k \in Nat /\ y - x \in Nat  BY <1>1
  <2>2. \A p, q \in Nat : p * q >= 0  OBVIOUS
  <2> QED  BY <1>1, <2>1, <2>2
<1>3. (m - k) * y = m * y - k * y /\ k * (y - x) = k * y - k * x  BY <1>1
<1> DEFINE a == m * y
           b == k * y
           c == k * x
<1>4. a \in Int /\ b \in Int /\ c \in Int  BY <1>1
<1>5. Longest(width, safe, k) = width + c  BY DEF Longest, x
<1>6. a - b >= 0 /\ b - c >= 0  BY <1>2, <1>3
<1> HIDE DEF a, b, c
<1>7. width + c <= width + a  BY <1>4, <1>6
<1> QED  BY <1>5, <1>7 DEF a, y

-----------------------------------------------------------------------------
(* The chunks of a file *)

CellAt(doc, i) == [k |-> doc[i], at |-> i]

(* The most that a chunk may say. *)
MostOf(text, cut) ==
  (IF Holds(text, "open") THEN Larger(MaxTable, cut.size) ELSE cut.size)
    + Larger(Len(Separators), Len(TableSeparators)) * (cut.overlap + 1)

(* A chunk of a document; a name may move it by `slack`. *)
Proper(doc, slack, cut) ==
  {c \in Passage :
     /\ c.text # <<>> /\ Len(c.text) <= MostOf(c.text, cut)
     /\ -cut.overlap <= c.start /\ c.start < c.end /\ c.end <= Len(doc) + slack
     /\ Last(c.text).at > 0 => c.end - Last(c.text).at \in 0..slack}

(* A chunk with these bounds is one of the document.                        *)
LEMMA ProperHas ==
  ASSUME NEW doc, NEW slack, NEW cut, NEW c, c \in Passage,
         c.text # <<>>, Len(c.text) <= MostOf(c.text, cut),
         -cut.overlap <= c.start, c.start < c.end, c.end <= Len(doc) + slack,
         Last(c.text).at > 0 => c.end - Last(c.text).at \in 0..slack
  PROVE  c \in Proper(doc, slack, cut)
BY DEF Proper

(* The bound on the length, however the text was cut. *)
LEMMA MostBounds ==
  ASSUME NEW cut \in Cutting, NEW text, NEW k \in {Len(Separators), Len(TableSeparators)}
  PROVE  /\ Longest(cut.size, SafeOverlap(cut.size, cut.overlap), k) <= MostOf(text, cut)
         /\ Longest(cut.size, SafeOverlap(cut.size, cut.overlap), k) \in Nat
         /\ MostOf(text, cut) \in Nat
         /\ Holds(text, "open") => MaxTable <= MostOf(text, cut)
<1> DEFINE m == Larger(Len(Separators), Len(TableSeparators))
           w == cut.size
           o == cut.overlap
           p == m * (o + 1)
<1>1. w \in Nat \ {0} /\ o \in Nat /\ MaxTable \in Nat  BY SizesNatural DEF Cutting
<1>2. Len(Separators) \in Nat /\ Len(TableSeparators) \in Nat
  BY SeparatorsListed DEF TableSeparators
<1>3. m \in Nat /\ k \in Nat /\ k <= m  BY <1>2 DEF Larger
<1> HIDE DEF m, w, o
<1>4. Longest(w, SafeOverlap(w, o), k) <= w + p  BY <1>1, <1>3, LongestWithin
<1>5. p \in Nat  BY <1>1, <1>3
<1>6. Longest(w, SafeOverlap(w, o), k) \in Nat
  <2>1. SafeOverlap(w, o) \in Nat  BY <1>1 DEF SafeOverlap, Smaller
  <2> QED  BY <1>1, <1>3, <2>1, LongestGrows
<1> HIDE DEF p
<1>7. MostOf(text, cut) = (IF Holds(text, "open") THEN Larger(MaxTable, w) ELSE w) + p
  BY DEF MostOf, m, w, o, p
<1> QED  BY <1>1, <1>4, <1>5, <1>6, <1>7 DEF Larger, w, o

(* The cells of a part of a document. *)
LEMMA CellsWithin ==
  ASSUME NEW doc \in Seq(CellKinds), NEW a \in 1..Len(doc), NEW b \in a..Len(doc)
  PROVE  LET t == SubSeq(CellsOf(doc), a, b)
         IN /\ t \in Seq(Cell) /\ Len(t) = b - a + 1
            /\ \A x \in 1..(b - a + 1) : t[x] = CellAt(doc, a + x - 1)
<1> DEFINE cells == CellsOf(doc)
           n == Len(doc)
<1>1. n \in Nat /\ DOMAIN doc = 1..n /\ a \in Int /\ b \in Int /\ 1 <= a /\ a <= b /\ b <= n
      /\ \A i \in 1..n : doc[i] \in CellKinds
  OBVIOUS
<1>2. cells = [i \in 1..n |-> [k |-> doc[i], at |-> i]]  BY <1>1 DEF CellsOf
<1>3. \A i \in 1..n : [k |-> doc[i], at |-> i] \in Cell  BY <1>1 DEF Cell
<1> HIDE DEF cells, n
<1>4. cells \in Seq(Cell) /\ Len(cells) = n /\ \A i \in 1..n : cells[i] = [k |-> doc[i], at |-> i]
  BY <1>1, <1>2, <1>3
<1> DEFINE t == SubSeq(cells, a, b)
<1>5. t \in Seq(Cell) /\ Len(t) = b - a + 1 /\ \A x \in 1..(b - a + 1) : t[x] = cells[a + x - 1]
  BY <1>1, <1>4
<1> HIDE DEF t
<1>6. \A x \in 1..(b - a + 1) : t[x] = CellAt(doc, a + x - 1)
  <2> TAKE x \in 1..(b - a + 1)
  <2>1. a + x - 1 \in 1..n  BY <1>1
  <2> QED  BY <1>4, <1>5, <2>1 DEF CellAt
<1> QED  BY <1>5, <1>6 DEF t, cells

(* The text of an interval between tables. *)
LEMMA ProseCuts ==
  ASSUME NEW doc \in Seq(CellKinds), NEW cut \in Cutting, NEW slack \in Nat,
         NEW v \in Spans, v.from >= 1, v.to <= Len(doc)
  PROVE  /\ Prose(doc, v, cut) \in Seq(Proper(doc, slack, cut))
         /\ \A i \in v.from..v.to :
              doc[i] \notin Blanks /\ doc[i] \notin ToSet(Separators)
                => InSome(Prose(doc, v, cut), CellAt(doc, i))
<1> DEFINE ink == {i \in v.from..v.to : doc[i] \notin Blanks}
           n == Len(doc)
           P == Proper(doc, slack, cut)
<1>1. CASE ink = {}
  <2>1. Prose(doc, v, cut) = <<>>  BY <1>1 DEF Prose
  <2> HIDE DEF P
  <2>2. <<>> \in Seq(P)  OBVIOUS
  <2> QED  BY <1>1, <2>1, <2>2 DEF P
<1>2. CASE ink # {}
  <2> DEFINE a == Least(ink)
             b == Most(ink)
             t == SubSeq(CellsOf(doc), a, b)
             w == cut.size
             o == cut.overlap
             safe == SafeOverlap(w, o)
             longest == Longest(w, safe, Len(Separators))
             cs == Split(t, w, o, Separators, a - 1)
  <2>1. n \in Nat /\ v.from \in Int /\ v.to \in Int /\ ink \in SUBSET (1..n)
    BY DEF Spans
  <2>2. a \in ink /\ b \in ink /\ \A i \in ink : a <= i /\ i <= b
    <3> HIDE DEF ink
    <3> QED  BY <1>2, <2>1, EndsOf
  <2>3. a \in 1..n /\ b \in a..n /\ a - 1 \in Nat
    <3>1. a \in 1..n /\ b \in 1..n /\ a <= b  BY <2>1, <2>2
    <3> QED  BY <2>1, <3>1
  <2>4. Prose(doc, v, cut) = cs  BY <1>2 DEF Prose
  <2>5. w \in Nat \ {0} /\ o \in Nat /\ safe \in Nat /\ safe <= o
    BY DEF Cutting, SafeOverlap, Smaller
  <2> HIDE DEF a, b
  <2>6. /\ t \in Seq(Cell) /\ Len(t) = b - a + 1
        /\ \A x \in 1..(b - a + 1) : t[x] = CellAt(doc, a + x - 1)
    BY <2>3, CellsWithin
  <2> HIDE DEF t
  <2>7. /\ Cuts(cs, t, a - 1, safe, longest, Len(t))
        /\ \A i \in 1..Len(t) : t[i].k \notin ToSet(Separators) => InSome(cs, t[i])
    <3> HIDE DEF w, o
    <3> QED  BY <2>3, <2>5, <2>6, SeparatorsListed, SplitCuts DEF w, o
  <2> HIDE DEF cs, safe, longest
  <2>8. cs \in Seq(Passage)  BY <2>7 DEF Cuts
  <2>9. ASSUME NEW j \in 1..Len(cs) PROVE cs[j] \in P
    <3> DEFINE c == cs[j]
               e == c.end
               l == Len(c.text)
    <3>1. c \in Passage  BY <2>8, <2>9
    <3>2. c.text \in Seq(Cell) /\ l \in Nat /\ c.start \in Int /\ e \in Int  BY <3>1, PassageHas
    <3>3. /\ c.text # <<>> /\ l <= longest /\ a - 1 < e /\ e <= (a - 1) + Len(t)
          /\ c.text[l] = t[e - (a - 1)] /\ (a - 1) - safe <= c.start /\ c.start < e
      BY <2>7, <2>9 DEF Cuts, Placed
    <3> HIDE DEF e, l, c
    <3>9. /\ a \in Int /\ b \in Int /\ e \in Int /\ 1 <= a /\ a <= b /\ b <= n /\ Len(t) = b - a + 1
          /\ a - 1 < e /\ e <= (a - 1) + Len(t) /\ (a - 1) - safe <= c.start /\ c.start \in Int
      <4>1. a \in Int /\ b \in Int /\ 1 <= a /\ a <= b /\ b <= n  BY <2>1, <2>3
      <4> QED  BY <2>6, <3>2, <3>3, <4>1
    <3> HIDE DEF n
    <3>4. e - (a - 1) \in 1..(b - a + 1) /\ a + (e - (a - 1)) - 1 = e  BY <3>9
    <3>5. c.text[l].at = e  BY <2>6, <3>3, <3>4 DEF CellAt
    <3>6. e <= n + slack /\ -o <= c.start
      <4> HIDE DEF o
      <4>1. o \in Nat /\ safe \in Nat /\ safe <= o /\ n \in Nat  BY <2>1, <2>5
      <4> QED  BY <3>9, <4>1
    <3>7. l <= MostOf(c.text, cut)
      <4>1. /\ longest <= MostOf(c.text, cut) /\ longest \in Nat /\ MostOf(c.text, cut) \in Nat
        BY MostBounds DEF longest, safe
      <4> QED  BY <3>2, <3>3, <4>1
    <3>8. Last(c.text) = c.text[l] /\ e - e = 0 /\ 0 \in 0..slack  BY <3>2 DEF Last, l
    <3> QED  BY <3>1, <3>3, <3>5, <3>6, <3>7, <3>8, ProperHas DEF c, e, l, n
  <2>10. cs \in Seq(P)
    <3> HIDE DEF P
    <3>1. Len(cs) \in Nat /\ cs = [j \in 1..Len(cs) |-> cs[j]]  BY <2>8
    <3> QED  BY <2>9, <3>1
  <2>11. ASSUME NEW i \in v.from..v.to, doc[i] \notin Blanks, doc[i] \notin ToSet(Separators)
         PROVE  InSome(cs, CellAt(doc, i))
    <3>1. i \in ink  BY <2>11
    <3>2. i \in Int /\ a <= i /\ i <= b  BY <2>1, <2>2, <3>1
    <3>3. i - a + 1 \in 1..(b - a + 1) /\ a + (i - a + 1) - 1 = i  BY <2>3, <3>2
    <3>4. t[i - a + 1] = CellAt(doc, i)  BY <2>6, <3>3
    <3>5. t[i - a + 1].k = doc[i]  BY <3>4 DEF CellAt
    <3> QED  BY <2>6, <2>7, <2>11, <3>3, <3>4, <3>5
  <2> QED  BY <2>4, <2>10, <2>11
<1> QED  BY <1>1, <1>2

-----------------------------------------------------------------------------
(* The cells that a name puts before a table. *)
Moved(named) == IF named THEN Len(Name) ELSE 0

(* The text of a table, with its name. *)
LEMMA TableText ==
  ASSUME NEW doc \in Seq(CellKinds), NEW a \in 1..Len(doc), NEW b \in a..Len(doc),
         NEW named \in BOOLEAN
  PROVE  LET raw == SubSeq(CellsOf(doc), a, b)
             t == IF named THEN Name \o raw ELSE raw
         IN /\ t \in Seq(Cell) /\ Len(t) = Moved(named) + (b - a + 1)
            /\ \A x \in 1..Moved(named) : t[x].at = 0
            /\ \A x \in 1..(b - a + 1) : t[Moved(named) + x] = CellAt(doc, a + x - 1)
<1> DEFINE raw == SubSeq(CellsOf(doc), a, b)
<1>1. /\ raw \in Seq(Cell) /\ Len(raw) = b - a + 1
      /\ \A x \in 1..(b - a + 1) : raw[x] = CellAt(doc, a + x - 1)
  BY CellsWithin
<1> HIDE DEF raw
<1> DEFINE t == IF named THEN Name \o raw ELSE raw
           m == b - a + 1
<1>2. Len(raw) = m /\ m \in Nat  BY <1>1
<1>3. CASE ~named
  <2>1. t = raw /\ Moved(named) = 0  BY <1>3 DEF Moved
  <2> HIDE DEF t, m
  <2>2. \A x \in 1..m : 0 + x = x  BY <1>2
  <2>3. \A x \in 1..0 : FALSE  OBVIOUS
  <2>4. /\ t \in Seq(Cell) /\ Len(t) = Moved(named) + m
        /\ \A x \in 1..Moved(named) : t[x].at = 0
        /\ \A x \in 1..m : t[Moved(named) + x] = CellAt(doc, a + x - 1)
    <3>1. Len(t) = Moved(named) + m  BY <1>2, <2>1
    <3>2. \A x \in 1..m : t[Moved(named) + x] = raw[x]  BY <2>1, <2>2
    <3>3. \A x \in 1..m : raw[x] = CellAt(doc, a + x - 1)  BY <1>1 DEF m
    <3> QED  BY <1>1, <2>1, <2>3, <3>1, <3>2, <3>3
  <2> QED  BY <2>4 DEF m, t, raw
<1>4. CASE named
  <2>1. Name \in Seq(Cell) /\ Len(Name) = 2 /\ Name[1].at = 0 /\ Name[2].at = 0
    <3>1. [k |-> "ink", at |-> 0] \in Cell /\ [k |-> "line", at |-> 0] \in Cell
      BY DEF Cell, CellKinds
    <3> QED  BY <3>1 DEF Name
  <2>2. /\ Name \o raw \in Seq(Cell) /\ Len(Name \o raw) = Len(Name) + Len(raw)
        /\ \A i \in 1..Len(Name) + Len(raw) :
             (Name \o raw)[i] = IF i <= Len(Name) THEN Name[i] ELSE raw[i - Len(Name)]
    BY <1>1, <2>1, ConcatProperties
  <2>3. t = Name \o raw /\ Moved(named) = 2  BY <1>4, <2>1 DEF Moved
  <2> HIDE DEF t, m
  <2>4. t[1] = Name[1] /\ t[2] = Name[2] /\ t \in Seq(Cell) /\ Len(t) = 2 + m
    BY <1>2, <2>1, <2>2, <2>3
  <2>5. ASSUME NEW x \in 1..m PROVE t[2 + x] = raw[x]
    <3>1. 2 + x \in 1..(2 + m) /\ ~(2 + x <= 2) /\ (2 + x) - 2 = x  BY <1>2
    <3> QED  BY <1>2, <2>1, <2>2, <2>3, <3>1
  <2>6. \A x \in 1..2 : x = 1 \/ x = 2  OBVIOUS
  <2> QED  BY <1>1, <2>1, <2>3, <2>4, <2>5, <2>6 DEF m, t, raw
<1> QED  BY <1>3, <1>4

(* A table of the document. *)
IsTable(v, doc) == v \in Spans /\ v.from \in 1..Len(doc) /\ v.to \in v.from..Len(doc) /\ doc[v.from] = "open"

(* The chunks of a table. *)
LEMMA TableCuts ==
  ASSUME NEW doc \in Seq(CellKinds), NEW cut \in Cutting, NEW named \in BOOLEAN,
         NEW slack \in Nat, Moved(named) <= slack, NEW v, IsTable(v, doc)
  PROVE  /\ TableChunks(doc, v, named, cut) \in Seq(Proper(doc, slack, cut))
         /\ \A i \in v.from..v.to :
              doc[i] \notin ToSet(TableSeparators)
                => InSome(TableChunks(doc, v, named, cut), CellAt(doc, i))
<1> DEFINE a == v.from
           b == v.to
           n == Len(doc)
           raw == SubSeq(CellsOf(doc), a, b)
           t == IF named THEN Name \o raw ELSE raw
           h == Moved(named)
           P == Proper(doc, slack, cut)
           base == a - 1
           w == cut.size
           o == cut.overlap
           safe == SafeOverlap(w, o)
           longest == Longest(w, safe, Len(TableSeparators))
           ds == Split(t, w, o, TableSeparators, base)
           whole == [text |-> t, start |-> base, end |-> b]
           cs == TableChunks(doc, v, named, cut)
<1>1. /\ n \in Nat /\ a \in Int /\ b \in Int /\ 1 <= a /\ a <= b /\ b <= n /\ base \in Nat
      /\ a \in 1..n /\ b \in a..n /\ doc[a] = "open"
  BY DEF IsTable
<1>2. h \in Nat /\ h <= slack
  <2>1. Len(Name) \in Nat  BY DEF Name
  <2> QED  BY <2>1 DEF Moved
<1>3. cs = IF Len(t) > MaxTable THEN ds ELSE <<whole>>
  BY DEF TableChunks
<1>4. w \in Nat \ {0} /\ o \in Nat /\ safe \in Nat /\ safe <= o /\ MaxTable \in Nat
  BY SizesNatural DEF Cutting, SafeOverlap, Smaller
<1> HIDE DEF a, b, h
<1>5. /\ t \in Seq(Cell) /\ Len(t) = h + (b - a + 1)
      /\ \A x \in 1..h : t[x].at = 0
      /\ \A x \in 1..(b - a + 1) : t[h + x] = CellAt(doc, a + x - 1)
  BY <1>1, TableText DEF h
<1> HIDE DEF n, t, cs
<1>6. t # <<>>
  <2>1. Len(t) # 0  BY <1>1, <1>2, <1>5
  <2> QED  BY <2>1
<1>7. ASSUME NEW i \in a..b PROVE \E x \in 1..Len(t) : t[x] = CellAt(doc, i)
  <2>1. i - a + 1 \in 1..(b - a + 1) /\ a + (i - a + 1) - 1 = i /\ h + (i - a + 1) \in 1..Len(t)
    BY <1>1, <1>2, <1>5
  <2> QED  BY <1>5, <2>1
<1>8. CASE Len(t) > MaxTable
  <2>1. /\ Cuts(ds, t, base, safe, longest, Len(t))
        /\ \A i \in 1..Len(t) : t[i].k \notin ToSet(TableSeparators) => InSome(ds, t[i])
    <3>1. TableSeparators \in Seq(CellKinds)  BY DEF TableSeparators, CellKinds
    <3> HIDE DEF w, o, base
    <3> QED  BY <1>1, <1>4, <1>5, <3>1, SplitCuts
  <2> HIDE DEF ds, safe, longest
  <2>2. ds \in Seq(Passage)  BY <2>1 DEF Cuts
  <2>3. ASSUME NEW j \in 1..Len(ds) PROVE ds[j] \in P
    <3> DEFINE c == ds[j]
               e == c.end
               l == Len(c.text)
               x == e - base
    <3>1. c \in Passage  BY <2>2, <2>3
    <3>2. c.text \in Seq(Cell) /\ l \in Nat /\ c.start \in Int /\ e \in Int  BY <3>1, PassageHas
    <3>3. /\ c.text # <<>> /\ l <= longest /\ base < e /\ e <= base + Len(t)
          /\ c.text[l] = t[x] /\ base - safe <= c.start /\ c.start < e
      BY <2>1, <2>3 DEF Cuts, Placed
    <3> HIDE DEF e, l, c, base, o
    <3>4. x \in 1..(h + (b - a + 1))  BY <1>1, <1>2, <1>5, <3>2, <3>3
    <3>5. c.text[l].at > 0 => e - c.text[l].at \in 0..slack
      <4>1. CASE x \in 1..h  BY <1>5, <3>3, <4>1
      <4>2. CASE x - h \in 1..(b - a + 1)
        <5>1. h + (x - h) = x  BY <1>2, <3>4
        <5>2. t[x] = CellAt(doc, a + (x - h) - 1)  BY <1>5, <4>2, <5>1
        <5>3. c.text[l].at = a + (x - h) - 1  BY <3>3, <5>2 DEF CellAt
        <5>4. e - (a + (x - h) - 1) = h
          <6>1. x = e - base /\ base = a - 1  BY DEF base
          <6> HIDE DEF x
          <6> QED  BY <1>1, <1>2, <3>2, <6>1
        <5> QED  BY <1>2, <5>3, <5>4
      <4>3. x \in 1..h \/ x - h \in 1..(b - a + 1)  BY <1>1, <1>2, <3>4
      <4> QED  BY <4>1, <4>2, <4>3
    <3>6. e <= n + slack /\ -o <= c.start
      <4>1. base = a - 1  BY DEF base
      <4>2. e <= (a - 1) + (h + (b - a + 1))  BY <1>5, <3>3, <4>1
      <4>3. e <= n + slack  BY <1>1, <1>2, <3>2, <4>2
      <4>4. 0 <= base  BY <1>1
      <4> QED  BY <1>1, <1>4, <3>2, <3>3, <4>3, <4>4
    <3>7. l <= MostOf(c.text, cut)
      <4>1. longest <= MostOf(c.text, cut) /\ longest \in Nat /\ MostOf(c.text, cut) \in Nat
        BY MostBounds DEF longest, safe, o
      <4> QED  BY <3>2, <3>3, <4>1
    <3>8. Last(c.text) = c.text[l]  BY DEF Last, l
    <3> QED  BY <3>1, <3>3, <3>5, <3>6, <3>7, <3>8, ProperHas DEF c, e, l, n, o
  <2>4. ds \in Seq(P)
    <3> HIDE DEF P
    <3>1. Len(ds) \in Nat /\ ds = [j \in 1..Len(ds) |-> ds[j]]  BY <2>2
    <3> QED  BY <2>3, <3>1
  <2>5. ASSUME NEW i \in a..b, doc[i] \notin ToSet(TableSeparators) PROVE InSome(ds, CellAt(doc, i))
    <3>1. PICK x \in 1..Len(t) : t[x] = CellAt(doc, i)  BY <1>7
    <3>2. t[x].k = doc[i]  BY <3>1 DEF CellAt
    <3> QED  BY <2>1, <2>5, <3>1, <3>2
  <2>6. cs = ds  BY <1>3, <1>8
  <2> QED  BY <2>4, <2>5, <2>6 DEF a, b, cs
<1>9. CASE ~(Len(t) > MaxTable)
  <2> DEFINE l == Len(t)
  <2>1. l \in Nat /\ l = h + (b - a + 1) /\ l <= MaxTable  BY <1>4, <1>5, <1>9
  <2>2. whole \in Passage  BY <1>1, <1>5 DEF Passage
  <2>3. Last(t) = CellAt(doc, b)
    <3>1. (b - a + 1) \in 1..(b - a + 1) /\ a + (b - a + 1) - 1 = b  BY <1>1
    <3>2. t[h + (b - a + 1)] = CellAt(doc, b)  BY <1>5, <3>1
    <3> QED  BY <2>1, <3>2 DEF Last
  <2>4. Holds(t, "open")
    <3>1. a \in a..b  BY <1>1
    <3>2. PICK x \in 1..Len(t) : t[x] = CellAt(doc, a)  BY <1>7, <3>1
    <3>3. x \in DOMAIN t /\ t[x].k = "open"  BY <1>1, <1>5, <3>2 DEF CellAt
    <3> QED  BY <3>3 DEF Holds
  <2>5. l <= MostOf(t, cut)
    <3>1. MaxTable <= MostOf(t, cut) /\ MostOf(t, cut) \in Nat  BY <2>4, MostBounds
    <3> QED  BY <1>4, <2>1, <3>1
  <2>6. Last(t).at = b /\ b - b = 0 /\ 0 \in 0..slack  BY <1>1, <2>3 DEF CellAt
  <2>7. -o <= base /\ base < b /\ b <= n + slack
    <3> HIDE DEF o
    <3> QED  BY <1>1, <1>2, <1>4
  <2>8. whole.text = t /\ whole.start = base /\ whole.end = b  OBVIOUS
  <2> HIDE DEF whole, l, base
  <2>9. whole \in P  BY <1>6, <2>2, <2>5, <2>6, <2>7, <2>8, ProperHas DEF l, n, o
  <2>10. \A i \in a..b : InSome(<<whole>>, CellAt(doc, i))
    <3> TAKE i \in a..b
    <3>1. Says(whole.text, CellAt(doc, i))  BY <1>7, <2>8 DEF Says
    <3>2. Len(<<whole>>) = 1 /\ <<whole>>[1] = whole  OBVIOUS
    <3> QED  BY <3>1, <3>2 DEF InSome
  <2> HIDE DEF P
  <2>11. <<whole>> \in Seq(P)  BY <2>9
  <2>12. cs = <<whole>>  BY <1>3, <1>9
  <2> QED  BY <2>10, <2>11, <2>12 DEF a, b, cs, P
<1> QED  BY <1>8, <1>9

-----------------------------------------------------------------------------
(* Tables one behind the other, in the first m cells. *)
Consecutive(ts, doc, m) ==
  /\ ts \in Seq(Spans)
  /\ \A j \in 1..Len(ts) : IsTable(ts[j], doc) /\ ts[j].to <= m
  /\ \A j \in 1..Len(ts) : j > 1 => ts[j - 1].to < ts[j].from

(* What _find_table_positions has found, and the tag that is open. *)
LookedUpTo(acc, doc, m) ==
  /\ acc \in [open : Nat, found : Seq(Spans)]
  /\ Consecutive(acc.found, doc, m)
  /\ acc.open <= m
  /\ acc.open # 0 => doc[acc.open] = "open" /\ \A j \in 1..Len(acc.found) : acc.found[j].to < acc.open

(* One cell. *)
LookAt(doc, acc, i) ==
  IF acc.open = 0 /\ doc[i] = "open" THEN [acc EXCEPT !.open = i]
  ELSE IF acc.open # 0 /\ doc[i] = "close"
    THEN [open |-> 0, found |-> Append(acc.found, Interval(acc.open, i))]
  ELSE acc

(* A step keeps the tables that were found.                                 *)
LEMMA LookKeeps ==
  ASSUME NEW doc \in Seq(CellKinds), NEW i \in 1..Len(doc), NEW acc, LookedUpTo(acc, doc, i - 1)
  PROVE  LookedUpTo(LookAt(doc, acc, i), doc, i)
<1>1. /\ acc \in [open : Nat, found : Seq(Spans)]
      /\ Consecutive(acc.found, doc, i - 1) /\ acc.open <= i - 1 /\ acc.open \in Nat
      /\ acc.found \in Seq(Spans) /\ Len(acc.found) \in Nat /\ i \in Nat
      /\ Len(doc) \in Nat /\ i <= Len(doc) /\ 1 <= i
      /\ acc.open # 0 => doc[acc.open] = "open" /\ \A j \in 1..Len(acc.found) : acc.found[j].to < acc.open
  BY DEF LookedUpTo
<1>2. \A j \in 1..Len(acc.found) : acc.found[j].to \in Int
  <2>1. \A j \in 1..Len(acc.found) : acc.found[j] \in Spans  BY <1>1
  <2> QED  BY <2>1 DEF Spans
<1>3. Consecutive(acc.found, doc, i)
  <2>1. \A j \in 1..Len(acc.found) : IsTable(acc.found[j], doc) /\ acc.found[j].to <= i - 1
    BY <1>1 DEF Consecutive
  <2>2. \A j \in 1..Len(acc.found) : acc.found[j].to <= i  BY <1>1, <1>2, <2>1
  <2> QED  BY <1>1, <2>1, <2>2 DEF Consecutive
<1>4. CASE acc.open = 0 /\ doc[i] = "open"
  <2> DEFINE new == LookAt(doc, acc, i)
  <2>1. new = [acc EXCEPT !.open = i]  BY <1>4 DEF LookAt
  <2> HIDE DEF new
  <2>2. new \in [open : Nat, found : Seq(Spans)] /\ new.open = i /\ new.found = acc.found
    BY <1>1, <2>1
  <2>3. \A j \in 1..Len(acc.found) : acc.found[j].to < i  BY <1>1, <1>2 DEF Consecutive
  <2> QED  BY <1>1, <1>3, <1>4, <2>2, <2>3 DEF LookedUpTo, new
<1>5. CASE acc.open # 0 /\ doc[i] = "close"
  <2> DEFINE a == acc.open
             v == Interval(a, i)
             s == acc.found
             k == Len(s)
             ts == Append(s, v)
             new == LookAt(doc, acc, i)
  <2>1. new = [open |-> 0, found |-> ts]  BY <1>5 DEF LookAt
  <2>2. a \in Nat /\ a # 0 /\ a <= i - 1 /\ doc[a] = "open" /\ \A j \in 1..k : s[j].to < a
    BY <1>1, <1>5
  <2>3. v.from = a /\ v.to = i /\ v \in Spans  BY <1>1, <2>2 DEF Interval, Spans
  <2> HIDE DEF a, v, new
  <2>4. IsTable(v, doc)  BY <1>1, <2>2, <2>3 DEF IsTable
  <2>5. /\ ts \in Seq(Spans) /\ Len(ts) = k + 1 /\ ts[k + 1] = v
        /\ \A j \in 1..k : ts[j] = s[j]
    BY <1>1, <2>3
  <2>6. s \in Seq(Spans) /\ k \in Nat /\ Consecutive(s, doc, i)  BY <1>1, <1>3
  <2> HIDE DEF ts, s, k
  <2>7. Consecutive(ts, doc, i)
    <3>1. ASSUME NEW j \in 1..(k + 1)
          PROVE  /\ IsTable(ts[j], doc) /\ ts[j].to <= i
                 /\ j > 1 => ts[j - 1].to < ts[j].from
      <4>1. CASE j \in 1..k
        <5>1. j > 1 => j - 1 \in 1..k  BY <2>6, <4>1
        <5> QED  BY <2>5, <2>6, <4>1, <5>1 DEF Consecutive, k
      <4>2. CASE j = k + 1
        <5>1. j > 1 => j - 1 \in 1..k /\ j - 1 = k  BY <2>6, <4>2
        <5> QED  BY <1>1, <2>2, <2>3, <2>4, <2>5, <4>2, <5>1
      <4>3. j \in 1..k \/ j = k + 1  BY <2>6
      <4> QED  BY <4>1, <4>2, <4>3
    <3> QED  BY <2>5, <3>1 DEF Consecutive
  <2>8. new \in [open : Nat, found : Seq(Spans)] /\ new.open = 0 /\ new.found = ts
    BY <2>1, <2>5
  <2> QED  BY <1>1, <2>7, <2>8 DEF LookedUpTo, new
<1>6. CASE ~(acc.open = 0 /\ doc[i] = "open") /\ ~(acc.open # 0 /\ doc[i] = "close")
  <2>1. LookAt(doc, acc, i) = acc  BY <1>6 DEF LookAt
  <2>2. acc.open <= i  BY <1>1
  <2> QED  BY <1>1, <1>3, <2>1, <2>2 DEF LookedUpTo
<1> QED  BY <1>4, <1>5, <1>6

(* The tables of a document lie in it, one behind the other. *)
LEMMA TablesInOrder ==
  ASSUME NEW doc \in Seq(CellKinds)
  PROVE  Consecutive(Tables(doc), doc, Len(doc))
<1> DEFINE n == Len(doc)
           s == [i \in DOMAIN doc |-> i]
           A == [open : Nat, found : Seq(Spans)]
           X == 1..n
           first == [open |-> 0, found |-> <<>>]
           Op(acc, i) == LookAt(doc, acc, i)
           F == [x \in A \X X |-> Op(x[1], x[2])]
           G(h, q) == IF q = {} THEN first ELSE Op(h[q \ {Max(q)}], s[Max(q)])
           it == CHOOSE h : h = [q \in SUBSET DOMAIN s |-> G(h, q)]
<1>1. Tables(doc) = it[DOMAIN s].found
  BY DEF Tables, FoldLeft, MapThenFoldSet, LookAt
<1> HIDE DEF it
<1>2. n \in Nat /\ DOMAIN doc = 1..n /\ DOMAIN s = 1..n /\ (\A i \in 1..n : s[i] = i /\ s[i] \in X)
  OBVIOUS
<1> HIDE DEF s, n
<1>3. \A acc \in A, i \in X : Op(acc, i) \in A
  <2> SUFFICES ASSUME NEW acc \in A, NEW i \in X PROVE Op(acc, i) \in A
    OBVIOUS
  <2>1. acc.open \in Nat /\ acc.found \in Seq(Spans) /\ i \in Nat  BY <1>2
  <2>2. Interval(acc.open, i) \in Spans  BY <2>1 DEF Interval, Spans
  <2>3. Append(acc.found, Interval(acc.open, i)) \in Seq(Spans)  BY <2>1, <2>2
  <2>4. [acc EXCEPT !.open = i] \in A  BY <2>1
  <2> DEFINE longer == Append(acc.found, Interval(acc.open, i))
  <2> HIDE DEF longer
  <2>5. [open |-> 0, found |-> longer] \in A  BY <2>3 DEF longer
  <2> HIDE DEF A
  <2> QED  BY <2>4, <2>5 DEF LookAt, longer
<1>4. first \in A
  <2>1. <<>> \in Seq(Spans)  OBVIOUS
  <2> QED  BY <2>1
<1> HIDE DEF A, X, Op
<1>5. F \in [A \X X -> A] /\ \A acc \in A, i \in X : F[<<acc, i>>] = Op(acc, i)
  BY <1>3
<1> HIDE DEF F, first
<1>6. PICK h \in [SUBSET (1..n) -> A] : IsFold(h, F, first, s)
  BY <1>2, <1>4, <1>5, FoldExists
<1>7. h = [q \in SUBSET DOMAIN s |-> G(h, q)]
  <2>1. ASSUME NEW q \in SUBSET (1..n), q # {}
        PROVE  F[<<h[q \ {Max(q)}], s[Max(q)]>>] = Op(h[q \ {Max(q)}], s[Max(q)])
    <3>1. Max(q) \in 1..n  BY <1>2, <2>1, MaxOfIndices
    <3>2. q \ {Max(q)} \in SUBSET (1..n)  OBVIOUS
    <3> QED  BY <1>2, <1>5, <1>6, <3>1, <3>2
  <2> QED  BY <1>2, <1>6, <2>1 DEF IsFold
<1>8. it = [q \in SUBSET DOMAIN s |-> G(it, q)]  BY <1>7 DEF it
<1>9. \A q \in SUBSET (1..n) : it[q] = G(it, q)  BY <1>2, <1>8
<1>10. StepsBy(it, A, X, F, first, s, n)
  <2>1. {} \in SUBSET (1..n)  OBVIOUS
  <2>2. ASSUME NEW q \in SUBSET (1..n), q # {}, it[q \ {Max(q)}] \in A
        PROVE  it[q] = F[<<it[q \ {Max(q)}], s[Max(q)]>>]
    <3>1. Max(q) \in 1..n  BY <1>2, <2>2, MaxOfIndices
    <3> QED  BY <1>2, <1>5, <1>9, <2>2, <3>1
  <2> QED  BY <1>2, <1>4, <1>5, <1>9, <2>1, <2>2 DEF StepsBy
<1>11. PICK g : IsPrefixFold(g, A, F, first, s, n) /\ g[n] = it[1..n]
  BY <1>10, PrefixesOf
<1> DEFINE T == {i \in 0..n : LookedUpTo(g[i], doc, i)}
<1>12. 0 \in T
  <2>1. g[0] = first  BY <1>11 DEF IsPrefixFold
  <2>2. first \in [open : Nat, found : Seq(Spans)] /\ first.open = 0 /\ first.found = <<>>
    BY <1>4 DEF A, first
  <2>3. Consecutive(<<>>, doc, 0)
    <3>1. <<>> \in Seq(Spans) /\ Len(<<>>) = 0  OBVIOUS
    <3> QED  BY <3>1 DEF Consecutive
  <2>4. LookedUpTo(first, doc, 0)  BY <2>2, <2>3 DEF LookedUpTo
  <2> QED  BY <1>2, <2>1, <2>4
<1>13. ASSUME NEW i \in 0..n, i \in T, i < n PROVE i + 1 \in T
  <2>1. i + 1 \in 1..n /\ i + 1 \in 0..n /\ (i + 1) - 1 = i  BY <1>2, <1>13
  <2>2. g[i + 1] = F[<<g[(i + 1) - 1], s[i + 1]>>]  BY <1>11, <2>1 DEF IsPrefixFold
  <2>3. g[i] \in A  BY <1>11 DEF IsPrefixFold
  <2>4. g[i + 1] = LookAt(doc, g[i], i + 1)  BY <1>2, <1>5, <2>1, <2>2, <2>3 DEF Op
  <2>5. LookedUpTo(g[i], doc, (i + 1) - 1)  BY <1>13, <2>1
  <2>6. i + 1 \in 1..Len(doc)  BY <2>1 DEF n
  <2>7. LookedUpTo(g[i + 1], doc, i + 1)  BY <2>4, <2>5, <2>6, LookKeeps
  <2> QED  BY <2>1, <2>7
<1>14. n \in T
  <2> HIDE DEF T
  <2>1. 0..n \subseteq T  BY <1>2, <1>12, <1>13, UpTo
  <2> QED  BY <1>2, <2>1
<1>15. Consecutive(g[n].found, doc, n)  BY <1>14 DEF LookedUpTo
<1> QED  BY <1>1, <1>2, <1>11, <1>15 DEF n

-----------------------------------------------------------------------------
(* Whatever the document and its tables: the chunks are proper, and all but *)
(* separators is in one of them.                                            *)
LEMMA ChunksCut ==
  ASSUME NEW doc \in Seq(CellKinds), NEW cut \in Cutting, NEW named \in BOOLEAN,
         NEW slack \in Nat, Holds(CellsOf(doc), "open") => Moved(named) <= slack
  PROVE  /\ Chunks(doc, named, cut) \in Seq(Proper(doc, slack, cut))
         /\ \A i \in 1..Len(doc) :
              /\ doc[i] \notin Blanks /\ doc[i] \notin ToSet(Separators)
              /\ doc[i] \notin ToSet(TableSeparators)
              => InSome(Chunks(doc, named, cut), CellAt(doc, i))
<1> DEFINE n == Len(doc)
           ts == Tables(doc)
           k == Len(ts)
           P == Proper(doc, slack, cut)
           Gap(j) == Interval(IF j = 1 THEN 1 ELSE ts[j - 1].to + 1, ts[j].from - 1)
           Text(j) == Prose(doc, Gap(j), cut)
           Table(j) == TableChunks(doc, ts[j], named, cut)
           pieces == [j \in DOMAIN ts |-> Text(j) \o Table(j)]
           rest == Prose(doc, Remainder(doc, ts), cut)
           cs == FlattenSeq(pieces) \o rest
           Solid(i) == /\ doc[i] \notin Blanks /\ doc[i] \notin ToSet(Separators)
                      /\ doc[i] \notin ToSet(TableSeparators)
<1>1. /\ n \in Nat /\ DOMAIN doc = 1..n
      /\ ts \in Seq(Spans) /\ k \in Nat /\ DOMAIN ts = 1..k
      /\ \A j \in 1..k : IsTable(ts[j], doc)
      /\ \A j \in 1..k : j > 1 => ts[j - 1].to < ts[j].from
  <2> HIDE DEF ts
  <2>1. Consecutive(ts, doc, n)  BY TablesInOrder DEF ts
  <2> QED  BY <2>1 DEF Consecutive
<1>2. Chunks(doc, named, cut) = cs  BY DEF Chunks
<1> HIDE DEF ts, k, n
<1>3. \A j \in 1..k : /\ ts[j] \in Spans /\ ts[j].from \in Int /\ ts[j].to \in Int
                      /\ 1 <= ts[j].from /\ ts[j].from <= ts[j].to /\ ts[j].to <= n
                      /\ doc[ts[j].from] = "open"
  <2> TAKE j \in 1..k
  <2>1. ts[j] \in Spans /\ ts[j].from \in 1..n /\ ts[j].to \in ts[j].from..n /\ doc[ts[j].from] = "open"
    BY <1>1 DEF IsTable, n
  <2> DEFINE a == ts[j].from
             b == ts[j].to
  <2> HIDE DEF a, b
  <2>2. a \in 1..n /\ b \in a..n  BY <2>1 DEF a, b
  <2>3. a \in Int /\ b \in Int /\ 1 <= a /\ a <= b /\ b <= n  BY <1>1, <2>2
  <2> QED  BY <2>1, <2>3 DEF a, b
<1>4. k > 0 => Moved(named) <= slack
  <2> SUFFICES ASSUME k > 0 PROVE Holds(CellsOf(doc), "open")
    OBVIOUS
  <2>1. 1 \in 1..k  BY <1>1
  <2> DEFINE a == ts[1].from
  <2>2. a \in 1..n /\ doc[a] = "open"  BY <1>1, <1>3, <2>1
  <2> HIDE DEF a
  <2>3. a \in DOMAIN CellsOf(doc) /\ CellsOf(doc)[a].k = "open"  BY <1>1, <2>2 DEF CellsOf
  <2> QED  BY <2>3 DEF Holds
<1>5. ASSUME NEW v \in Spans, v.from >= 1, v.to <= n
      PROVE  /\ Prose(doc, v, cut) \in Seq(P)
             /\ \A i \in v.from..v.to : Solid(i) => InSome(Prose(doc, v, cut), CellAt(doc, i))
  BY <1>5, ProseCuts DEF n
<1>6. ASSUME NEW j \in 1..k
      PROVE  /\ Table(j) \in Seq(P)
             /\ \A i \in ts[j].from..ts[j].to : Solid(i) => InSome(Table(j), CellAt(doc, i))
  <2>1. Moved(named) <= slack /\ IsTable(ts[j], doc)  BY <1>1, <1>4
  <2> QED  BY <2>1, TableCuts
<1>7. ASSUME NEW j \in 1..k
      PROVE  /\ Gap(j) \in Spans /\ Gap(j).from >= 1 /\ Gap(j).to <= n
             /\ Gap(j).from = (IF j = 1 THEN 1 ELSE ts[j - 1].to + 1)
             /\ Gap(j).to = ts[j].from - 1
  <2> DEFINE a == IF j = 1 THEN 1 ELSE ts[j - 1].to + 1
             b == ts[j].from - 1
  <2>1. b \in Int /\ b <= n
    <3> DEFINE f == ts[j].from
               e == ts[j].to
    <3> HIDE DEF f, e
    <3>1. f \in Int /\ e \in Int /\ f <= e /\ e <= n /\ n \in Int  BY <1>1, <1>3 DEF f, e
    <3>2. f - 1 \in Int /\ f - 1 <= n  BY <3>1
    <3> QED  BY <3>2 DEF f
  <2>2. a \in Int /\ a >= 1
    <3>1. CASE j = 1  BY <3>1
    <3>2. CASE j # 1
      <4>1. j - 1 \in 1..k  BY <1>1, <3>2
      <4>2. ts[j - 1].to \in Int /\ ts[j - 1].to >= 1  BY <1>3, <4>1
      <4> QED  BY <3>2, <4>2
    <3> QED  BY <3>1, <3>2
  <2>3. Gap(j) = [from |-> a, to |-> b]  BY DEF Interval
  <2> HIDE DEF a, b, Gap
  <2>4. Gap(j) \in Spans /\ Gap(j).from = a /\ Gap(j).to = b  BY <2>1, <2>2, <2>3 DEF Spans
  <2>5. Gap(j).from >= 1 /\ Gap(j).to <= n  BY <2>1, <2>2, <2>4
  <2> QED  BY <2>4, <2>5 DEF a, b
<1> HIDE DEF Gap
<1>8. ASSUME NEW j \in 1..k
      PROVE  /\ Text(j) \in Seq(P)
             /\ \A i \in Gap(j).from..Gap(j).to :
                  Solid(i) => InSome(Text(j), CellAt(doc, i))
  BY <1>5, <1>7
<1>9. /\ Remainder(doc, ts) \in Spans /\ Remainder(doc, ts).from >= 1
      /\ Remainder(doc, ts).from = (IF k = 0 THEN 1 ELSE ts[k].to + 1)
      /\ Remainder(doc, ts).to = n
  <2> DEFINE a == IF k = 0 THEN 1 ELSE ts[k].to + 1
  <2>1. a \in Int /\ a >= 1
    <3>1. CASE k = 0  BY <3>1
    <3>2. CASE k # 0
      <4>1. k \in 1..k  BY <1>1, <3>2
      <4>2. ts[k].to \in Int /\ ts[k].to >= 1  BY <1>3, <4>1
      <4> QED  BY <3>2, <4>2
    <3> QED  BY <3>1, <3>2
  <2>2. ts = <<>> <=> k = 0  BY <1>1 DEF k
  <2>3. Last(ts) = ts[k]  BY DEF Last, k
  <2>4. Remainder(doc, ts) = [from |-> a, to |-> n]  BY <2>2, <2>3 DEF Remainder, Interval, n
  <2> HIDE DEF a
  <2>5. Remainder(doc, ts) \in Spans /\ Remainder(doc, ts).from = a /\ Remainder(doc, ts).to = n
    BY <1>1, <2>1, <2>4 DEF Spans
  <2> QED  BY <2>1, <2>5 DEF a
<1>10. /\ rest \in Seq(P)
       /\ \A i \in Remainder(doc, ts).from..n : Solid(i) => InSome(rest, CellAt(doc, i))
  <2> DEFINE v == Remainder(doc, ts)
  <2>1. v \in Spans /\ v.from >= 1 /\ v.to = n /\ v.to <= n  BY <1>1, <1>9
  <2> HIDE DEF v
  <2>2. /\ Prose(doc, v, cut) \in Seq(P)
        /\ \A i \in v.from..v.to : Solid(i) => InSome(Prose(doc, v, cut), CellAt(doc, i))
    BY <1>5, <2>1
  <2> QED  BY <2>1, <2>2 DEF v
<1>11. \A c \in P : c \in Passage  BY DEF Proper
<1> HIDE DEF P, Text, Table, rest, Solid
<1>12. ASSUME NEW ds \in Seq(P), NEW es \in Seq(P), NEW cell, InSome(ds, cell) \/ InSome(es, cell)
       PROVE  InSome(ds \o es, cell)
  <2> DEFINE fs == ds \o es
  <2>1. /\ Len(ds) \in Nat /\ Len(es) \in Nat /\ Len(fs) = Len(ds) + Len(es)
        /\ \A x \in 1..Len(ds) : fs[x] = ds[x]
        /\ \A x \in 1..Len(es) : fs[Len(ds) + x] = es[x]
    OBVIOUS
  <2> HIDE DEF fs
  <2>2. CASE InSome(ds, cell)
    <3>1. PICK x \in 1..Len(ds) : Says(ds[x].text, cell)  BY <2>2 DEF InSome
    <3>2. x \in 1..Len(fs) /\ fs[x] = ds[x]  BY <2>1, <3>1
    <3> QED  BY <3>1, <3>2 DEF InSome, fs
  <2>3. CASE InSome(es, cell)
    <3>1. PICK x \in 1..Len(es) : Says(es[x].text, cell)  BY <2>3 DEF InSome
    <3>2. Len(ds) + x \in 1..Len(fs) /\ fs[Len(ds) + x] = es[x]  BY <2>1, <3>1
    <3> QED  BY <3>1, <3>2 DEF InSome, fs
  <2> QED  BY <1>12, <2>2, <2>3
<1>13. pieces \in Seq(Seq(P)) /\ Len(pieces) = k /\ \A j \in 1..k : pieces[j] = Text(j) \o Table(j)
  <2>1. \A j \in 1..k : Text(j) \o Table(j) \in Seq(P)
    <3> TAKE j \in 1..k
    <3>1. Text(j) \in Seq(P) /\ Table(j) \in Seq(P)  BY <1>6, <1>8
    <3> QED  BY <3>1
  <2>2. pieces = [j \in 1..k |-> Text(j) \o Table(j)]  BY <1>1
  <2> DEFINE Q == Seq(P)
  <2> HIDE DEF pieces, Q
  <2>3. \A j \in 1..k : Text(j) \o Table(j) \in Q  BY <2>1 DEF Q
  <2>4. pieces \in Seq(Q) /\ Len(pieces) = k  BY <1>1, <2>2, <2>3
  <2> QED  BY <2>2, <2>4 DEF Q
<1> HIDE DEF pieces
<1> DEFINE flat == FlattenSeq(pieces)
<1>14. /\ flat \in Seq(P)
       /\ \A j \in 1..k : \A x \in 1..Len(pieces[j]) : \E y \in 1..Len(flat) : flat[y] = pieces[j][x]
  BY <1>13, FlattenHas
<1> HIDE DEF flat
<1>15. cs = flat \o rest  BY DEF flat
<1> HIDE DEF cs
<1>16. cs \in Seq(P)  BY <1>10, <1>14, <1>15
<1>17. ASSUME NEW j \in 1..k, NEW cell, InSome(pieces[j], cell) PROVE InSome(flat, cell)
  <2>1. PICK x \in 1..Len(pieces[j]) : Says(pieces[j][x].text, cell)  BY <1>17 DEF InSome
  <2>2. PICK y \in 1..Len(flat) : flat[y] = pieces[j][x]  BY <1>14, <2>1
  <2> QED  BY <2>1, <2>2 DEF InSome
<1>18. ASSUME NEW i \in 1..n, Solid(i) PROVE InSome(cs, CellAt(doc, i))
  <2> DEFINE cell == CellAt(doc, i)
             J == {j \in 1..k : i <= ts[j].to}
  <2>1. CASE J = {}
    <3>1. i \in Remainder(doc, ts).from..n
      <4>1. CASE k = 0  BY <1>1, <1>9, <4>1
      <4>2. CASE k # 0
        <5>1. k \in 1..k  BY <1>1, <4>2
        <5>2. ts[k].to \in Int /\ ts[k].to < i  BY <1>3, <2>1, <5>1
        <5> QED  BY <1>1, <1>9, <4>2, <5>2
      <4> QED  BY <4>1, <4>2
    <3>2. InSome(rest, cell)  BY <1>10, <1>18, <3>1
    <3> QED  BY <1>10, <1>12, <1>14, <1>15, <3>2
  <2>2. CASE J # {}
    <3>1. J \subseteq Nat  OBVIOUS
    <3>2. PICK j \in J : \A y \in J : j <= y
      <4> HIDE DEF J
      <4> QED  BY <2>2, <3>1, LeastNumber
    <3>3. j \in 1..k /\ i <= ts[j].to  BY <3>2
    <3>4. Gap(j).from <= i /\ Gap(j).from \in Int /\ Gap(j).to \in Int
      <4>1. CASE j = 1  BY <1>7, <1>3, <3>3, <4>1
      <4>2. CASE j # 1
        <5>1. j - 1 \in 1..k /\ ~(j <= j - 1)  BY <1>1, <3>3, <4>2
        <5>2. j - 1 \notin J  BY <3>2, <5>1
        <5>3. ts[j - 1].to < i /\ ts[j - 1].to \in Int  BY <1>3, <5>1, <5>2
        <5> QED  BY <1>7, <1>3, <3>3, <4>2, <5>3
      <4> QED  BY <4>1, <4>2
    <3>5. InSome(pieces[j], cell)
      <4>1. CASE i < ts[j].from
        <5>1. i \in Gap(j).from..Gap(j).to  BY <1>3, <1>7, <3>3, <3>4, <4>1
        <5>2. InSome(Text(j), cell)  BY <1>8, <1>18, <3>3, <5>1
        <5>3. Text(j) \in Seq(P) /\ Table(j) \in Seq(P)  BY <1>6, <1>8, <3>3
        <5> QED  BY <1>12, <1>13, <3>3, <5>2, <5>3
      <4>2. CASE ~(i < ts[j].from)
        <5>1. i \in ts[j].from..ts[j].to  BY <1>3, <3>3, <4>2
        <5>2. InSome(Table(j), cell)  BY <1>6, <1>18, <3>3, <5>1
        <5>3. Text(j) \in Seq(P) /\ Table(j) \in Seq(P)  BY <1>6, <1>8, <3>3
        <5> QED  BY <1>12, <1>13, <3>3, <5>2, <5>3
      <4> QED  BY <4>1, <4>2
    <3>6. InSome(flat, cell)  BY <1>17, <3>3, <3>5
    <3> QED  BY <1>10, <1>12, <1>14, <1>15, <3>6
  <2> QED  BY <2>1, <2>2
<1> QED  BY <1>2, <1>16, <1>18 DEF P, n, Solid, cs

-----------------------------------------------------------------------------
(* What may be embedded: a table, or a text that is short enough. *)
Small == {u \in Seq(Cell) : Holds(u, "open") \/ Len(u) <= SubSize}

(* What no subchunk may lose. *)
Lasting(cell) == cell.k \notin Blanks /\ cell.k \notin ToSet(SubSeparators)

(* The texts of a chunk that are embedded. *)
LEMMA SubTextsCut ==
  ASSUME NEW t \in Seq(Cell)
  PROVE  /\ SubTexts(t) \in Seq(Small)
         /\ \A cell : Says(t, cell) /\ Lasting(cell)
              => \E s \in 1..Len(SubTexts(t)) : Says(SubTexts(t)[s], cell)
<1> DEFINE cs == Split(t, SubSize, 0, SubSeparators, 0)
           k == Len(cs)
           picked == [j \in DOMAIN cs |-> IF Blank(cs[j].text) THEN <<>> ELSE <<cs[j].text>>]
           flat == FlattenSeq(picked)
<1>1. SubTexts(t) = IF Blank(t) THEN <<>>
                    ELSE IF Holds(t, "open") \/ Len(t) <= SubSize THEN <<t>> ELSE flat
  BY DEF SubTexts
<1>2. ASSUME NEW u, NEW cell, u \in Seq(Cell), Says(u, cell), Lasting(cell) PROVE ~Blank(u)
  <2>1. PICK x \in 1..Len(u) : u[x] = cell  BY <1>2 DEF Says
  <2>2. x \in DOMAIN u /\ u[x].k \notin Blanks  BY <1>2, <2>1 DEF Lasting
  <2> QED  BY <2>2 DEF Blank
<1>3. CASE Blank(t)
  <2>1. SubTexts(t) = <<>> /\ \A cell : ~(Says(t, cell) /\ Lasting(cell))  BY <1>1, <1>2, <1>3
  <2>2. <<>> \in Seq(Small)  OBVIOUS
  <2> QED  BY <2>1, <2>2
<1>4. CASE ~Blank(t) /\ (Holds(t, "open") \/ Len(t) <= SubSize)
  <2>1. SubTexts(t) = <<t>>  BY <1>1, <1>4
  <2>2. t \in Small  BY <1>4 DEF Small
  <2>3. <<t>> \in Seq(Small) /\ Len(<<t>>) = 1 /\ <<t>>[1] = t /\ 1 \in 1..1  BY <2>2
  <2> QED  BY <2>1, <2>3
<1>5. CASE ~Blank(t) /\ ~(Holds(t, "open") \/ Len(t) <= SubSize)
  <2>1. /\ Cuts(cs, t, 0, 0, SubSize, Len(t))
        /\ \A i \in 1..Len(t) : t[i].k \notin ToSet(SubSeparators) => InSome(cs, t[i])
    <3> DEFINE safe == SafeOverlap(SubSize, 0)
               m == Len(SubSeparators)
    <3>1. SubSize \in Nat \ {0} /\ 0 \in Nat /\ SubSeparators \in Seq(CellKinds) /\ m \in Nat
      BY SizesNatural DEF SubSeparators, CellKinds
    <3>2. safe = 0  BY <3>1 DEF SafeOverlap, Smaller
    <3>3. Longest(SubSize, safe, m) = SubSize
      <4>1. Extra(safe) = 0  BY <3>2 DEF Extra
      <4>2. m * 0 = 0 /\ SubSize + 0 = SubSize  BY <3>1
      <4> HIDE DEF m, safe
      <4> QED  BY <4>1, <4>2 DEF Longest
    <3>4. /\ Cuts(cs, t, 0, safe, Longest(SubSize, safe, m), Len(t))
          /\ \A i \in 1..Len(t) : t[i].k \notin ToSet(SubSeparators) => InSome(cs, t[i])
      BY <3>1, SplitCuts
    <3> HIDE DEF safe, cs, m
    <3> QED  BY <3>2, <3>3, <3>4
  <2>2. cs \in Seq(Passage) /\ k \in Nat /\ DOMAIN cs = 1..k
    <3> HIDE DEF cs
    <3> QED  BY <2>1 DEF Cuts
  <2> HIDE DEF cs, k
  <2>3. \A j \in 1..k : cs[j].text \in Small
    <3> TAKE j \in 1..k
    <3>1. cs[j] \in Passage  BY <2>2 DEF k
    <3>2. cs[j].text \in Seq(Cell)  BY <3>1, PassageHas
    <3>3. Len(cs[j].text) <= SubSize  BY <2>1 DEF Cuts, Placed, k
    <3> QED  BY <3>2, <3>3 DEF Small
  <2>4. picked \in Seq(Seq(Small)) /\ Len(picked) = k
        /\ \A j \in 1..k : picked[j] = IF Blank(cs[j].text) THEN <<>> ELSE <<cs[j].text>>
    <3> DEFINE Q == Seq(Small)
               Pick(j) == IF Blank(cs[j].text) THEN <<>> ELSE <<cs[j].text>>
    <3>1. \A j \in 1..k : Pick(j) \in Q
      <4> TAKE j \in 1..k
      <4>1. cs[j].text \in Small  BY <2>3
      <4> DEFINE u == cs[j].text
      <4> HIDE DEF u
      <4>2. <<>> \in Q /\ <<u>> \in Q  BY <4>1 DEF u
      <4> HIDE DEF Q
      <4> QED  BY <4>2 DEF u
    <3>2. picked = [j \in 1..k |-> Pick(j)]  BY <2>2
    <3> HIDE DEF Q, Pick, picked
    <3>3. picked \in Seq(Q) /\ Len(picked) = k /\ \A j \in 1..k : picked[j] = Pick(j)
      BY <2>2, <3>1, <3>2
    <3> QED  BY <3>3 DEF Q, Pick
  <2> HIDE DEF picked
  <2>5. /\ flat \in Seq(Small)
        /\ \A j \in 1..k : \A x \in 1..Len(picked[j]) : \E y \in 1..Len(flat) : flat[y] = picked[j][x]
    BY <2>4, FlattenHas
  <2> HIDE DEF flat
  <2>6. ASSUME NEW cell, Says(t, cell), Lasting(cell)
        PROVE  \E s \in 1..Len(flat) : Says(flat[s], cell)
    <3>1. PICK i \in 1..Len(t) : t[i] = cell  BY <2>6 DEF Says
    <3>2. InSome(cs, cell)  BY <2>1, <2>6, <3>1 DEF Lasting
    <3>3. PICK j \in 1..k : Says(cs[j].text, cell)  BY <3>2 DEF InSome, k
    <3>4. cs[j].text \in Seq(Cell)  BY <2>3 DEF Small
    <3>5. picked[j] = <<cs[j].text>>  BY <1>2, <2>4, <2>6, <3>3, <3>4
    <3>6. 1 \in 1..Len(picked[j]) /\ picked[j][1] = cs[j].text  BY <3>5
    <3>7. PICK y \in 1..Len(flat) : flat[y] = cs[j].text  BY <2>5, <3>6
    <3> QED  BY <3>3, <3>7
  <2>7. SubTexts(t) = flat  BY <1>1, <1>5
  <2> QED  BY <2>5, <2>6, <2>7
<1> QED  BY <1>3, <1>4, <1>5

(* The subchunks of a file. *)
LEMMA SubchunksCut ==
  ASSUME NEW n \in Nat, NEW cs, DOMAIN cs = 1..n, \A c \in 1..n : cs[c].text \in Seq(Cell)
  PROVE  /\ Subchunks(cs) \in Seq([parent : 1..n, text : Small])
         /\ \A c \in 1..n : \A cell : Says(cs[c].text, cell) /\ Lasting(cell)
              => \E s \in 1..Len(Subchunks(cs)) : Says(Subchunks(cs)[s].text, cell)
<1> DEFINE X == [parent : 1..n, text : Small]
           ts(c) == SubTexts(cs[c].text)
           Row2(c) == [j \in DOMAIN ts(c) |-> [parent |-> c, text |-> ts(c)[j]]]
           kept == [c \in DOMAIN cs |-> Row2(c)]
           flat == FlattenSeq(kept)
<1>1. Subchunks(cs) = flat  BY DEF Subchunks
<1>2. ASSUME NEW c \in 1..n
      PROVE  /\ ts(c) \in Seq(Small)
             /\ \A cell : Says(cs[c].text, cell) /\ Lasting(cell)
                  => \E s \in 1..Len(ts(c)) : Says(ts(c)[s], cell)
  BY <1>2, SubTextsCut
<1> HIDE DEF ts
<1>3. ASSUME NEW c \in 1..n
      PROVE  /\ Row2(c) \in Seq(X) /\ Len(Row2(c)) = Len(ts(c))
             /\ \A j \in 1..Len(ts(c)) : Row2(c)[j] = [parent |-> c, text |-> ts(c)[j]]
  <2> DEFINE u == ts(c)
             m == Len(u)
             R(j) == [parent |-> c, text |-> u[j]]
  <2>1. u \in Seq(Small)  BY <1>2
  <2>2. Row2(c) = [j \in DOMAIN u |-> R(j)]  OBVIOUS
  <2> HIDE DEF u, Row2
  <2>3. m \in Nat /\ DOMAIN u = 1..m /\ \A j \in 1..m : u[j] \in Small  BY <2>1
  <2>4. \A j \in 1..m : R(j) \in X  BY <2>3
  <2>5. Row2(c) = [j \in 1..m |-> R(j)]  BY <2>2, <2>3
  <2> HIDE DEF X, R, m
  <2>6. Row2(c) \in Seq(X) /\ Len(Row2(c)) = m /\ \A j \in 1..m : Row2(c)[j] = R(j)
    BY <2>3, <2>4, <2>5
  <2> QED  BY <2>6 DEF m, u, R
<1> HIDE DEF X, Row2
<1>4. kept \in Seq(Seq(X)) /\ Len(kept) = n /\ \A c \in 1..n : kept[c] = Row2(c)
  <2> DEFINE Q == Seq(X)
  <2>1. \A c \in 1..n : Row2(c) \in Q  BY <1>3
  <2>2. kept = [c \in 1..n |-> Row2(c)]  OBVIOUS
  <2> HIDE DEF Q, kept
  <2>3. kept \in Seq(Q) /\ Len(kept) = n /\ \A c \in 1..n : kept[c] = Row2(c)  BY <2>1, <2>2
  <2> QED  BY <2>3 DEF Q
<1> HIDE DEF kept
<1>5. /\ flat \in Seq(X)
      /\ \A c \in 1..n : \A x \in 1..Len(kept[c]) : \E y \in 1..Len(flat) : flat[y] = kept[c][x]
  <2>1. kept \in Seq(Seq(X)) /\ Len(kept) = n  BY <1>4
  <2>2. /\ flat \in Seq(X)
        /\ \A c \in 1..Len(kept) : \A x \in 1..Len(kept[c]) :
             \E y \in 1..Len(flat) : flat[y] = kept[c][x]
    BY <2>1, FlattenHas, Zenon
  <2> QED  BY <2>1, <2>2
<1> HIDE DEF flat
<1>6. ASSUME NEW c \in 1..n, NEW cell, Says(cs[c].text, cell), Lasting(cell)
      PROVE  \E s \in 1..Len(flat) : Says(flat[s].text, cell)
  <2>1. PICK j \in 1..Len(ts(c)) : Says(ts(c)[j], cell)  BY <1>2, <1>6
  <2>2. j \in 1..Len(kept[c]) /\ kept[c][j] = [parent |-> c, text |-> ts(c)[j]]
    BY <1>3, <1>4, <2>1
  <2>3. PICK y \in 1..Len(flat) : flat[y] = kept[c][j]  BY <1>5, <2>2
  <2>4. flat[y].text = ts(c)[j]  BY <2>2, <2>3
  <2> QED  BY <2>1, <2>3, <2>4
<1> QED  BY <1>1, <1>5, <1>6 DEF X

-----------------------------------------------------------------------------
(* Rows of file_chunk that hold what a document says. *)
RowsOf(kept, doc, slack, cut) ==
  \E n \in Nat :
    /\ DOMAIN kept = 1..n
    /\ \A c \in 1..n : \E p \in Proper(doc, slack, cut) :
         kept[c].text = p.text /\ kept[c].start = p.start /\ kept[c].end = p.end
    /\ \A i \in 1..Len(doc) :
         /\ doc[i] \notin Blanks /\ doc[i] \notin ToSet(Separators)
         /\ doc[i] \notin ToSet(TableSeparators)
         => \E c \in 1..n : Says(kept[c].text, CellAt(doc, i))

(* The rows of file_chunk, for a document. *)
LEMMA PagedChunks ==
  ASSUME NEW doc \in Seq(CellKinds), NEW cut \in Cutting, NEW named \in BOOLEAN,
         NEW slack \in Nat, Holds(CellsOf(doc), "open") => Moved(named) <= slack,
         NEW mapping, NEW kept, kept = WithPages(Chunks(doc, named, cut), mapping)
  PROVE  RowsOf(kept, doc, slack, cut)
<1> DEFINE cs == Chunks(doc, named, cut)
           n == Len(cs)
           P == Proper(doc, slack, cut)
<1>1. /\ cs \in Seq(P)
      /\ \A i \in 1..Len(doc) :
           /\ doc[i] \notin Blanks /\ doc[i] \notin ToSet(Separators)
           /\ doc[i] \notin ToSet(TableSeparators)
           => InSome(cs, CellAt(doc, i))
  BY ChunksCut
<1> HIDE DEF cs, P
<1>2. n \in Nat /\ DOMAIN cs = 1..n /\ \A c \in 1..n : cs[c] \in P  BY <1>1
<1>3. DOMAIN kept = 1..n  BY <1>2 DEF WithPages, cs
<1>4. \A c \in 1..n : kept[c].text = cs[c].text /\ kept[c].start = cs[c].start /\ kept[c].end = cs[c].end
  BY <1>2 DEF WithPages, cs
<1>5. \A cell : InSome(cs, cell) => \E c \in 1..n : Says(kept[c].text, cell)
  BY <1>4 DEF InSome
<1> HIDE DEF n
<1> QED  BY <1>1, <1>2, <1>3, <1>4, <1>5 DEF P, RowsOf

(* What a proper chunk has. *)
LEMMA OfProper ==
  ASSUME NEW doc, NEW slack, NEW cut, NEW p \in Proper(doc, slack, cut)
  PROVE  /\ p.text \in Seq(Cell) /\ p.text # <<>> /\ Len(p.text) <= MostOf(p.text, cut)
         /\ p.start \in Int /\ p.end \in Int
         /\ -cut.overlap <= p.start /\ p.start < p.end /\ p.end <= Len(doc) + slack
         /\ Last(p.text).at > 0 => p.end - Last(p.text).at \in 0..slack
<1>1. p \in Passage  BY DEF Proper
<1>2. p.text \in Seq(Cell) /\ p.start \in Int /\ p.end \in Int  BY <1>1, PassageHas
<1> QED  BY <1>2 DEF Proper

(* What is embedded of them. *)
LEMMA EmbeddedTexts ==
  ASSUME NEW n \in Nat, NEW kept, DOMAIN kept = 1..n, \A c \in 1..n : kept[c].text \in Seq(Cell)
  PROVE  LET subs == Subchunks(kept)
             ts == TextsOf(subs)
         IN /\ ts \in Seq(Small) /\ ts \in Seq(Seq(Cell)) /\ Len(ts) = Len(subs) /\ Len(subs) \in Nat
            /\ \A s \in 1..Len(subs) : subs[s].parent \in 1..n
            /\ \A c \in 1..n : \A cell : Says(kept[c].text, cell) /\ Lasting(cell)
                 => \E s \in 1..Len(ts) : Says(ts[s], cell)
<1> DEFINE subs == Subchunks(kept)
           k == Len(subs)
           X == [parent : 1..n, text : Small]
           ts == TextsOf(subs)
<1>1. /\ subs \in Seq(X)
      /\ \A c \in 1..n : \A cell : Says(kept[c].text, cell) /\ Lasting(cell)
           => \E s \in 1..Len(subs) : Says(subs[s].text, cell)
  BY SubchunksCut
<1> HIDE DEF subs, X
<1>2. k \in Nat /\ DOMAIN subs = 1..k /\ \A s \in 1..k : subs[s] \in X  BY <1>1
<1>3. \A s \in 1..k : subs[s].parent \in 1..n /\ subs[s].text \in Small  BY <1>2 DEF X
<1>4. ts = [s \in 1..k |-> subs[s].text]  BY <1>2 DEF TextsOf
<1> HIDE DEF k, ts
<1>5. ts \in Seq(Small) /\ Len(ts) = k /\ \A s \in 1..k : ts[s] = subs[s].text
  BY <1>2, <1>3, <1>4
<1>6. ts \in Seq(Seq(Cell))
  <2> DEFINE Q == Seq(Cell)
  <2>1. \A s \in 1..k : ts[s] \in Q  BY <1>3, <1>5 DEF Small
  <2>2. ts = [s \in 1..k |-> ts[s]]  BY <1>5
  <2> HIDE DEF Q
  <2> QED  BY <1>2, <2>1, <2>2 DEF Q
<1> QED  BY <1>1, <1>2, <1>3, <1>5, <1>6 DEF k, ts, subs

-----------------------------------------------------------------------------
(* The invariant of an index *)

InputOK ==
  /\ DOMAIN input = InputFields
  /\ input.doc \in Seq(CellKinds) /\ input.cut \in Cutting
  /\ input.named \in BOOLEAN /\ input.again \subseteq BOOLEAN
  /\ LayoutOK(input.layout) /\ ClosesOK(input.closes)
  /\ \A q \in input.queries : QueryOK(q)

(* The chunks are those of the document as it was cut last, and the texts   *)
(* of the last call are their subchunks.                                    *)
ChunksOK ==
  /\ current = 0 => chunks = <<>> /\ pages = <<>>
  /\ current > 0 =>
       /\ pages = Mapping(input.layout, input.closes)
       /\ chunks = WithPages(Chunks(input.doc, input.named, input.cut), pages)
       /\ texts[current] = TextsOf(Subchunks(chunks))

(* An answer is that of a search of this document, as its index is now: the *)
(* index does not change under an answer.                                   *)
ByWords ==
  \E q \in input.queries :
    /\ q.method \in KeywordMethods
    /\ answer = [method |-> q.method, query |-> q, hits |-> Found(input.doc, chunks, q)]
ByVectors ==
  \E q \in input.queries, score \in [DOMAIN stored -> Scores] :
    /\ q.method = "vector_db"
    /\ LET parents == [i \in DOMAIN stored |-> [parent |-> ParentOf(i)]]
       IN answer = [method |-> q.method, query |-> q, score |-> score,
                    hits |-> ParentHits(parents, score, q.floor, q.ratio, q.maxResults)]
ByPages ==
  \E q \in input.queries :
    /\ q.method = "page"
    /\ answer = [method |-> q.method, query |-> q,
                  hits |-> PageSlices(input.doc, pages, q.from, q.to),
                  slice |-> RangeSlice(input.doc, pages, q.from, q.to, q.length),
                  pieces |-> Selected(input.layout, q.from, q.to)]
AnswerOK == answer = None \/ (stage \in {"done", "failed"} /\ (ByWords \/ ByVectors \/ ByPages))

IndexInv == InputOK /\ EmbeddingIInv(Seq(Cell)) /\ ChunksOK /\ AnswerOK

(* The name moves a chunk only where there is a table. *)
NameSlack == IF input.named /\ Holds(CellsOf(input.doc), "open") THEN Len(Name) ELSE 0

(* And never by more than the name is long.                                 *)
LEMMA SlackEnough ==
  ASSUME InputOK
  PROVE  /\ NameSlack \in Nat
         /\ Holds(CellsOf(input.doc), "open") => Moved(input.named) <= NameSlack
<1>1. Len(Name) \in Nat  BY DEF Name
<1> QED  BY <1>1 DEF NameSlack, Moved, InputOK

(* The chunks of an index that has begun. *)
LEMMA ChunksOfIndex ==
  ASSUME InputOK, ChunksOK, current > 0
  PROVE  RowsOf(chunks, input.doc, NameSlack, input.cut)
<1> DEFINE doc == input.doc
           cut == input.cut
           named == input.named
           slack == NameSlack
<1>1. doc \in Seq(CellKinds) /\ cut \in Cutting /\ named \in BOOLEAN  BY DEF InputOK
<1>2. slack \in Nat /\ (Holds(CellsOf(doc), "open") => Moved(named) <= slack)  BY SlackEnough
<1>3. chunks = WithPages(Chunks(doc, named, cut), pages)  BY DEF ChunksOK
<1> HIDE DEF doc, cut, named, slack
<1>4. RowsOf(chunks, doc, slack, cut)  BY <1>1, <1>2, <1>3, PagedChunks
<1> QED  BY <1>4 DEF doc, cut, slack

(* A document is cut, and its texts are embedded. *)
LEMMA CutKeeps ==
  ASSUME EmbeddingIInv(Seq(Cell)), InputOK', Cut
  PROVE  IndexInv'
<1> DEFINE given == TextsOf(Subchunks(chunks'))
<1>1. chunks' = WithPages(Chunks(input'.doc, input'.named, input'.cut), pages')
  BY DEF Cut
<1>2. /\ input'.doc \in Seq(CellKinds) /\ input'.cut \in Cutting /\ input'.named \in BOOLEAN
  BY DEF InputOK
<1>3. given \in Seq(Seq(Cell))
  <2> DEFINE slack == Len(Name)
  <2>1. slack \in Nat /\ Moved(input'.named) <= slack
    <3>1. Len(Name) \in Nat  BY DEF Name
    <3> QED  BY <3>1 DEF Moved
  <2> HIDE DEF slack
  <2>2. PICK n \in Nat :
          /\ DOMAIN chunks' = 1..n
          /\ \A c \in 1..n : \E p \in Proper(input'.doc, slack, input'.cut) : chunks'[c].text = p.text
    BY <1>1, <1>2, <2>1, PagedChunks DEF RowsOf
  <2>3. \A c \in 1..n : chunks'[c].text \in Seq(Cell)  BY <2>2, OfProper
  <2> QED  BY <2>2, <2>3, EmbeddedTexts
<1> HIDE DEF given
<1>4. PICK g \in Seq(Seq(Cell)) : g = given /\ StartCall(g)
  BY <1>3 DEF Cut, given
<1>5. EmbeddingIInv(Seq(Cell))'  BY <1>4, StartCallKeeps
<1>6. /\ current \in {0} \union Calls /\ DOMAIN texts = Calls
  BY DEF EmbeddingIInv, StageOK, CallsOK
<1>7. /\ current' = current + 1 /\ current' \in Calls
      /\ texts' = [texts EXCEPT ![current'] = g]
  BY <1>4 DEF StartCall
<1>8. texts'[current'] = given  BY <1>4, <1>6, <1>7
<1>9. Calls \subseteq Nat  BY CallsNumbered, FS_CardinalityType
<1>10. current' > 0
  <2>1. current \in Nat  BY <1>6, <1>9
  <2> QED  BY <1>7, <2>1
<1>11. ChunksOK'
  <2>1. current' # 0  BY <1>10
  <2>2. pages' = Mapping(input'.layout, input'.closes)  BY DEF Cut
  <2> QED  BY <1>1, <1>8, <1>10, <2>1, <2>2 DEF ChunksOK, given
<1>12. AnswerOK'  BY DEF Cut, AnswerOK
<1> QED  BY <1>5, <1>11, <1>12 DEF IndexInv

(* Before the first index nothing is cut or embedded.                       *)
LEMMA IndexStart == IndexInit => IndexInv
<1> SUFFICES ASSUME IndexInit PROVE IndexInv
  OBVIOUS
<1>1. InputOK  BY DocumentsTyped DEF IndexInit, InputOK
<1>2. EmbeddingIInv(Seq(Cell))  BY EmbeddingStart DEF IndexInit
<1>3. ChunksOK  BY DEF IndexInit, EmbeddingInit, ChunksOK
<1>4. AnswerOK  BY DEF IndexInit, AnswerOK
<1> QED  BY <1>1, <1>2, <1>3, <1>4 DEF IndexInv

(* No step breaks the invariant.                                            *)
LEMMA IndexStep == IndexInv /\ [IndexNext]_indexVars => IndexInv'
<1> SUFFICES ASSUME IndexInv, [IndexNext]_indexVars PROVE IndexInv'
  OBVIOUS
<1>1. InputOK /\ EmbeddingIInv(Seq(Cell)) /\ ChunksOK /\ AnswerOK  BY DEF IndexInv
<1>2. CASE Begin
  <2>1. input' = input /\ Cut
    BY <1>2 DEF Begin
  <2>2. InputOK'  BY <1>1, <2>1 DEF InputOK
  <2> QED  BY <1>1, <2>1, <2>2, CutKeeps
<1>3. CASE Again
  <2>1. PICK named \in {input.named} \union input.again : input' = [input EXCEPT !.named = named]
    BY <1>3 DEF Again
  <2>2. Cut  BY <1>3 DEF Again
  <2>3. InputOK'
    <3>1. named \in BOOLEAN  BY <1>1, <2>1 DEF InputOK
    <3>2. /\ input'.doc = input.doc /\ input'.cut = input.cut /\ input'.again = input.again
          /\ input'.named = named /\ DOMAIN input' = DOMAIN input
          /\ input'.layout = input.layout /\ input'.closes = input.closes
          /\ input'.queries = input.queries
      BY <1>1, <2>1 DEF InputOK, InputFields
    <3> QED  BY <1>1, <3>1, <3>2 DEF InputOK
  <2> QED  BY <1>1, <2>2, <2>3, CutKeeps
<1>4. CASE Work
  <2>1. /\ CallStep /\ input' = input /\ pages' = pages /\ chunks' = chunks /\ carried' = carried
        /\ answer' = answer
    BY <1>4 DEF Work
  <2>2. EmbeddingIInv(Seq(Cell))'  BY <1>1, <2>1, CallStepKeeps
  <2>3. texts' = texts /\ current' = current
    BY <2>1 DEF CallStep, Send, Answer, DropAnswer, RefuseBatch, Collect, Insert, InsertFails
  <2>4. AnswerOK'
    <3>1. CASE answer = None  BY <2>1, <3>1 DEF AnswerOK
    <3>2. CASE answer # None
      <4>1. stage \in {"done", "failed"}  BY <1>1, <3>2 DEF AnswerOK
      <4>2. stage' = stage /\ stored' = stored
        BY <2>1, <4>1 DEF CallStep, Send, Answer, DropAnswer, RefuseBatch, Broken, Collect, Insert, InsertFails
      <4>3. ByWords => ByWords'  BY <2>1 DEF ByWords
      <4>4. ByVectors => ByVectors'  BY <2>1, <4>2 DEF ByVectors, ParentOf
      <4>5. ByPages => ByPages'  BY <2>1 DEF ByPages
      <4> QED  BY <1>1, <3>2, <4>1, <4>2, <4>3, <4>4, <4>5 DEF AnswerOK
    <3> QED  BY <3>1, <3>2
  <2> QED  BY <1>1, <2>1, <2>2, <2>3, <2>4 DEF IndexInv, InputOK, ChunksOK
<1>5. CASE SearchWords \/ SearchVectors \/ SearchPages \/ UNCHANGED indexVars
  <2>1. UNCHANGED embeddingVars /\ UNCHANGED <<input, pages, chunks, carried>>
    BY <1>5 DEF SearchWords, SearchVectors, SearchPages, indexVars
  <2>2. EmbeddingIInv(Seq(Cell))'  BY <1>1, <2>1, EmbeddingRests
  <2>3. texts' = texts /\ current' = current /\ stage' = stage /\ stored' = stored
    BY <2>1 DEF embeddingVars
  <2>4. AnswerOK'
    <3>1. CASE SearchWords
      <4>1. stage \in {"done", "failed"}  BY <3>1 DEF SearchWords, Settled
      <4>2. ByWords'  BY <2>1, <3>1 DEF SearchWords, ByWords
      <4> QED  BY <2>3, <4>1, <4>2 DEF AnswerOK
    <3>2. CASE SearchVectors
      <4>1. stage \in {"done", "failed"}  BY <3>2 DEF SearchVectors, Settled
      <4>2. ByVectors'  BY <2>1, <2>3, <3>2 DEF SearchVectors, ByVectors, ParentOf
      <4> QED  BY <2>3, <4>1, <4>2 DEF AnswerOK
    <3>3. CASE SearchPages
      <4>1. stage \in {"done", "failed"}  BY <3>3 DEF SearchPages, Settled
      <4>2. ByPages'  BY <2>1, <3>3 DEF SearchPages, ByPages
      <4> QED  BY <2>3, <4>1, <4>2 DEF AnswerOK
    <3>4. CASE UNCHANGED indexVars
      <4>1. answer' = answer  BY <3>4 DEF indexVars
      <4>2. ByWords => ByWords'  BY <2>1, <4>1 DEF ByWords
      <4>3. ByVectors => ByVectors'  BY <2>1, <2>3, <4>1 DEF ByVectors, ParentOf
      <4>4. ByPages => ByPages'  BY <2>1, <4>1 DEF ByPages
      <4> QED  BY <1>1, <2>3, <4>1, <4>2, <4>3, <4>4 DEF AnswerOK
    <3> QED  BY <1>5, <3>1, <3>2, <3>3, <3>4
  <2> QED  BY <1>1, <2>1, <2>2, <2>3, <2>4 DEF IndexInv, InputOK, ChunksOK
<1> QED  BY <1>2, <1>3, <1>4, <1>5 DEF IndexNext

(* What IndexInv says holds at every time.                                  *)
LEMMA IndexInvariant == IndexSpec => []IndexInv
BY IndexStart, IndexStep, PTL DEF IndexSpec

-----------------------------------------------------------------------------
(* What the invariant says. *)

(* A cell of the document that is no separator is in a chunk and, with it,  *)
(* in a text that is embedded.                                              *)
LEMMA CellsStay ==
  ASSUME IndexInv
  PROVE  NothingLost
<1> DEFINE doc == input.doc
           ts == texts[current]
<1> SUFFICES ASSUME current > 0, NEW i \in DOMAIN doc, doc[i] \notin Lost
             PROVE  \E c \in DOMAIN chunks :
                      /\ \E j \in DOMAIN chunks[c].text : chunks[c].text[j].at = i
                      /\ \E s \in DOMAIN ts : \E j \in DOMAIN ts[s] : ts[s][j].at = i
  BY DEF NothingLost
<1>1. RowsOf(chunks, input.doc, NameSlack, input.cut)  BY ChunksOfIndex DEF IndexInv
<1>2. PICK n \in Nat :
        /\ DOMAIN chunks = 1..n
        /\ \A c \in 1..n : \E p \in Proper(doc, NameSlack, input.cut) : chunks[c].text = p.text
        /\ \A x \in 1..Len(doc) :
             /\ doc[x] \notin Blanks /\ doc[x] \notin ToSet(Separators)
             /\ doc[x] \notin ToSet(TableSeparators)
             => \E c \in 1..n : Says(chunks[c].text, CellAt(doc, x))
  BY <1>1 DEF RowsOf
<1>3. \A c \in 1..n : chunks[c].text \in Seq(Cell)  BY <1>2, OfProper
<1>4. ts = TextsOf(Subchunks(chunks))  BY DEF IndexInv, ChunksOK
<1>5. i \in 1..Len(doc) /\ i \in Nat  BY DEF IndexInv, InputOK
<1>6. PICK c \in 1..n : Says(chunks[c].text, CellAt(doc, i))  BY <1>2, <1>5 DEF Lost
<1>7. Lasting(CellAt(doc, i))  BY DEF Lasting, Lost, CellAt
<1>8. /\ ts \in Seq(Seq(Cell))
      /\ \E s \in 1..Len(ts) : Says(ts[s], CellAt(doc, i))
  BY <1>2, <1>3, <1>4, <1>6, <1>7, EmbeddedTexts
<1>9. PICK s \in 1..Len(ts) : Says(ts[s], CellAt(doc, i))  BY <1>8
<1>10. s \in DOMAIN ts /\ ts[s] \in Seq(Cell)
  <2> DEFINE Q == Seq(Cell)
  <2>1. ts \in Seq(Q)  BY <1>8
  <2> HIDE DEF Q
  <2>2. s \in DOMAIN ts /\ ts[s] \in Q  BY <1>9, <2>1
  <2> QED  BY <2>2 DEF Q
<1>11. CellAt(doc, i).at = i  BY DEF CellAt
<1>12. \E j \in DOMAIN ts[s] : ts[s][j].at = i
  BY <1>9, <1>10, <1>11 DEF Says
<1>13. \E j \in DOMAIN chunks[c].text : chunks[c].text[j].at = i
  BY <1>3, <1>6, <1>11 DEF Says
<1> QED  BY <1>2, <1>6, <1>10, <1>12, <1>13

(* The chunks, whether there are any or not. *)
LEMMA ChunksProper ==
  ASSUME IndexInv
  PROVE  \E n \in Nat :
           /\ DOMAIN chunks = 1..n
           /\ \A c \in 1..n : \E p \in Proper(input.doc, NameSlack, input.cut) :
                chunks[c].text = p.text /\ chunks[c].start = p.start /\ chunks[c].end = p.end
<1>1. CASE current > 0
  <2>1. RowsOf(chunks, input.doc, NameSlack, input.cut)  BY <1>1, ChunksOfIndex DEF IndexInv
  <2> QED  BY <2>1 DEF RowsOf
<1>2. CASE ~(current > 0)
  <2>1. current \in {0} \union Calls  BY DEF IndexInv, EmbeddingIInv, StageOK
  <2>2. Calls \subseteq Nat  BY CallsNumbered, FS_CardinalityType
  <2>3. current = 0 /\ current \in Nat
    <3>1. current \in Nat  BY <2>1, <2>2
    <3> QED  BY <1>2, <3>1
  <2>4. chunks = <<>>  BY <2>3 DEF IndexInv, ChunksOK
  <2>5. DOMAIN chunks = 1..0 /\ 1..0 = {}  BY <2>4
  <2> QED  BY <2>5
<1> QED  BY <1>1, <1>2

(* The sizes, of what is embedded and of the chunks. *)
LEMMA SizesBound ==
  ASSUME IndexInv
  PROVE  SizesKept
<1> DEFINE ts == texts[current]
<1>1. PICK n \in Nat :
        /\ DOMAIN chunks = 1..n
        /\ \A c \in 1..n : \E p \in Proper(input.doc, NameSlack, input.cut) : chunks[c].text = p.text
  BY ChunksProper
<1>2. \A c \in 1..n : chunks[c].text \in Seq(Cell)  BY <1>1, OfProper
<1>3. ASSUME current > 0, NEW s \in DOMAIN ts
      PROVE  Holds(ts[s], "open") \/ Len(ts[s]) <= SubSize
  <2>1. ts = TextsOf(Subchunks(chunks))  BY <1>3 DEF IndexInv, ChunksOK
  <2>2. ts \in Seq(Small)  BY <1>1, <1>2, <2>1, EmbeddedTexts
  <2>3. ts[s] \in Small  BY <1>3, <2>2
  <2> QED  BY <2>3 DEF Small
<1>4. ASSUME NEW c \in DOMAIN chunks
      PROVE  Len(chunks[c].text) <= MostOf(chunks[c].text, input.cut)
  BY <1>1, <1>4, OfProper
<1> QED  BY <1>3, <1>4 DEF SizesKept, MostOf

(* The spans. *)
LEMMA SpansWithin ==
  ASSUME IndexInv
  PROVE  SpansHold
<1>1. PICK n \in Nat :
        /\ DOMAIN chunks = 1..n
        /\ \A c \in 1..n : \E p \in Proper(input.doc, NameSlack, input.cut) :
             chunks[c].text = p.text /\ chunks[c].start = p.start /\ chunks[c].end = p.end
  BY ChunksProper
<1>2. ASSUME NEW c \in DOMAIN chunks
      PROVE  /\ -input.cut.overlap <= chunks[c].start /\ chunks[c].start < chunks[c].end
             /\ chunks[c].end <= Len(input.doc) + NameSlack
             /\ Last(chunks[c].text).at > 0 => chunks[c].end - Last(chunks[c].text).at \in 0..NameSlack
  <2>1. PICK p \in Proper(input.doc, NameSlack, input.cut) :
          chunks[c].text = p.text /\ chunks[c].start = p.start /\ chunks[c].end = p.end
    BY <1>1
  <2> QED  BY <2>1, OfProper
<1> QED  BY <1>2 DEF SpansHold, NameSlack

(* The types. *)
LEMMA IndexTyped ==
  ASSUME IndexInv
  PROVE  IndexTypeOK
<1>1. EmbeddingTypeOK  BY BatchesTyped DEF IndexInv
<1>2. PICK n \in Nat :
        /\ DOMAIN chunks = 1..n
        /\ \A c \in 1..n : \E p \in Proper(input.doc, NameSlack, input.cut) : chunks[c].text = p.text
  BY ChunksProper
<1>3. \A c \in 1..n : chunks[c].text \in Seq(Cell)  BY <1>2, OfProper
<1>4. \A c \in 1..n : \A j \in DOMAIN chunks[c].text : chunks[c].text[j] \in Cell
  BY <1>3
<1> QED  BY <1>1, <1>2, <1>4 DEF IndexTypeOK

-----------------------------------------------------------------------------
(* Nothing but separators is lost between the text, its chunks and what is  *)
(* embedded (NothingLost), whatever the document, the sizes and the         *)
(* separators: split_text_with_positions, chunk_content and                 *)
(* split_into_subchunks leave out no cell that is no separator or blank.    *)
THEOREM CellsSurvive == IndexSpec => []NothingLost
BY IndexInvariant, CellsStay, PTL

(* What is embedded and what is a chunk keeps its size (SizesKept).         *)
THEOREM SizesAreKept == IndexSpec => []SizesKept
BY IndexInvariant, SizesBound, PTL

(* The spans, by which pages and boxes are found, end where their texts end *)
(* and start at most an overlap before the document (SpansHold).            *)
THEOREM SpansStayWithin == IndexSpec => []SpansHold
BY IndexInvariant, SpansWithin, PTL

(* Every row of an index has the vector of its own text (VectorsMatch).     *)
THEOREM IndexVectors == IndexSpec => []VectorsMatch
<1>1. IndexInv => VectorsMatch  BY RowsMatch DEF IndexInv
<1> QED  BY <1>1, IndexInvariant, PTL

(* The chunks and the batches of an index have their types (IndexTypeOK).   *)
THEOREM IndexIsTyped == IndexSpec => []IndexTypeOK
BY IndexInvariant, IndexTyped, PTL

-----------------------------------------------------------------------------
(* Fields, index and evidence together: each step is one part's and leaves  *)
(* the variables of the others alone.                                       *)
DocInv == TypeOK /\ IndexInv /\ EvidenceInv /\ Gathering /\ EntriesOK

(* The variables of every part have their types. *)
THEOREM DocTypes == DocSpec => []DocTypeOK
<1>1. DocInit => DocInv
  BY InitTypes, IndexStart, EvidenceStart, GatheringStart DEF DocInit, DocInv
<1>2. DocInv /\ [DocNext]_docVars => DocInv'
  <2> SUFFICES ASSUME DocInv, [DocNext]_docVars PROVE DocInv'
    OBVIOUS
  <2>1. [Next]_vars /\ [IndexNext]_indexVars /\ [EvidenceNext]_evidenceVars
    BY DEF DocNext, docVars
  <2>2. TypeOK'  BY <2>1, StepTypes DEF DocInv
  <2>3. IndexInv'  BY <2>1, IndexStep DEF DocInv
  <2>4. EvidenceInv' /\ Gathering' /\ EntriesOK'
    BY <2>1, EvidenceStep, GatheringStep DEF DocInv
  <2> QED  BY <2>2, <2>3, <2>4 DEF DocInv
<1>3. DocInv => DocTypeOK
  BY IndexTyped, EvidenceTypes DEF DocInv, DocTypeOK
<1> QED  BY <1>1, <1>2, <1>3, PTL DEF DocSpec
=============================================================================

----------------------------- MODULE IngestProofs -----------------------------
(***************************************************************************)
(* Theorems about Chunking and Ingest, for every document, every limit,      *)
(* overlap, separator and batch size.                                       *)
(*                                                                         *)
(* The first half is about splitTextIntoChunks: what holds of the finished   *)
(* chunks and of the current one after each part of a page (SplitInv).  The  *)
(* second half follows a document through its batches (IngestInv).          *)
(***************************************************************************)
EXTENDS Ingest, SequenceLemmas

Interval == [from : Nat \ {0}, to : Nat]
Split == [chunks : Seq(Interval), current : Interval]

\* The page of an empty text.
Blank == <<0>>

\* What strings.Split can return of a text that does not fit into one chunk.
Splittable(page) == Sep = 0 => \A j \in DOMAIN page : page[j] > 0

-----------------------------------------------------------------------------
(***************************************************************************)
(* Parts                                                                    *)
(***************************************************************************)

\* Every end comes after the end before it.
EndsFrom(e, page) ==
    e = [i \in 0..Len(page) |->
            IF i = 0 THEN 0 ELSE e[i - 1] + page[i] + (IF i = 1 THEN 0 ELSE Sep)]

Gap(i) == IF i = 1 THEN 0 ELSE Sep

LEMMA EndsExist ==
  ASSUME NEW page \in Seq(Nat)
  PROVE  \E e : EndsFrom(e, page)
<1> DEFINE step == [z \in Nat \X (1..Len(page)) |-> z[1] + page[z[2]] + Gap(z[2])]
<1>1. PICK h \in [0..Len(page) -> Nat] : Iterated(h, Len(page), 0, step)
  <2>1. step \in [Nat \X (1..Len(page)) -> Nat]
    <3> SUFFICES ASSUME NEW z \in Nat \X (1..Len(page))
                 PROVE  z[1] + page[z[2]] + Gap(z[2]) \in Nat
      OBVIOUS
    <3>1. z[1] \in Nat /\ page[z[2]] \in Nat /\ Gap(z[2]) \in Nat
      BY ChunkingAssumption DEF Gap
    <3> QED
      BY <3>1
  <2>2. 0 \in Nat /\ Len(page) \in Nat
    OBVIOUS
  <2> HIDE DEF step
  <2> QED
    BY <2>1, <2>2, IterationExists
<1>2. \A i \in 0..Len(page) : i # 0 => h[i] = h[i - 1] + page[i] + Gap(i)
  <2> SUFFICES ASSUME NEW i \in 0..Len(page), i # 0
               PROVE  h[i] = h[i - 1] + page[i] + Gap(i)
    OBVIOUS
  <2>1. i \in 1..Len(page) /\ i - 1 \in 0..Len(page)
    OBVIOUS
  <2>2. <<h[i - 1], i>> \in Nat \X (1..Len(page))
    BY <1>1, <2>1
  <2>3. step[<<h[i - 1], i>>] = h[i - 1] + page[i] + Gap(i)
    BY <2>2
  <2>4. h[i] = step[<<h[i - 1], i>>]
    <3> HIDE DEF step
    <3> QED
      BY <1>1 DEF Iterated
  <2> HIDE DEF step
  <2> QED
    BY <2>3, <2>4
<1> HIDE DEF step
<1>3. h[0] = 0 /\ h = [i \in 0..Len(page) |-> h[i]]
  <2>1. 0 \in 0..Len(page)
    OBVIOUS
  <2>2. h[0] = 0
    BY <1>1, <2>1 DEF Iterated
  <2> QED
    BY <1>1, <2>2
<1>4. \A i \in 0..Len(page) :
         h[i] = IF i = 0 THEN 0 ELSE h[i - 1] + page[i] + (IF i = 1 THEN 0 ELSE Sep)
  BY <1>2, <1>3 DEF Gap
<1>5. EndsFrom(h, page)
  BY <1>3, <1>4, Zenon DEF EndsFrom
<1> QED
  BY <1>5

LEMMA EndsOf ==
  ASSUME NEW page \in Seq(Nat)
  PROVE  /\ Ends(page) \in [0..Len(page) -> Nat]
         /\ Ends(page)[0] = 0
         /\ \A i \in 1..Len(page) : Ends(page)[i] = Ends(page)[i - 1] + page[i] + Gap(i)
         /\ \A i, j \in 0..Len(page) : i <= j => Ends(page)[i] <= Ends(page)[j]
<1> DEFINE e == CHOOSE e : EndsFrom(e, page)
<1>1. EndsFrom(e, page)
  BY EndsExist
<1>2. Ends(page) = e
  BY DEF Ends, EndsFrom
<1> HIDE DEF e
<1>3. /\ e[0] = 0 /\ e = [i \in 0..Len(page) |-> e[i]]
      /\ \A i \in 1..Len(page) : e[i] = e[i - 1] + page[i] + Gap(i)
  <2>1. e = [i \in 0..Len(page) |-> e[i]]
    BY <1>1 DEF EndsFrom
  <2>2. \A i \in 0..Len(page) :
           e[i] = IF i = 0 THEN 0 ELSE e[i - 1] + page[i] + (IF i = 1 THEN 0 ELSE Sep)
    BY <1>1 DEF EndsFrom
  <2>3. 0 \in 0..Len(page) /\ \A i \in 1..Len(page) : i \in 0..Len(page) /\ i # 0
    OBVIOUS
  <2> QED
    BY <2>1, <2>2, <2>3 DEF Gap
<1> DEFINE P(i) == e[i] \in Nat /\ \A j \in 0..i : e[j] \in Nat /\ e[j] <= e[i]
           R == {i \in Nat : i <= Len(page) => P(i)}
<1>4. 0 \in R
  BY <1>3
<1>5. ASSUME NEW i \in Nat, i \in R PROVE i + 1 \in R
  <2> SUFFICES ASSUME i + 1 <= Len(page) PROVE P(i + 1)
    OBVIOUS
  <2>1. P(i) /\ i + 1 \in 1..Len(page) /\ (i + 1) - 1 = i
    BY <1>5
  <2>2. page[i + 1] \in Nat /\ Gap(i + 1) \in Nat
    BY <2>1, ChunkingAssumption DEF Gap
  <2>3. e[i + 1] = e[i] + page[i + 1] + Gap(i + 1)
    BY <1>3, <2>1
  <2>4. e[i + 1] \in Nat /\ e[i] <= e[i + 1]
    BY <2>1, <2>2, <2>3
  <2>5. \A j \in 0..(i + 1) : j \in 0..i \/ j = i + 1
    OBVIOUS
  <2> QED
    BY <2>1, <2>4, <2>5
<1>6. \A i \in 0..Len(page) : P(i)
  <2>1. Nat \subseteq R
    <3> HIDE DEF R
    <3> QED
      BY <1>4, <1>5, Induction
  <2>2. \A i \in 0..Len(page) : i \in R
    BY <2>1
  <2> HIDE DEF P
  <2> QED
    BY <2>2
<1>7. e \in [0..Len(page) -> Nat]
  BY <1>3, <1>6
<1>8. \A i, j \in 0..Len(page) : i <= j => e[i] <= e[j]
  BY <1>6
<1> QED
  BY <1>2, <1>3, <1>7, <1>8

LEMMA PartArithmetic ==
  ASSUME NEW a \in Nat, NEW w \in Nat, NEW g \in Nat, NEW e, e = a + w + g
  PROVE  /\ e + 1 - w = a + g + 1 /\ a + g + 1 \in Nat \ {0}
         /\ e + 1 - (e + 1 - w) = w
OBVIOUS

LEMMA PartOf ==
  ASSUME NEW page \in Seq(Nat), NEW i \in 1..Len(page)
  PROVE  /\ Part(page, i) \in Interval
         /\ Part(page, i).to = Ends(page)[i]
         /\ Part(page, i).from = Ends(page)[i - 1] + Gap(i) + 1
         /\ Length(Part(page, i)) = page[i]
<1> DEFINE p == Part(page, i) e == Ends(page)
<1>1. /\ e[i] \in Nat /\ e[i - 1] \in Nat /\ page[i] \in Nat /\ Gap(i) \in Nat
      /\ e[i] = e[i - 1] + page[i] + Gap(i)
  <2>1. i \in 0..Len(page) /\ i - 1 \in 0..Len(page)
    OBVIOUS
  <2>2. e \in [0..Len(page) -> Nat] /\ e[i] = e[i - 1] + page[i] + Gap(i)
    BY EndsOf
  <2> HIDE DEF e
  <2> QED
    BY <2>1, <2>2, ChunkingAssumption DEF Gap
<1>2. p = [from |-> e[i] + 1 - page[i], to |-> e[i]]
  BY DEF Part
<1> HIDE DEF p, e
<1>3. e[i] + 1 - page[i] = e[i - 1] + Gap(i) + 1
  BY <1>1, PartArithmetic
<1>4. e[i - 1] + Gap(i) + 1 \in Nat \ {0} /\ e[i] + 1 - (e[i] + 1 - page[i]) = page[i]
  <2> DEFINE n == e[i] a == e[i - 1] w == page[i] g == Gap(i)
  <2>1. a \in Nat /\ w \in Nat /\ g \in Nat /\ n = a + w + g
    BY <1>1
  <2> HIDE DEF n, a, w, g
  <2>2. a + g + 1 \in Nat \ {0} /\ n + 1 - (n + 1 - w) = w
    BY <2>1, PartArithmetic
  <2> QED
    BY <2>2 DEF n, a, w, g
<1>5. p \in Interval
  BY <1>1, <1>2, <1>3, <1>4 DEF Interval
<1>6. p.to = e[i] /\ p.from = e[i - 1] + Gap(i) + 1 /\ Length(p) = page[i]
  BY <1>2, <1>3, <1>4 DEF Length
<1> QED
  BY <1>5, <1>6 DEF p, e

-----------------------------------------------------------------------------
(***************************************************************************)
(* The current chunk                                                        *)
(***************************************************************************)

\* Part p comes next in the text after chunk c, with g characters between them.
IsNext(p, c, g) ==
    /\ c \in Interval /\ p \in Interval /\ g \in Nat
    /\ Length(c) >= 0 /\ Length(p) >= 0 /\ p.from = c.to + g + 1

\* A chunk with room for one more part.
LEMMA ExtendChunk ==
  ASSUME NEW c, NEW p, NEW g, IsNext(p, c, g), NEW d, d = Extend(c, p)
  PROVE  /\ d \in Interval /\ d.to = p.to /\ Length(d) >= 0 /\ Covers(d, p)
         /\ Length(d) <= Length(c) + g + Length(p)
         /\ \A b \in Interval : Length(b) > 0 /\ Covers(c, b) => Covers(d, b)
         /\ \A b \in Interval : Follows(c, b) => Follows(d, b)
<1>1. /\ c.from \in Nat \ {0} /\ c.to \in Nat /\ p.from \in Nat \ {0} /\ p.to \in Nat /\ g \in Nat
      /\ c.to + 1 - c.from >= 0 /\ p.to + 1 - p.from >= 0 /\ p.from = c.to + g + 1
  BY DEF IsNext, Interval, Length
<1>2. d \in Interval /\ d.to = p.to
  BY <1>1 DEF Extend, Interval, IsNext
<1>3. \/ d.from = c.from /\ c.to + 1 - c.from > 0
      \/ d.from = p.from /\ c.to + 1 - c.from <= 0
  BY <1>1 DEF Extend, Length
<1>4. /\ d.from \in Nat \ {0} /\ c.from <= d.from /\ d.from <= p.from /\ c.to <= d.to
      /\ d.to + 1 - d.from >= 0
      /\ d.to + 1 - d.from <= (c.to + 1 - c.from) + g + (p.to + 1 - p.from)
  BY <1>1, <1>2, <1>3
<1>5. ASSUME NEW b \in Interval, Length(b) > 0, Covers(c, b) PROVE Covers(d, b)
  <2>1. /\ b.from \in Nat /\ b.to \in Nat /\ b.to + 1 - b.from > 0
        /\ c.from <= b.from /\ b.to <= c.to
    BY <1>5 DEF Interval, Length, Covers
  <2>2. d.from = c.from
    BY <1>1, <1>3, <2>1
  <2> QED
    BY <1>1, <1>2, <1>4, <2>1, <2>2 DEF Covers
<1>6. ASSUME NEW b \in Interval, Follows(c, b) PROVE Follows(d, b)
  <2>1. b.to \in Nat /\ b.to < c.to /\ c.from + Overlap > b.to
    BY <1>6 DEF Interval, Follows
  <2>2. d.to \in Nat /\ b.to < d.to /\ d.from + Overlap > b.to
    BY <1>1, <1>2, <1>4, <2>1, ChunkingAssumption
  <2> QED
    BY <2>2 DEF Follows
<1>7. Covers(d, p)
  BY <1>1, <1>2, <1>4 DEF Covers
<1> QED
  BY <1>2, <1>4, <1>5, <1>6, <1>7 DEF Length

\* The chunk that starts with the end of a full one.
LEMMA NextChunk ==
  ASSUME NEW c, NEW p, NEW g, IsNext(p, c, g), NEW d, d = Extend(OverlapOf(c), p)
  PROVE  /\ d \in Interval /\ d.to = p.to /\ Length(d) >= 0 /\ Covers(d, p)
         /\ Length(d) <= Overlap + g + Length(p)
         /\ Length(c) > 0 /\ (g > 0 \/ Length(p) > 0) => Follows(d, c)
         /\ \A b \in Interval : Follows(c, b) /\ ~ (Length(c) > 0) => Follows(d, b)
<1> DEFINE o == OverlapOf(c)
<1>1. /\ c.from \in Nat \ {0} /\ c.to \in Nat /\ p.from \in Nat \ {0} /\ p.to \in Nat /\ g \in Nat
      /\ c.to + 1 - c.from >= 0 /\ p.to + 1 - p.from >= 0 /\ p.from = c.to + g + 1
      /\ Overlap \in Nat
  BY ChunkingAssumption DEF IsNext, Interval, Length
<1>2. /\ o.to = c.to
      /\ \/ o.from = c.to + 1 - Overlap /\ c.to + 1 - c.from > Overlap
         \/ o.from = c.to + 1 /\ ~ (c.to + 1 - c.from > Overlap)
  BY <1>1 DEF OverlapOf, Length
<1>3. o.from \in Nat \ {0} /\ o \in Interval
  <2>1. o.from \in Nat \ {0} /\ o.to \in Nat
    <3> HIDE DEF o
    <3> QED
      BY <1>1, <1>2
  <2>2. o = [from |-> o.from, to |-> o.to]
    BY DEF OverlapOf
  <2> HIDE DEF o
  <2> QED
    BY <2>1, <2>2 DEF Interval
<1> HIDE DEF o
<1>4. IsNext(p, o, g)
  <2>1. o.to + 1 - o.from >= 0
    BY <1>1, <1>2, <1>3
  <2> QED
    BY <1>1, <1>2, <1>3, <2>1 DEF IsNext, Length
<1>5. d = Extend(o, p)
  BY DEF o
<1>6. /\ d \in Interval /\ d.to = p.to /\ Length(d) >= 0 /\ Covers(d, p)
      /\ Length(d) <= Length(o) + g + Length(p)
  BY <1>4, <1>5, ExtendChunk
<1>7. \/ d.from = o.from /\ o.to + 1 - o.from > 0
      \/ d.from = p.from
  BY <1>5 DEF Extend, Length
<1>8. /\ d.from \in Nat /\ d.from + Overlap > c.to
      /\ ~ (c.to + 1 - c.from > 0) => d.from > c.to
  BY <1>1, <1>2, <1>3, <1>7
<1>9. o.to + 1 - o.from <= Overlap
  BY <1>1, <1>2, <1>3
<1>10. Length(d) <= Overlap + g + Length(p)
  <2>1. d.from \in Nat /\ d.to \in Nat
    BY <1>6 DEF Interval
  <2> QED
    BY <1>1, <1>2, <1>3, <1>6, <1>9, <2>1 DEF Length
<1>11. ASSUME Length(c) > 0, g > 0 \/ Length(p) > 0 PROVE Follows(d, c)
  <2>1. c.to < p.to
    BY <1>1, <1>11 DEF Length
  <2> QED
    BY <1>6, <1>8, <2>1 DEF Follows
<1>12. ASSUME NEW b \in Interval, Follows(c, b), ~ (Length(c) > 0) PROVE Follows(d, b)
  <2>1. b.to \in Nat /\ b.to < c.to
    BY <1>12 DEF Interval, Follows
  <2>2. d.from > c.to
    BY <1>8, <1>12 DEF Length
  <2>3. b.to < p.to /\ d.from + Overlap > b.to
    BY <1>1, <1>8, <2>1, <2>2
  <2> QED
    BY <1>6, <2>3 DEF Follows
<1> QED
  BY <1>6, <1>10, <1>11, <1>12

-----------------------------------------------------------------------------
(***************************************************************************)
(* Splitting a page                                                         *)
(***************************************************************************)

InSequence(cs) == \A k \in 2..Len(cs) : Follows(cs[k], cs[k - 1])

\* Every part of the page up to part i that is not empty is as a whole in one of the chunks.
KeepsUpTo(page, i, cs) ==
    \A j \in 1..i : page[j] > 0 => \E c \in cs : Covers(c, Part(page, j))

\* The split of a page after part i: the current chunk ends with that part.
SplitInv(page, i, split) ==
    /\ split \in Split
    /\ split.current.to = Ends(page)[i]
    /\ Length(split.current) >= 0
    /\ Length(split.current) > Limit
          => i # 0 /\ Length(split.current) <= Overlap + Sep + page[i]
    /\ KeepsUpTo(page, i, ToSet(split.chunks) \cup {split.current})
    /\ InSequence(split.chunks)
    /\ split.chunks # <<>> => Follows(split.current, split.chunks[Len(split.chunks)])
    /\ \A c \in ToSet(split.chunks) : Bounded(page, c)

NothingSplit == [chunks |-> <<>>, current |-> [from |-> 1, to |-> 0]]

LEMMA SplitInitially ==
  ASSUME NEW page \in Seq(Nat)
  PROVE  SplitInv(page, 0, NothingSplit)
<1>1. NothingSplit \in Split
  BY DEF NothingSplit, Split, Interval
<1>2. Ends(page)[0] = 0
  BY EndsOf
<1>3. Length(NothingSplit.current) = 0
  BY DEF NothingSplit, Length
<1>4. ToSet(<<>>) = {} /\ Len(<<>>) = 0
  BY DEF ToSet
<1>5. ~ (0 > Limit)
  BY ChunkingAssumption
<1> QED
  BY <1>1, <1>2, <1>3, <1>4, <1>5 DEF NothingSplit, SplitInv, KeepsUpTo, InSequence

\* The chunks with one more that follows the last one.
LEMMA AppendInterval ==
  ASSUME NEW cs \in Seq(Interval), NEW c \in Interval
  PROVE  /\ Append(cs, c) \in Seq(Interval) /\ Append(cs, c) # <<>>
         /\ ToSet(Append(cs, c)) = ToSet(cs) \cup {c}
         /\ Append(cs, c)[Len(Append(cs, c))] = c
         /\ InSequence(cs) /\ (cs # <<>> => Follows(c, cs[Len(cs)]))
               => InSequence(Append(cs, c))
<1> DEFINE s == Append(cs, c)
<1>1. /\ s \in Seq(Interval) /\ Len(cs) \in Nat /\ Len(s) = Len(cs) + 1
      /\ \A k \in 1..Len(cs) : s[k] = cs[k]
      /\ s[Len(cs) + 1] = c
  OBVIOUS
<1>2. DOMAIN s = 1..(Len(cs) + 1) /\ DOMAIN cs = 1..Len(cs)
  OBVIOUS
<1> HIDE DEF s
<1>3. s # <<>> /\ s[Len(s)] = c
  BY <1>1
<1>4. ToSet(s) = ToSet(cs) \cup {c}
  <2>1. ToSet(s) = {s[k] : k \in 1..(Len(cs) + 1)}
        /\ ToSet(cs) = {cs[k] : k \in 1..Len(cs)}
    BY <1>2 DEF ToSet
  <2>2. \A k \in 1..(Len(cs) + 1) : k \in 1..Len(cs) \/ k = Len(cs) + 1
    BY <1>1
  <2>3. Len(cs) + 1 \in 1..(Len(cs) + 1)
        /\ \A k \in 1..Len(cs) : k \in 1..(Len(cs) + 1)
    BY <1>1
  <2> QED
    BY <1>1, <2>1, <2>2, <2>3
<1>5. ASSUME InSequence(cs), cs # <<>> => Follows(c, cs[Len(cs)])
      PROVE  InSequence(s)
  <2> SUFFICES ASSUME NEW k \in 2..Len(s) PROVE Follows(s[k], s[k - 1])
    BY DEF InSequence
  <2>1. CASE k \in 2..Len(cs)
    <3>1. s[k] = cs[k] /\ s[k - 1] = cs[k - 1]
      BY <1>1, <2>1
    <3> QED
      BY <1>5, <2>1, <3>1 DEF InSequence
  <2>2. CASE k = Len(cs) + 1
    <3>1. s[k] = c /\ s[k - 1] = cs[Len(cs)] /\ cs # <<>>
      BY <1>1, <2>2
    <3> QED
      BY <1>5, <3>1
  <2> QED
    BY <1>1, <2>1, <2>2
<1> QED
  BY <1>1, <1>3, <1>4, <1>5 DEF s

\* What is between the current chunk and the next part.
LEMMA NextPart ==
  ASSUME NEW page \in Seq(Nat), NEW i \in 1..Len(page), NEW split, SplitInv(page, i - 1, split)
  PROVE  /\ IsNext(Part(page, i), split.current, Gap(i))
         /\ Gap(i) <= Sep
         /\ Length(Part(page, i)) = page[i] /\ page[i] \in Nat
         /\ Splittable(page) /\ Length(split.current) > 0 => Gap(i) > 0 \/ page[i] > 0
<1> DEFINE p == Part(page, i) c == split.current
<1>1. /\ p \in Interval /\ p.from = Ends(page)[i - 1] + Gap(i) + 1 /\ Length(p) = page[i]
  BY PartOf
<1>2. c \in Interval /\ Length(c) >= 0 /\ c.to = Ends(page)[i - 1]
  BY DEF SplitInv, Split
<1>3. page[i] \in Nat /\ Sep \in Nat /\ Gap(i) \in Nat /\ Gap(i) <= Sep
  BY ChunkingAssumption DEF Gap
<1> HIDE DEF p, c
<1>4. IsNext(p, c, Gap(i))
  BY <1>1, <1>2, <1>3 DEF IsNext
<1>5. ASSUME Splittable(page), Length(c) > 0 PROVE Gap(i) > 0 \/ page[i] > 0
  <2>1. i # 1
    <3> SUFFICES ASSUME i = 1 PROVE FALSE
      OBVIOUS
    <3>1. c.to = 0
      BY <1>2, EndsOf
    <3> QED
      BY <1>2, <1>5, <3>1 DEF Interval, Length
  <2> QED
    BY <1>3, <1>5, <2>1 DEF Splittable, Gap
<1> QED
  BY <1>1, <1>3, <1>4, <1>5 DEF p, c

\* The parts up to i - 1 are in old chunks, and each old chunk that holds one is in a new one.
LEMMA KeepsOneMore ==
  ASSUME NEW page \in Seq(Nat), NEW i \in 1..Len(page), NEW old, NEW new,
         KeepsUpTo(page, i - 1, old),
         \A b \in Interval : \A c \in old :
            Length(b) > 0 /\ Covers(c, b) => \E d \in new : Covers(d, b),
         \E d \in new : Covers(d, Part(page, i))
  PROVE  KeepsUpTo(page, i, new)
<1> SUFFICES ASSUME NEW j \in 1..i, page[j] > 0
             PROVE  \E c \in new : Covers(c, Part(page, j))
  BY DEF KeepsUpTo
<1>1. CASE j = i
  BY <1>1
<1>2. CASE j # i
  <2>1. j \in 1..(i - 1) /\ j \in 1..Len(page)
    BY <1>2
  <2>2. PICK c \in old : Covers(c, Part(page, j))
    BY <2>1 DEF KeepsUpTo
  <2>3. Part(page, j) \in Interval /\ Length(Part(page, j)) > 0
    BY <2>1, PartOf
  <2> QED
    BY <2>2, <2>3
<1> QED
  BY <1>1, <1>2

\* What covers a text has a text.
LEMMA CoverIsLonger ==
  ASSUME NEW c \in Interval, NEW b \in Interval, Covers(c, b), Length(b) > 0
  PROVE  Length(c) > 0
<1>1. /\ c.from \in Nat /\ c.to \in Nat /\ b.from \in Nat /\ b.to \in Nat
      /\ c.from <= b.from /\ b.to <= c.to /\ b.to + 1 - b.from > 0
  BY DEF Interval, Covers, Length
<1>2. c.to + 1 - c.from > 0
  BY <1>1
<1> QED
  BY <1>2 DEF Length

\* With room for a part of length w, and a gap g in place of a separator s, the sum fits.
LEMMA FitsIn ==
  ASSUME NEW x \in Int, NEW y \in Int, NEW w \in Nat, NEW g \in Nat, NEW s \in Nat,
         NEW limit \in Nat, y <= x + g + w, g <= s, ~ (x + w + s > limit)
  PROVE  ~ (y > limit)
OBVIOUS

\* One more part.
LEMMA SplitStep ==
  ASSUME NEW page \in Seq(Nat), Splittable(page), NEW i \in 1..Len(page), NEW split,
         SplitInv(page, i - 1, split)
  PROVE  SplitInv(page, i, AddPart(split, Part(page, i)))
<1> DEFINE p == Part(page, i) c == split.current cs == split.chunks
           after == AddPart(split, p) d == after.current
<1>1. /\ split \in Split /\ c \in Interval /\ cs \in Seq(Interval) /\ Length(c) >= 0
      /\ c.to = Ends(page)[i - 1]
      /\ Length(c) > Limit => i - 1 # 0 /\ Length(c) <= Overlap + Sep + page[i - 1]
      /\ KeepsUpTo(page, i - 1, ToSet(cs) \cup {c})
      /\ InSequence(cs)
      /\ cs # <<>> => Follows(c, cs[Len(cs)])
      /\ \A b \in ToSet(cs) : b \in Interval /\ Bounded(page, b)
  BY DEF SplitInv, Split, ToSet
<1>2. /\ IsNext(p, c, Gap(i)) /\ Gap(i) <= Sep /\ Gap(i) \in Nat
      /\ p \in Interval /\ p.to = Ends(page)[i]
      /\ Length(p) = page[i] /\ page[i] \in Nat
      /\ Length(c) > 0 => Gap(i) > 0 \/ Length(p) > 0
  <2>1. i \in 1..Len(page) /\ page[i] \in Nat
    OBVIOUS
  <2> QED
    BY <2>1, NextPart, PartOf DEF IsNext
<1>3. Limit \in Nat /\ Overlap \in Nat /\ Sep \in Nat /\ Length(c) \in Int
  BY <1>1, ChunkingAssumption DEF Interval, Length
<1>4. CASE IsFull(c, p)
  <2>1. after = [chunks |-> AppendChunk(cs, c), current |-> Extend(OverlapOf(c), p)]
    BY <1>4 DEF AddPart
  <2>2. after.chunks = AppendChunk(cs, c) /\ d = Extend(OverlapOf(c), p)
    BY <2>1
  <2> HIDE DEF after, d, c, p, cs
  <2>3. /\ d \in Interval /\ d.to = p.to /\ Length(d) >= 0 /\ Covers(d, p)
        /\ Length(d) <= Overlap + Gap(i) + Length(p)
        /\ Length(c) > 0 => Follows(d, c)
        /\ \A b \in Interval : Follows(c, b) /\ ~ (Length(c) > 0) => Follows(d, b)
    BY <1>2, <2>2, NextChunk
  <2>4. Length(d) <= Overlap + Sep + page[i]
    <3>1. Length(d) \in Int
      BY <2>3 DEF Interval, Length
    <3> QED
      BY <1>2, <1>3, <2>3, <3>1
  <2>5. /\ after.chunks \in Seq(Interval)
        /\ InSequence(after.chunks)
        /\ after.chunks # <<>> => Follows(d, after.chunks[Len(after.chunks)])
        /\ \A b \in ToSet(after.chunks) : b \in ToSet(cs) \/ (b = c /\ Length(c) > 0)
        /\ ToSet(cs) \subseteq ToSet(after.chunks)
        /\ Length(c) > 0 => c \in ToSet(after.chunks)
    <3>1. CASE Length(c) > 0
      <4>1. after.chunks = Append(cs, c)
        BY <2>2, <3>1 DEF AppendChunk
      <4> QED
        BY <1>1, <2>3, <3>1, <4>1, AppendInterval
    <3>2. CASE ~ (Length(c) > 0)
      <4>1. after.chunks = cs
        BY <2>2, <3>2 DEF AppendChunk
      <4>2. cs # <<>> => cs[Len(cs)] \in Interval
        BY <1>1
      <4> QED
        BY <1>1, <2>3, <3>2, <4>1, <4>2
    <3> QED
      BY <3>1, <3>2
  <2>6. Length(c) > 0 => Bounded(page, c)
    <3> SUFFICES ASSUME Length(c) > 0, Length(c) > Limit
                 PROVE  \E j \in DOMAIN page : /\ Part(page, j).to = c.to
                                               /\ Length(c) <= Overlap + Sep + page[j]
      BY DEF Bounded
    <3>1. i - 1 \in 1..Len(page) /\ i - 1 \in DOMAIN page
      BY <1>1
    <3>2. Part(page, i - 1).to = c.to
      BY <1>1, <3>1, PartOf
    <3> QED
      BY <1>1, <3>1, <3>2
  <2>7. KeepsUpTo(page, i, ToSet(after.chunks) \cup {d})
    <3>1. \A b \in Interval : \A x \in ToSet(cs) \cup {c} :
             Length(b) > 0 /\ Covers(x, b) => \E y \in ToSet(after.chunks) \cup {d} : Covers(y, b)
      <4> SUFFICES ASSUME NEW b \in Interval, NEW x \in ToSet(cs) \cup {c},
                          Length(b) > 0, Covers(x, b)
                   PROVE  x \in ToSet(after.chunks)
        OBVIOUS
      <4>1. CASE x \in ToSet(cs)
        BY <2>5, <4>1
      <4>2. CASE x = c
        <5>1. Length(c) > 0
          BY <1>1, <4>2, CoverIsLonger
        <5> QED
          BY <2>5, <4>2, <5>1
      <4> QED
        BY <4>1, <4>2
    <3>2. \E y \in ToSet(after.chunks) \cup {d} : Covers(y, Part(page, i))
      BY <2>3 DEF p
    <3> QED
      BY <1>1, <3>1, <3>2, KeepsOneMore
  <2>8. after \in Split /\ after.current = d
    <3>1. after = [chunks |-> after.chunks, current |-> d]
      BY <2>1, <2>2
    <3> QED
      BY <2>3, <2>5, <3>1 DEF Split
  <2>9. SplitInv(page, i, after)
    BY <1>1, <1>2, <2>3, <2>4, <2>5, <2>6, <2>7, <2>8 DEF SplitInv
  <2> QED
    BY <2>9 DEF after, p
<1>5. CASE ~ IsFull(c, p)
  <2>1. after = [chunks |-> cs, current |-> Extend(c, p)]
    BY <1>5 DEF AddPart
  <2>2. after.chunks = cs /\ d = Extend(c, p)
    BY <2>1
  <2>3. ~ (Length(c) + Length(p) + Sep > Limit)
    BY <1>5 DEF IsFull
  <2> HIDE DEF after, d, c, p, cs
  <2>4. /\ d \in Interval /\ d.to = p.to /\ Length(d) >= 0 /\ Covers(d, p)
        /\ Length(d) <= Length(c) + Gap(i) + Length(p)
        /\ \A b \in Interval : Length(b) > 0 /\ Covers(c, b) => Covers(d, b)
        /\ \A b \in Interval : Follows(c, b) => Follows(d, b)
    BY <1>2, <2>2, ExtendChunk
  <2>5. ~ (Length(d) > Limit)
    <3>1. Length(d) \in Int
      BY <2>4 DEF Interval, Length
    <3> QED
      BY <1>2, <1>3, <2>3, <2>4, <3>1, FitsIn
  <2>6. cs # <<>> => Follows(d, cs[Len(cs)])
    <3>1. cs # <<>> => cs[Len(cs)] \in Interval
      BY <1>1
    <3> QED
      BY <1>1, <2>4, <3>1
  <2>7. KeepsUpTo(page, i, ToSet(cs) \cup {d})
    <3>1. \A b \in Interval : \A x \in ToSet(cs) \cup {c} :
             Length(b) > 0 /\ Covers(x, b) => \E y \in ToSet(cs) \cup {d} : Covers(y, b)
      BY <2>4
    <3>2. \E y \in ToSet(cs) \cup {d} : Covers(y, Part(page, i))
      BY <2>4 DEF p
    <3> QED
      BY <1>1, <3>1, <3>2, KeepsOneMore
  <2>8. after \in Split /\ after.current = d
    <3>1. after = [chunks |-> cs, current |-> d]
      BY <2>1, <2>2
    <3> QED
      BY <1>1, <2>4, <3>1 DEF Split
  <2>9. SplitInv(page, i, after)
    BY <1>1, <1>2, <2>2, <2>4, <2>5, <2>6, <2>7, <2>8 DEF SplitInv
  <2> QED
    BY <2>9 DEF after, p
<1> QED
  BY <1>4, <1>5

\* Whatever the current chunk is, a part makes it another one.
LEMMA AddPartTyped ==
  ASSUME NEW split \in Split, NEW p \in Interval
  PROVE  AddPart(split, p) \in Split
<1> DEFINE c == split.current o == OverlapOf(c)
<1>1. c \in Interval /\ split.chunks \in Seq(Interval)
  BY DEF Split
<1>2. AppendChunk(split.chunks, c) \in Seq(Interval)
  BY <1>1 DEF AppendChunk
<1>3. Extend(c, p) \in Interval
  BY <1>1 DEF Extend, Interval
<1>4. o \in Interval
  <2>1. c.from \in Nat \ {0} /\ c.to \in Nat /\ Overlap \in Nat
    BY <1>1, ChunkingAssumption DEF Interval
  <2> HIDE DEF c
  <2>2. CASE Length(c) > Overlap
    <3>1. c.to + 1 - Overlap \in Nat \ {0}
      BY <2>1, <2>2 DEF Length
    <3> QED
      BY <2>1, <2>2, <3>1 DEF OverlapOf, Interval
  <2>3. CASE ~ (Length(c) > Overlap)
    <3>1. c.to + 1 \in Nat \ {0}
      BY <2>1
    <3> QED
      BY <2>1, <2>3, <3>1 DEF OverlapOf, Interval
  <2> QED
    BY <2>2, <2>3
<1>5. Extend(o, p) \in Interval
  <2> HIDE DEF o
  <2> QED
    BY <1>4 DEF Extend, Interval
<1> QED
  BY <1>1, <1>2, <1>3, <1>5 DEF AddPart, Split

\* The recursion of SplitTextIntoChunks.
SplitsBy(f, page) ==
    f = [i \in 0..Len(page) |->
            IF i = 0 THEN [chunks |-> <<>>, current |-> [from |-> 1, to |-> 0]]
                     ELSE LET before == f[i - 1] IN AddPart(before, Part(page, i))]

LEMMA SplitExists ==
  ASSUME NEW page \in Seq(Nat)
  PROVE  \E f : SplitsBy(f, page)
<1> DEFINE step == [z \in Split \X (1..Len(page)) |-> AddPart(z[1], Part(page, z[2]))]
<1>1. PICK h \in [0..Len(page) -> Split] : Iterated(h, Len(page), NothingSplit, step)
  <2>1. step \in [Split \X (1..Len(page)) -> Split]
    <3> SUFFICES ASSUME NEW z \in Split \X (1..Len(page))
                 PROVE  AddPart(z[1], Part(page, z[2])) \in Split
      OBVIOUS
    <3>1. z[1] \in Split /\ z[2] \in 1..Len(page)
      OBVIOUS
    <3> QED
      BY <3>1, PartOf, AddPartTyped
  <2>2. NothingSplit \in Split /\ Len(page) \in Nat
    BY DEF NothingSplit, Split, Interval
  <2> HIDE DEF step
  <2> QED
    BY <2>1, <2>2, IterationExists
<1>2. \A i \in 0..Len(page) : i # 0 => h[i] = AddPart(h[i - 1], Part(page, i))
  <2> SUFFICES ASSUME NEW i \in 0..Len(page), i # 0
               PROVE  h[i] = AddPart(h[i - 1], Part(page, i))
    OBVIOUS
  <2>1. i \in 1..Len(page) /\ i - 1 \in 0..Len(page)
    OBVIOUS
  <2>2. <<h[i - 1], i>> \in Split \X (1..Len(page))
    BY <1>1, <2>1
  <2>3. step[<<h[i - 1], i>>] = AddPart(h[i - 1], Part(page, i))
    BY <2>2
  <2>4. h[i] = step[<<h[i - 1], i>>]
    <3> HIDE DEF step
    <3> QED
      BY <1>1 DEF Iterated
  <2> HIDE DEF step
  <2> QED
    BY <2>3, <2>4
<1> HIDE DEF step
<1>3. h[0] = NothingSplit /\ h = [i \in 0..Len(page) |-> h[i]]
  <2>1. 0 \in 0..Len(page)
    OBVIOUS
  <2>2. h[0] = NothingSplit
    BY <1>1, <2>1 DEF Iterated
  <2> QED
    BY <1>1, <2>2
<1>4. \A i \in 0..Len(page) :
         h[i] = IF i = 0 THEN NothingSplit ELSE AddPart(h[i - 1], Part(page, i))
  BY <1>2, <1>3
<1>5. SplitsBy(h, page)
  BY <1>3, <1>4, Zenon DEF SplitsBy, NothingSplit
<1> QED
  BY <1>5

\* After every part of a page SplitInv holds.
LEMMA SplitAlong ==
  ASSUME NEW page \in Seq(Nat), Splittable(page), NEW f, SplitsBy(f, page)
  PROVE  \A i \in 0..Len(page) : SplitInv(page, i, f[i])
<1>1. \A i \in 0..Len(page) :
         f[i] = IF i = 0 THEN NothingSplit ELSE AddPart(f[i - 1], Part(page, i))
  BY Zenon DEF SplitsBy, NothingSplit
<1>2. f[0] = NothingSplit /\ \A i \in 1..Len(page) : f[i] = AddPart(f[i - 1], Part(page, i))
  BY <1>1
<1> DEFINE R == {i \in Nat : i <= Len(page) => SplitInv(page, i, f[i])}
<1>3. 0 \in R
  BY <1>2, SplitInitially
<1>4. ASSUME NEW i \in Nat, i \in R PROVE i + 1 \in R
  <2> SUFFICES ASSUME i + 1 <= Len(page) PROVE SplitInv(page, i + 1, f[i + 1])
    OBVIOUS
  <2>1. SplitInv(page, i, f[i]) /\ i + 1 \in 1..Len(page) /\ (i + 1) - 1 = i
    BY <1>4
  <2>2. f[i + 1] = AddPart(f[i], Part(page, i + 1))
    BY <1>2, <2>1
  <2> QED
    BY <2>1, <2>2, SplitStep
<1>5. Nat \subseteq R
  <2> HIDE DEF R
  <2> QED
    BY <1>3, <1>4, Induction
<1> QED
  BY <1>5

\* The text of a page that fits into one chunk.
LEMMA WholePage ==
  ASSUME NEW page \in Seq(Nat), Length(Text(page)) <= Limit
  PROVE  /\ <<Text(page)>> \in Seq(Interval)
         /\ KeepsText(page, ToSet(<<Text(page)>>))
         /\ InSequence(<<Text(page)>>)
         /\ \A c \in ToSet(<<Text(page)>>) : Bounded(page, c)
<1> DEFINE t == Text(page) n == Len(page)
<1>1. t.from = 1 /\ t.to = Ends(page)[n] /\ t \in Interval
  <2>1. Ends(page)[n] \in Nat
    BY EndsOf
  <2> QED
    BY <2>1 DEF Text, Interval
<1> HIDE DEF t
<1>2. ToSet(<<t>>) = {t} /\ <<t>> \in Seq(Interval) /\ Len(<<t>>) = 1
  BY <1>1 DEF ToSet
<1>3. KeepsText(page, {t})
  <2> SUFFICES ASSUME NEW i \in 1..n PROVE Covers(t, Part(page, i))
    BY DEF KeepsText
  <2>1. /\ Part(page, i).from \in Nat \ {0} /\ Part(page, i).to = Ends(page)[i]
        /\ Ends(page)[i] <= Ends(page)[n]
    BY PartOf, EndsOf DEF Interval
  <2> QED
    BY <1>1, <2>1 DEF Covers
<1>4. ~ (Length(t) > Limit)
  BY <1>1, ChunkingAssumption DEF Interval, Length, t
<1>5. InSequence(<<t>>) /\ Bounded(page, t)
  BY <1>2, <1>4 DEF InSequence, Bounded
<1> QED
  BY <1>2, <1>3, <1>5 DEF t

\* splitTextIntoChunks loses no part of any page, whatever its limit, overlap and separator;
\* its chunks are in order, overlap by no more than wanted, and are bounded.
THEOREM SplitKeepsText ==
  ASSUME NEW page \in Seq(Nat), page = Blank \/ Splittable(page)
  PROVE  /\ SplitTextIntoChunks(page) \in Seq(Interval)
         /\ KeepsText(page, ToSet(SplitTextIntoChunks(page)))
         /\ InSequence(SplitTextIntoChunks(page))
         /\ \A c \in ToSet(SplitTextIntoChunks(page)) : Bounded(page, c)
<1> DEFINE f == CHOOSE f : SplitsBy(f, page)
           last == f[Len(page)]
           cs == SplitTextIntoChunks(page)
<1>1. SplitsBy(f, page)
  BY SplitExists
<1>2. cs = IF Length(Text(page)) <= Limit
             THEN <<Text(page)>>
             ELSE AppendChunk(last.chunks, last.current)
  BY DEF SplitTextIntoChunks, SplitsBy
<1> HIDE DEF f, cs
<1>3. CASE Length(Text(page)) <= Limit
  BY <1>2, <1>3, WholePage DEF cs
<1>4. CASE ~ (Length(Text(page)) <= Limit)
  <2>1. Splittable(page)
    <3> SUFFICES ASSUME page = Blank PROVE FALSE
      OBVIOUS
    <3>1. Len(page) = 1 /\ page[1] = 0
      BY DEF Blank
    <3>2. Ends(page)[1] = Ends(page)[0] + 0 + Gap(1) /\ Ends(page)[0] = 0
      <4>1. 1 \in 1..Len(page) /\ 1 - 1 = 0
        BY <3>1
      <4>2. Ends(page)[1] = Ends(page)[1 - 1] + page[1] + Gap(1) /\ Ends(page)[0] = 0
        BY <4>1, EndsOf
      <4> QED
        BY <3>1, <4>1, <4>2
    <3>3. Length(Text(page)) = 0
      BY <3>1, <3>2 DEF Text, Length, Gap
    <3> QED
      BY <1>4, <3>3, ChunkingAssumption
  <2>2. SplitInv(page, Len(page), last)
    <3>1. Len(page) \in 0..Len(page)
      OBVIOUS
    <3> QED
      BY <1>1, <2>1, <3>1, SplitAlong
  <2> HIDE DEF last
  <2>3. cs = AppendChunk(last.chunks, last.current)
    BY <1>2, <1>4
  <2>4. /\ last.chunks \in Seq(Interval) /\ last.current \in Interval
        /\ KeepsUpTo(page, Len(page), ToSet(last.chunks) \cup {last.current})
        /\ InSequence(last.chunks)
        /\ last.chunks # <<>> => Follows(last.current, last.chunks[Len(last.chunks)])
        /\ \A c \in ToSet(last.chunks) : Bounded(page, c)
    BY <2>2 DEF SplitInv, Split
  <2>5. /\ cs \in Seq(Interval) /\ InSequence(cs)
        /\ ToSet(last.chunks) \subseteq ToSet(cs)
        /\ Length(last.current) > 0 => last.current \in ToSet(cs)
        /\ \A c \in ToSet(cs) : c \in ToSet(last.chunks) \/ c = last.current
    <3>1. CASE Length(last.current) > 0
      <4>1. cs = Append(last.chunks, last.current)
        BY <2>3, <3>1 DEF AppendChunk
      <4> QED
        BY <2>4, <4>1, AppendInterval
    <3>2. CASE ~ (Length(last.current) > 0)
      BY <2>3, <2>4, <3>2 DEF AppendChunk
    <3> QED
      BY <3>1, <3>2
  <2>6. KeepsText(page, ToSet(cs))
    <3> SUFFICES ASSUME NEW i \in 1..Len(page), page[i] > 0
                 PROVE  \E c \in ToSet(cs) : Covers(c, Part(page, i))
      BY DEF KeepsText
    <3>1. PICK c \in ToSet(last.chunks) \cup {last.current} : Covers(c, Part(page, i))
      BY <2>4 DEF KeepsUpTo
    <3>2. c = last.current => Length(last.current) > 0
      <4>1. Part(page, i) \in Interval /\ Length(Part(page, i)) > 0
        BY PartOf
      <4> QED
        BY <2>4, <3>1, <4>1 DEF Interval, Length, Covers
    <3> QED
      BY <2>5, <3>1, <3>2
  <2>7. Bounded(page, last.current)
    <3> SUFFICES ASSUME Length(last.current) > Limit
                 PROVE  \E i \in DOMAIN page :
                           /\ Part(page, i).to = last.current.to
                           /\ Length(last.current) <= Overlap + Sep + page[i]
      BY DEF Bounded
    <3>1. /\ Len(page) # 0 /\ last.current.to = Ends(page)[Len(page)]
          /\ Length(last.current) <= Overlap + Sep + page[Len(page)]
      BY <2>2 DEF SplitInv
    <3>2. Len(page) \in 1..Len(page) /\ Len(page) \in DOMAIN page
      BY <3>1
    <3> QED
      BY <3>1, <3>2, PartOf
  <2> QED
    BY <2>4, <2>5, <2>6, <2>7 DEF cs
<1> QED
  BY <1>3, <1>4

-----------------------------------------------------------------------------
(***************************************************************************)
(* The chunks of a document                                                 *)
(***************************************************************************)

Chunk(d) == [page : DOMAIN d, from : Nat \ {0}, to : Nat]

\* NoTextLost and ChunkSizeBounded, for any chunks of any document.
TextKept(d, cs) ==
    /\ \A p \in {c.page : c \in ToSet(cs)} : KeepsText(d[p], {c \in ToSet(cs) : c.page = p})
    /\ \A k \in 2..Len(cs) :
          \/ cs[k - 1].page < cs[k].page
          \/ cs[k - 1].page = cs[k].page /\ Follows(cs[k], cs[k - 1])
    /\ \A c \in ToSet(cs) : Bounded(d[c.page], c)

LEMMA PagesOf ==
  ASSUME document \in Document
  PROVE  /\ Pages = 1..Len(document) /\ Len(document) \in Nat
         /\ \A p \in Pages :
               document[p] \in Seq(Nat) /\ (document[p] = Blank \/ Splittable(document[p]))
<1>1. document \in Seq(Seq(Nat) \ {<<>>})
  BY IngestAssumption
<1>2. Pages = 1..Len(document) /\ Len(document) \in Nat
  BY <1>1 DEF Pages
<1>3. \A p \in Pages : document[p] \in Seq(Nat)
  BY <1>1, <1>2
<1>4. \A p \in Pages : document[p] = Blank \/ Splittable(document[p])
  BY IngestAssumption DEF Pages, Splittable, Blank
<1> QED
  BY <1>2, <1>3, <1>4

\* The chunks of a page have its number.
LEMMA PageChunksOf ==
  ASSUME document \in Document, NEW p \in Pages
  PROVE  /\ PageChunks(p) \in Seq(Chunk(document))
         /\ \A k \in 1..Len(PageChunks(p)) : PageChunks(p)[k].page = p
         /\ KeepsText(document[p], ToSet(PageChunks(p)))
         /\ InSequence(PageChunks(p))
         /\ \A c \in ToSet(PageChunks(p)) : Bounded(document[p], c)
<1> DEFINE s == SplitTextIntoChunks(document[p])
           cs == PageChunks(p)
<1>1. /\ s \in Seq(Interval) /\ KeepsText(document[p], ToSet(s)) /\ InSequence(s)
      /\ \A c \in ToSet(s) : Bounded(document[p], c)
  BY PagesOf, SplitKeepsText
<1>2. cs = [k \in DOMAIN s |-> [page |-> p, from |-> s[k].from, to |-> s[k].to]]
  BY DEF PageChunks
<1> HIDE DEF s, cs
<1>3. DOMAIN s = 1..Len(s) /\ Len(s) \in Nat /\ \A k \in 1..Len(s) : s[k] \in Interval
  BY <1>1
<1>4. /\ cs \in Seq(Chunk(document)) /\ Len(cs) = Len(s) /\ DOMAIN cs = 1..Len(s)
      /\ \A k \in 1..Len(s) : cs[k].page = p /\ cs[k].from = s[k].from /\ cs[k].to = s[k].to
  <2>1. \A k \in 1..Len(s) :
           [page |-> p, from |-> s[k].from, to |-> s[k].to] \in Chunk(document)
    BY <1>3 DEF Chunk, Pages, Interval
  <2> QED
    BY <1>2, <1>3, <2>1
<1>5. ToSet(cs) = {cs[k] : k \in 1..Len(s)} /\ ToSet(s) = {s[k] : k \in 1..Len(s)}
  BY <1>3, <1>4 DEF ToSet
<1>6. KeepsText(document[p], ToSet(cs))
  <2> SUFFICES ASSUME NEW i \in DOMAIN document[p], document[p][i] > 0
               PROVE  \E c \in ToSet(cs) : Covers(c, Part(document[p], i))
    BY DEF KeepsText
  <2>1. PICK k \in 1..Len(s) : Covers(s[k], Part(document[p], i))
    BY <1>1, <1>5 DEF KeepsText
  <2>2. Covers(cs[k], Part(document[p], i))
    BY <1>4, <2>1 DEF Covers
  <2> QED
    BY <1>5, <2>2
<1>7. InSequence(cs)
  <2> SUFFICES ASSUME NEW k \in 2..Len(cs) PROVE Follows(cs[k], cs[k - 1])
    BY DEF InSequence
  <2>1. k \in 1..Len(s) /\ k - 1 \in 1..Len(s) /\ Follows(s[k], s[k - 1])
    BY <1>1, <1>3, <1>4 DEF InSequence
  <2> QED
    BY <1>4, <2>1 DEF Follows
<1>8. \A c \in ToSet(cs) : Bounded(document[p], c)
  <2> SUFFICES ASSUME NEW k \in 1..Len(s) PROVE Bounded(document[p], cs[k])
    BY <1>5
  <2>1. Bounded(document[p], s[k])
    BY <1>1, <1>5
  <2>2. Length(cs[k]) = Length(s[k])
    BY <1>4 DEF Length
  <2> QED
    BY <1>4, <2>1, <2>2 DEF Bounded
<1> QED
  BY <1>4, <1>6, <1>7, <1>8 DEF cs

\* PrepareChunks puts the chunks of the pages one after the other.
LEMMA PreparedChunks ==
  ASSUME document \in Document, NEW S \in SUBSET Pages
  PROVE  PrepareChunks(S) \in Seq(Chunk(document)) /\ TextKept(document, PrepareChunks(S))
<1> DEFINE C == Chunk(document)
           ss == [p \in Pages |-> IF p \in S THEN PageChunks(p) ELSE <<>>]
           cs == PrepareChunks(S)
           n == Len(document)
<1>1. Pages = 1..n /\ n \in Nat
  BY PagesOf
<1>2. cs = FlattenSeq(ss)
  BY DEF PrepareChunks
<1>3. /\ ss \in Seq(Seq(C)) /\ Len(ss) = n
      /\ \A p \in S : ss[p] = PageChunks(p)
      /\ \A p \in Pages : Len(ss[p]) \in Nat /\ (1 <= Len(ss[p]) => p \in S)
  <2>1. <<>> \in Seq(C) /\ Len(<<>>) = 0
    OBVIOUS
  <2>2. \A p \in Pages : PageChunks(p) \in Seq(C)
    BY PageChunksOf
  <2>3. \A p \in Pages : ss[p] = IF p \in S THEN PageChunks(p) ELSE <<>>
    OBVIOUS
  <2>4. \A p \in Pages : ss[p] \in Seq(C)
    BY <2>1, <2>2, <2>3
  <2>5. ss = [p \in 1..n |-> ss[p]]
    BY <1>1
  <2> HIDE DEF C, ss, n
  <2>6. ss \in Seq(Seq(C)) /\ Len(ss) = n
    BY <1>1, <2>4, <2>5
  <2>7. \A p \in Pages : Len(ss[p]) \in Nat
    BY <2>4
  <2>8. \A p \in Pages : p \notin S => Len(ss[p]) = 0
    BY <2>1, <2>3
  <2> QED
    BY <2>3, <2>6, <2>7, <2>8
<1> HIDE DEF C, ss, cs, n
<1>4. cs \in Seq(C)
  BY <1>2, <1>3, Flattening
<1>5. PICK off \in [0..n -> Nat] : PlacesIn(off, ss, cs)
  BY <1>2, <1>3, Flattening
<1>6. /\ \A i \in 1..n : off[i] = off[i - 1] + Len(ss[i])
      /\ \A i, j \in 0..n : i <= j => off[i] <= off[j]
      /\ \A i \in 1..n : \A k \in 1..Len(ss[i]) :
            off[i - 1] + k \in 1..Len(cs) /\ cs[off[i - 1] + k] = ss[i][k]
      /\ \A m \in 1..Len(cs) : \E i \in 1..n : m - off[i - 1] \in 1..Len(ss[i])
  BY <1>3, <1>5 DEF PlacesIn
<1>7. ToSet(cs) = {cs[m] : m \in 1..Len(cs)} /\ Len(cs) \in Nat
  BY <1>4 DEF ToSet
\* Where a chunk comes from.
<1>8. ASSUME NEW m \in 1..Len(cs)
      PROVE  \E i \in S : \E k \in 1..Len(PageChunks(i)) :
                m = off[i - 1] + k /\ off[i - 1] \in Nat /\ cs[m] = PageChunks(i)[k] /\ cs[m].page = i
  <2>1. PICK i \in 1..n : m - off[i - 1] \in 1..Len(ss[i])
    BY <1>6
  <2>2. i - 1 \in 0..n /\ off[i - 1] \in Nat /\ m \in Nat /\ Len(ss[i]) \in Nat
    BY <1>1, <1>3, <1>5, <1>7, <2>1
  <2> DEFINE k == m - off[i - 1]
  <2>3. m = off[i - 1] + k /\ 1 <= Len(ss[i])
    BY <2>1, <2>2
  <2>4. i \in S /\ ss[i] = PageChunks(i)
    BY <1>1, <1>3, <2>3
  <2>5. cs[m] = ss[i][k]
    BY <1>6, <2>1, <2>3
  <2>6. PageChunks(i)[k].page = i
    BY <1>1, <2>1, <2>4, PageChunksOf
  <2> QED
    BY <2>1, <2>2, <2>3, <2>4, <2>5, <2>6
<1>9. ASSUME NEW p \in {c.page : c \in ToSet(cs)}
      PROVE  KeepsText(document[p], {c \in ToSet(cs) : c.page = p})
  <2>1. p \in S
    BY <1>7, <1>8
  <2>2. p \in 1..n /\ ss[p] = PageChunks(p) /\ p \in Pages
    BY <1>1, <1>3, <2>1
  <2>3. /\ KeepsText(document[p], ToSet(PageChunks(p)))
        /\ PageChunks(p) \in Seq(Chunk(document))
        /\ \A k \in 1..Len(PageChunks(p)) : PageChunks(p)[k].page = p
    BY <2>2, PageChunksOf
  <2>4. ToSet(PageChunks(p)) \subseteq {c \in ToSet(cs) : c.page = p}
    <3> SUFFICES ASSUME NEW k \in 1..Len(PageChunks(p))
                 PROVE  PageChunks(p)[k] \in ToSet(cs)
      BY <2>3 DEF ToSet
    <3>1. off[p - 1] + k \in 1..Len(cs) /\ cs[off[p - 1] + k] = PageChunks(p)[k]
      BY <1>6, <2>2
    <3> QED
      BY <1>7, <3>1
  <2> QED
    BY <2>3, <2>4 DEF KeepsText
<1>10. ASSUME NEW m \in 2..Len(cs)
       PROVE  \/ cs[m - 1].page < cs[m].page
              \/ cs[m - 1].page = cs[m].page /\ Follows(cs[m], cs[m - 1])
  <2>1. m \in 1..Len(cs) /\ m - 1 \in 1..Len(cs) /\ m \in Nat
    BY <1>7
  <2>2. PICK i \in S : \E k \in 1..Len(PageChunks(i)) :
           m = off[i - 1] + k /\ off[i - 1] \in Nat /\ cs[m] = PageChunks(i)[k] /\ cs[m].page = i
    BY <1>8, <2>1
  <2>3. PICK k \in 1..Len(PageChunks(i)) :
           m = off[i - 1] + k /\ off[i - 1] \in Nat /\ cs[m] = PageChunks(i)[k] /\ cs[m].page = i
    BY <2>2
  <2>4. PICK j \in S : \E l \in 1..Len(PageChunks(j)) :
           m - 1 = off[j - 1] + l /\ off[j - 1] \in Nat /\ cs[m - 1] = PageChunks(j)[l]
           /\ cs[m - 1].page = j
    BY <1>8, <2>1
  <2>5. PICK l \in 1..Len(PageChunks(j)) :
           m - 1 = off[j - 1] + l /\ off[j - 1] \in Nat /\ cs[m - 1] = PageChunks(j)[l]
           /\ cs[m - 1].page = j
    BY <2>4
  <2>6. /\ i \in 1..n /\ j \in 1..n /\ i \in Pages
        /\ ss[i] = PageChunks(i) /\ PageChunks(i) \in Seq(Chunk(document))
        /\ InSequence(PageChunks(i))
    BY <1>1, <1>3, PageChunksOf
  <2>7. /\ k \in Nat \ {0} /\ l \in Nat \ {0}
    OBVIOUS
  <2>8. CASE k = 1
    <3>1. off[j - 1] < off[i - 1]
      BY <2>1, <2>3, <2>5, <2>7, <2>8
    <3>2. i - 1 \in 0..n /\ j - 1 \in 0..n
      BY <1>1, <2>6
    <3>3. ~ (i - 1 <= j - 1)
      BY <1>6, <2>3, <2>5, <3>1, <3>2
    <3>4. j < i
      BY <1>1, <2>6, <3>3
    <3> QED
      BY <2>3, <2>5, <3>4
  <2>9. CASE k # 1
    <3>1. k - 1 \in 1..Len(PageChunks(i)) /\ k \in 2..Len(PageChunks(i))
      BY <2>6, <2>9
    <3>2. m - 1 = off[i - 1] + (k - 1)
      BY <2>3, <2>7
    <3>3. cs[m - 1] = PageChunks(i)[k - 1]
      <4>1. k - 1 \in 1..Len(ss[i])
        BY <2>6, <3>1
      <4>2. cs[off[i - 1] + (k - 1)] = ss[i][k - 1]
        BY <1>6, <2>6, <4>1
      <4> QED
        BY <2>6, <3>2, <4>2
    <3>4. cs[m - 1].page = i
      BY <2>6, <3>1, <3>3, PageChunksOf
    <3>5. Follows(PageChunks(i)[k], PageChunks(i)[k - 1])
      BY <2>6, <3>1 DEF InSequence
    <3> QED
      BY <2>3, <3>3, <3>4, <3>5
  <2> QED
    BY <2>8, <2>9
<1>11. ASSUME NEW c \in ToSet(cs) PROVE Bounded(document[c.page], c)
  <2>1. PICK m \in 1..Len(cs) : c = cs[m]
    BY <1>7
  <2>2. PICK i \in S : \E k \in 1..Len(PageChunks(i)) :
           m = off[i - 1] + k /\ off[i - 1] \in Nat /\ cs[m] = PageChunks(i)[k] /\ cs[m].page = i
    BY <1>8
  <2>3. PICK k \in 1..Len(PageChunks(i)) : cs[m] = PageChunks(i)[k]
    BY <2>2
  <2>4. PageChunks(i) \in Seq(Chunk(document)) /\ i \in Pages
        /\ \A b \in ToSet(PageChunks(i)) : Bounded(document[i], b)
    BY PageChunksOf
  <2>5. PageChunks(i)[k] \in ToSet(PageChunks(i))
    BY <2>4 DEF ToSet
  <2> QED
    BY <2>1, <2>2, <2>3, <2>4, <2>5
<1>12. TextKept(document, cs)
  BY <1>9, <1>10, <1>11 DEF TextKept
<1> QED
  BY <1>4, <1>12 DEF cs, C

-----------------------------------------------------------------------------
(***************************************************************************)
(* The batches                                                              *)
(***************************************************************************)

\* The last chunk of the current batch, and of those before it.
BatchEnd == Min({start + BatchSize - 1, Len(chunks)})
Done == Min({start - 1, Len(chunks)})

\* The first n chunks are in the vector database, with their own vectors, and no others.
StoredTo(n) == stored = {[chunk |-> chunks[k], vector |-> chunks[k]] : k \in 1..n}

IngestInv ==
    /\ document \in Document /\ format \in {"pdf", "text", "other"}
    /\ phase \in Phase /\ file \in BOOLEAN /\ status \in {"RUNNING", "COMPLETE", "Error"}
    /\ chunks \in Seq(Chunk(document)) /\ TextKept(document, chunks)
    /\ start \in 1..(Len(chunks) + BatchSize)
    /\ phase \in {"collection", "extract"} => chunks = <<>> /\ start = 1 /\ stored = {}
    /\ phase \in {"retry", "upsert"} => start <= Len(chunks)
    /\ status # "RUNNING" => phase = "done"
    /\ status = "COMPLETE" \/ ~file => status = "COMPLETE" /\ start > Len(chunks)
    /\ vectors = <<>> \/ (phase = "upsert" /\ vectors = Texts(CurrentBatch))
    /\ \/ StoredTo(Done)
       \/ status = "Error" /\ start <= Len(chunks) /\ StoredTo(BatchEnd)

LEMMA MinOfTwo ==
  ASSUME NEW a \in Int, NEW b \in Int
  PROVE  Min({a, b}) = IF a <= b THEN a ELSE b
BY DEF Min

\* The current batch is the next BatchSize chunks, or those that are left.
LEMMA BatchOf ==
  ASSUME NEW C, chunks \in Seq(C), start \in Nat \ {0}
  PROVE  /\ CurrentBatch \in Seq(C) /\ Len(CurrentBatch) <= BatchSize
         /\ Done \in 0..Len(chunks) /\ (start <= Len(chunks) => Done = start - 1)
         /\ start > Len(chunks) => Done = Len(chunks)
         /\ start <= Len(chunks) =>
               /\ BatchEnd \in start..Len(chunks)
               /\ BatchEnd = Min({Done + BatchSize, Len(chunks)})
               /\ BatchEnd = Min({start + BatchSize - 1, Len(chunks)})
               /\ Len(CurrentBatch) = BatchEnd + 1 - start
               /\ \A k \in 1..Len(CurrentBatch) : CurrentBatch[k] = chunks[start + k - 1]
<1> DEFINE n == Len(chunks) e == BatchEnd
<1>1. n \in Nat /\ BatchSize \in Nat \ {0} /\ start \in Nat \ {0}
  BY IngestAssumption
<1>2. /\ e = IF start + BatchSize - 1 <= n THEN start + BatchSize - 1 ELSE n
      /\ Done = IF start - 1 <= n THEN start - 1 ELSE n
  <2>1. start + BatchSize - 1 \in Int /\ start - 1 \in Int /\ n \in Int
    BY <1>1
  <2> QED
    BY <2>1, MinOfTwo DEF BatchEnd, Done
<1>3. CurrentBatch = SubSeq(chunks, start, e)
  BY DEF CurrentBatch, BatchEnd
<1>4. e = Min({start + BatchSize - 1, n})
  BY DEF BatchEnd
<1> HIDE DEF e
<1>5. e \in Nat /\ e <= n /\ e + 1 - start <= BatchSize
  BY <1>1, <1>2
<1>6. Done \in 0..n /\ (start <= n => Done = start - 1) /\ (start > n => Done = n)
  BY <1>1, <1>2
<1>7. start <= n => e \in start..n
  BY <1>1, <1>2
<1>8. start <= n => e = Min({Done + BatchSize, n})
  <2> SUFFICES ASSUME start <= n PROVE e = Min({Done + BatchSize, n})
    OBVIOUS
  <2>1. Done + BatchSize = start + BatchSize - 1
    BY <1>1, <1>6
  <2> QED
    BY <1>4, <2>1
<1> HIDE DEF n
<1>9. /\ CurrentBatch \in Seq(C)
      /\ Len(CurrentBatch) = IF start <= e THEN e + 1 - start ELSE 0
      /\ \A k \in 1..Len(CurrentBatch) : CurrentBatch[k] = chunks[start + k - 1]
  <2>1. \A k \in start..e : k \in 1..Len(chunks) /\ chunks[k] \in C
    BY <1>1, <1>5 DEF n
  <2> QED
    BY <1>1, <1>3, <1>5, <2>1
<1>10. Len(CurrentBatch) <= BatchSize
  BY <1>1, <1>5, <1>9
<1>11. start <= n => Len(CurrentBatch) = e + 1 - start
  BY <1>7, <1>9
<1> QED
  BY <1>4, <1>6, <1>7, <1>8, <1>9, <1>10, <1>11 DEF n, e

\* There are at most as many texts as chunks in a batch, and as many only if none is empty.
LEMMA TextsOf ==
  ASSUME NEW C, NEW batch \in Seq(C)
  PROVE  /\ Len(Texts(batch)) \in Nat /\ Len(Texts(batch)) <= Len(batch)
         /\ Len(Texts(batch)) = Len(batch) => Texts(batch) = batch
<1> DEFINE S == {c \in ToSet(batch) : Length(c) > 0}
<1>1. Texts(batch) = Select(batch, S)
  BY DEF Texts
<1> HIDE DEF S
<1>2. /\ Select(batch, S) \in Seq(C \cap S) /\ Len(Select(batch, S)) <= Len(batch)
      /\ Len(Select(batch, S)) = Len(batch) => Select(batch, S) = batch
  BY Selections
<1>3. Len(Select(batch, S)) \in Nat
  BY <1>2
<1> QED
  BY <1>1, <1>2, <1>3

LEMMA StartsAtOne ==
  ASSUME NEW n \in Nat
  PROVE  1 \in 1..(n + BatchSize)
BY IngestAssumption

LEMMA IngestInitially == IngestInit => IngestInv
<1> SUFFICES ASSUME IngestInit PROVE IngestInv
  OBVIOUS
<1>1. chunks = <<>> /\ Len(chunks) = 0 /\ start = 1 /\ stored = {} /\ vectors = <<>>
  BY DEF IngestInit
<1>2. ToSet(chunks) = {} /\ chunks \in Seq(Chunk(document))
  BY <1>1 DEF ToSet
<1>3. TextKept(document, chunks)
  BY <1>1, <1>2 DEF TextKept
<1>4. start \in 1..(Len(chunks) + BatchSize)
  BY <1>1, StartsAtOne
<1>5. StoredTo(Done)
  <2>1. Done = 0
    BY <1>1, MinOfTwo DEF Done
  <2> QED
    BY <1>1, <2>1 DEF StoredTo
<1> QED
  BY <1>1, <1>2, <1>3, <1>4, <1>5 DEF IngestInit, IngestInv, Phase

\* What a step that leaves the document, its chunks and the database alone keeps.
Kept == UNCHANGED <<document, format, chunks, start, stored, file>>

\* An ingestion that has not ended has stored the batches so far.
LEMMA Running ==
  ASSUME IngestInv, phase # "done"
  PROVE  status = "RUNNING" /\ file = TRUE /\ StoredTo(Done)
BY DEF IngestInv

\* The vectors of a batch, if the step says which, and the phase it goes to.
LEMMA KeptStep ==
  ASSUME IngestInv, Kept, phase # "done", phase' \in Phase,
         \/ phase' \notin {"collection", "extract", "retry", "upsert"}
         \/ phase' = "extract" /\ phase = "collection"
         \/ phase' \in {"retry", "upsert"} /\ start <= Len(chunks),
         status' = status \/ (phase' = "done" /\ status' = "Error"),
         vectors' = <<>> \/ (phase' = "upsert" /\ vectors' = Texts(CurrentBatch))
  PROVE  IngestInv'
<1>1. status = "RUNNING" /\ file = TRUE /\ StoredTo(Done)
  BY Running
<1>2. (StoredTo(Done))' /\ CurrentBatch' = CurrentBatch
  BY <1>1 DEF Kept, StoredTo, Done, CurrentBatch
<1>3. /\ document' \in Document /\ format' \in {"pdf", "text", "other"}
      /\ phase' \in Phase /\ file' \in BOOLEAN /\ status' \in {"RUNNING", "COMPLETE", "Error"}
      /\ chunks' \in Seq(Chunk(document')) /\ TextKept(document', chunks')
      /\ start' \in 1..(Len(chunks') + BatchSize)
  BY <1>1 DEF IngestInv, Kept
<1>4. /\ phase' \in {"collection", "extract"} => chunks' = <<>> /\ start' = 1 /\ stored' = {}
      /\ phase' \in {"retry", "upsert"} => start' <= Len(chunks')
      /\ status' # "RUNNING" => phase' = "done"
      /\ status' # "COMPLETE" /\ file'
  BY <1>1 DEF IngestInv, Kept
<1> QED
  BY <1>2, <1>3, <1>4 DEF IngestInv

LEMMA ExtractStep ==
  ASSUME IngestInv, Extract
  PROVE  IngestInv'
<1>1. /\ phase = "extract" /\ UNCHANGED <<document, format, start, vectors, stored, file>>
      /\ document \in Document /\ vectors = <<>> /\ start = 1 /\ stored = {} /\ chunks = <<>>
  BY DEF Extract, IngestInv
<1>2. CASE Finish("Error") /\ UNCHANGED chunks
  <2>1. Kept /\ phase' = "done" /\ status' = "Error" /\ vectors' = <<>>
    BY <1>1, <1>2 DEF Kept, Finish
  <2> QED
    BY <1>1, <2>1, KeptStep DEF Phase
<1>3. ASSUME NEW kept \in SUBSET Pages, chunks' = PrepareChunks(kept), Goes("batch")
      PROVE  IngestInv'
  <2>1. /\ status = "RUNNING" /\ file = TRUE /\ phase' = "batch" /\ status' = status
    BY <1>1, <1>3, Running DEF Goes
  <2>2. chunks' \in Seq(Chunk(document)) /\ TextKept(document, chunks')
    BY <1>1, <1>3, PreparedChunks
  <2>3. start' \in 1..(Len(chunks') + BatchSize)
    <3>1. Len(chunks') \in Nat
      BY <2>2
    <3> QED
      BY <1>1, <3>1, StartsAtOne
  <2>4. (StoredTo(Done))'
    <3>1. Done' = 0
      <4>1. Len(chunks') \in Nat
        BY <2>2
      <4> QED
        BY <1>1, <4>1, MinOfTwo DEF Done
    <3> QED
      BY <1>1, <3>1 DEF StoredTo
  <2>5. document' = document /\ format' = format /\ vectors' = <<>> /\ file' = TRUE
    BY <1>1, <2>1
  <2> QED
    BY <2>1, <2>2, <2>3, <2>4, <2>5 DEF IngestInv, Phase
<1> QED
  BY <1>1, <1>2, <1>3 DEF Extract

\* The vectors that are stored are those of the chunks of the batch: as many vectors as
\* chunks there are only if no chunk is empty.
LEMMA StoredBatch ==
  ASSUME IngestInv, phase = "upsert", CountsMatch
  PROVE  /\ start <= Len(chunks)
         /\ stored \cup Points = {[chunk |-> chunks[k], vector |-> chunks[k]] : k \in 1..BatchEnd}
<1> DEFINE C == Chunk(document) P(k) == [chunk |-> chunks[k], vector |-> chunks[k]]
           n == Len(CurrentBatch)
<1>1. /\ chunks \in Seq(C) /\ start \in Nat \ {0} /\ start <= Len(chunks) /\ Len(chunks) \in Nat
      /\ vectors = <<>> \/ vectors = Texts(CurrentBatch)
  BY DEF IngestInv
<1>2. /\ CurrentBatch \in Seq(C) /\ Done = start - 1
      /\ BatchEnd \in start..Len(chunks) /\ n = BatchEnd + 1 - start
      /\ \A k \in 1..n : CurrentBatch[k] = chunks[start + k - 1]
  <2> HIDE DEF C
  <2> QED
    BY <1>1, BatchOf
<1>3. StoredTo(Done)
  BY Running
<1>4. vectors = CurrentBatch
  <2>1. Len(CurrentBatch) = Len(vectors)
    BY DEF CountsMatch
  <2>2. CASE vectors = <<>>
    BY <1>2, <2>1, <2>2
  <2>3. CASE vectors = Texts(CurrentBatch)
    <3> HIDE DEF C
    <3> QED
      BY <1>2, <2>1, <2>3, TextsOf
  <2> QED
    BY <1>1, <2>2, <2>3
<1>5. n \in Nat /\ DOMAIN vectors = 1..n
  BY <1>2, <1>4
<1> HIDE DEF n, P
<1>6. Points = {P(k) : k \in start..BatchEnd}
  <2>1. Points = {[chunk |-> CurrentBatch[k], vector |-> CurrentBatch[k]] : k \in 1..n}
    BY <1>4, <1>5 DEF Points
  <2>2. \A k \in 1..n : /\ start + k - 1 \in start..BatchEnd
                        /\ [chunk |-> CurrentBatch[k], vector |-> CurrentBatch[k]] = P(start + k - 1)
    <3> TAKE k \in 1..n
    <3>1. start + k - 1 \in start..BatchEnd
      BY <1>1, <1>2, <1>5
    <3> QED
      BY <1>2, <3>1 DEF P
  <2>3. \A m \in start..BatchEnd :
           m + 1 - start \in 1..n /\ start + (m + 1 - start) - 1 = m
    BY <1>1, <1>2, <1>5
  <2>4. \A m \in start..BatchEnd : \E k \in 1..n :
           [chunk |-> CurrentBatch[k], vector |-> CurrentBatch[k]] = P(m)
    <3> TAKE m \in start..BatchEnd
    <3>1. m + 1 - start \in 1..n /\ start + (m + 1 - start) - 1 = m
      BY <2>3
    <3> QED
      BY <2>2, <3>1
  <2> QED
    BY <2>1, <2>2, <2>4
<1>7. stored = {P(k) : k \in 1..(start - 1)}
  BY <1>2, <1>3 DEF StoredTo, P
<1>8. 1..BatchEnd = (1..(start - 1)) \cup (start..BatchEnd)
  BY <1>1, <1>2
<1>9. stored \cup Points = {P(k) : k \in 1..BatchEnd}
  BY <1>6, <1>7, <1>8
<1> QED
  BY <1>1, <1>9 DEF P

LEMMA UpsertStep ==
  ASSUME IngestInv, UpsertBatch
  PROVE  IngestInv'
<1>1. /\ phase = "upsert" /\ vectors' = <<>> /\ UNCHANGED <<document, format, chunks, file>>
      /\ start \in Nat \ {0} /\ start <= Len(chunks) /\ Len(chunks) \in Nat
      /\ chunks \in Seq(Chunk(document))
  BY DEF UpsertBatch, IngestInv
<1>2. status = "RUNNING" /\ file = TRUE /\ StoredTo(Done)
  BY <1>1, Running
<1>3. BatchSize \in Nat \ {0}
  BY IngestAssumption
<1>4. /\ document' \in Document /\ format' \in {"pdf", "text", "other"} /\ file' = TRUE
      /\ chunks' \in Seq(Chunk(document')) /\ TextKept(document', chunks')
  BY <1>1, <1>2 DEF IngestInv
<1>5. CASE CountsMatch /\ stored' = stored \cup Points /\ NextBatch /\ Goes("batch")
  <2>1. start' = start + BatchSize /\ phase' = "batch" /\ status' = "RUNNING"
    BY <1>2, <1>5 DEF NextBatch, Goes
  <2>2. Done' = BatchEnd
    <3>1. Done' = Min({start' - 1, Len(chunks')})
      BY DEF Done
    <3>2. start' - 1 = start + BatchSize - 1
      BY <1>1, <1>3, <2>1
    <3>3. Len(chunks') = Len(chunks)
      BY <1>1
    <3> QED
      BY <3>1, <3>2, <3>3 DEF BatchEnd
  <2>3. stored' = {[chunk |-> chunks[k], vector |-> chunks[k]] : k \in 1..BatchEnd}
    BY <1>1, <1>5, StoredBatch
  <2>4. (StoredTo(Done))'
    BY <1>1, <2>2, <2>3 DEF StoredTo
  <2>5. start' \in 1..(Len(chunks) + BatchSize)
    BY <1>1, <1>3, <2>1
  <2>6. start' \in 1..(Len(chunks') + BatchSize)
    BY <1>1, <2>5
  <2> QED
    BY <1>1, <1>4, <2>1, <2>4, <2>6 DEF IngestInv, Phase
<1>6. CASE /\ stored' \in IF CountsMatch THEN {stored, stored \cup Points} ELSE {stored}
           /\ Finish("Error") /\ UNCHANGED start
  <2>1. start' = start /\ phase' = "done" /\ status' = "Error"
    BY <1>6 DEF Finish
  <2>2. CASE stored' = stored
    <3>1. Kept
      BY <1>1, <2>1, <2>2 DEF Kept
    <3> QED
      BY <1>1, <2>1, <3>1, KeptStep DEF Phase
  <2>3. CASE CountsMatch /\ stored' = stored \cup Points
    <3>1. stored' = {[chunk |-> chunks[k], vector |-> chunks[k]] : k \in 1..BatchEnd}
      BY <1>1, <2>3, StoredBatch
    <3>2. (StoredTo(BatchEnd))'
      BY <1>1, <2>1, <3>1 DEF StoredTo, BatchEnd
    <3>3. start' \in 1..(Len(chunks') + BatchSize) /\ start' <= Len(chunks')
      BY <1>1, <2>1 DEF IngestInv
    <3> QED
      BY <1>1, <1>4, <2>1, <3>2, <3>3 DEF IngestInv, Phase
  <2> QED
    BY <1>6, <2>2, <2>3
<1> QED
  BY <1>5, <1>6 DEF UpsertBatch

LEMMA RemoveFileStep ==
  ASSUME IngestInv, RemoveFile
  PROVE  IngestInv'
<1>1. /\ phase = "batch" /\ UNCHANGED <<document, format, chunks, start, vectors, stored>>
      /\ phase' = "done" /\ status' = "COMPLETE" /\ file' \in BOOLEAN
      /\ ~ (start <= Len(chunks)) /\ vectors = <<>>
      /\ start \in Nat /\ Len(chunks) \in Nat
  BY DEF RemoveFile, HasBatch, Finish, IngestInv
<1>2. status = "RUNNING" /\ StoredTo(Done)
  BY <1>1, Running
<1>3. (StoredTo(Done))'
  BY <1>1, <1>2 DEF StoredTo, Done
<1>4. start' > Len(chunks')
  BY <1>1
<1> QED
  BY <1>1, <1>3, <1>4 DEF IngestInv, Phase

LEMMA IngestStep == IngestInv /\ [IngestNext]_ingestVars => IngestInv'
<1> SUFFICES ASSUME IngestInv, [IngestNext]_ingestVars PROVE IngestInv'
  OBVIOUS
<1>1. CASE CreateCollection
  <2>1. /\ phase = "collection" /\ Kept /\ vectors' = <<>>
        /\ \/ phase' = "extract" /\ status' = status
           \/ phase' = "done" /\ status' = "Error"
    BY <1>1 DEF CreateCollection, Goes, Finish, Kept, IngestInv
  <2> QED
    BY <2>1, KeptStep DEF Phase
<1>2. CASE Extract
  BY <1>2, ExtractStep
<1>3. CASE EmbedBatch
  <2>1. /\ phase = "batch" /\ Kept /\ start <= Len(chunks) /\ vectors = <<>>
        /\ \/ vectors' = Texts(CurrentBatch) /\ phase' = "upsert" /\ status' = status
           \/ vectors' = vectors /\ phase' = "retry" /\ status' = status
           \/ vectors' = vectors /\ phase' = "done" /\ status' = "Error"
    BY <1>3 DEF EmbedBatch, HasBatch, Goes, Finish, Kept, IngestInv
  <2> QED
    BY <2>1, KeptStep DEF Phase
<1>4. CASE RetryEmbedding
  <2>1. /\ phase = "retry" /\ Kept /\ start <= Len(chunks) /\ vectors' = <<>>
        /\ \/ phase' = "upsert" /\ status' = status
           \/ phase' = "done" /\ status' = "Error"
    BY <1>4 DEF RetryEmbedding, Goes, Finish, Kept, IngestInv
  <2> QED
    BY <2>1, KeptStep DEF Phase
<1>5. CASE UpsertBatch
  BY <1>5, UpsertStep
<1>6. CASE RemoveFile
  BY <1>6, RemoveFileStep
<1>7. CASE UNCHANGED ingestVars
  <2>1. (StoredTo(Done) <=> (StoredTo(Done))') /\ (StoredTo(BatchEnd) <=> (StoredTo(BatchEnd))')
        /\ CurrentBatch' = CurrentBatch
    BY <1>7 DEF ingestVars, StoredTo, Done, BatchEnd, CurrentBatch
  <2> QED
    BY <1>7, <2>1 DEF ingestVars, IngestInv
<1> QED
  BY <1>1, <1>2, <1>3, <1>4, <1>5, <1>6, <1>7 DEF IngestNext

LEMMA IngestInvariant == IngestSpec => []IngestInv
BY IngestInitially, IngestStep, PTL DEF IngestSpec

-----------------------------------------------------------------------------
(***************************************************************************)
(* The theorems                                                             *)
(***************************************************************************)

\* The points that are stored are those of the first chunks.
LEMMA StoredChunks ==
  ASSUME NEW n, StoredTo(n)
  PROVE  {point.chunk : point \in stored} = {chunks[k] : k \in 1..n}
<1>1. \A k \in 1..n : [chunk |-> chunks[k], vector |-> chunks[k]].chunk = chunks[k]
  OBVIOUS
<1> QED
  BY <1>1 DEF StoredTo

\* The position in the batches, the vectors and the points are of their types: a batch never
\* starts beyond the end by more than a batch, and has no more vectors than it may.
THEOREM IngestTypesHold == IngestSpec => []IngestTypeOK
<1>1. IngestInv => IngestTypeOK
  <2> SUFFICES ASSUME IngestInv PROVE IngestTypeOK
    OBVIOUS
  <2>1. chunks \in Seq(Chunk(document)) /\ start \in Nat \ {0} /\ Len(chunks) \in Nat
    BY DEF IngestInv
  <2>2. \A k \in DOMAIN chunks : chunks[k].page \in Pages
    <3>1. \A k \in DOMAIN chunks : chunks[k] \in Chunk(document)
      BY <2>1
    <3> QED
      BY <3>1 DEF Chunk, Pages
  <2>3. Len(vectors) <= BatchSize
    <3>1. CurrentBatch \in Seq(Chunk(document)) /\ Len(CurrentBatch) <= BatchSize
      BY <2>1, BatchOf
    <3>2. CASE vectors = <<>>
      BY <3>2, IngestAssumption
    <3>3. CASE vectors = Texts(CurrentBatch)
      <4>1. /\ Len(Texts(CurrentBatch)) \in Nat
            /\ Len(Texts(CurrentBatch)) <= Len(CurrentBatch) /\ Len(CurrentBatch) \in Nat
        BY <3>1, TextsOf
      <4> QED
        BY <3>1, <3>3, <4>1, IngestAssumption
    <3> QED
      BY <3>2, <3>3 DEF IngestInv
  <2>4. \A point \in stored : point.chunk \in ToSet(chunks)
    <3>1. PICK n \in 0..Len(chunks) : StoredTo(n)
      <4>1. Done \in 0..Len(chunks) /\ (start <= Len(chunks) => BatchEnd \in 0..Len(chunks))
        BY <2>1, BatchOf
      <4> QED
        BY <4>1 DEF IngestInv
    <3>2. {point.chunk : point \in stored} = {chunks[k] : k \in 1..n}
      BY <3>1, StoredChunks
    <3>3. \A k \in 1..n : chunks[k] \in ToSet(chunks)
      BY <2>1 DEF ToSet
    <3> QED
      BY <3>2, <3>3
  <2> QED
    BY <2>2, <2>3, <2>4 DEF IngestInv, IngestTypeOK
<1> QED
  BY <1>1, IngestInvariant, PTL

\* No text of an extracted page is lost, and the chunks are in order, for every document.
THEOREM NoTextIsLost == IngestSpec => []NoTextLost
<1>1. IngestInv => NoTextLost
  BY DEF IngestInv, TextKept, NoTextLost
<1> QED
  BY <1>1, IngestInvariant, PTL

\* Only a part too long to follow an overlap makes a chunk longer than maxChunkSize.
THEOREM ChunkSizesBounded == IngestSpec => []ChunkSizeBounded
<1>1. IngestInv => ChunkSizeBounded
  BY DEF IngestInv, TextKept, ChunkSizeBounded
<1> QED
  BY <1>1, IngestInvariant, PTL

\* No point has the vector of another chunk, although the vectors are those of the chunks
\* that are not empty and are matched by their place.
THEOREM VectorsFit == IngestSpec => []VectorsFitChunks
<1>1. IngestInv => VectorsFitChunks
  <2> SUFFICES ASSUME IngestInv, NEW point \in stored PROVE point.vector = point.chunk
    BY DEF VectorsFitChunks
  <2>1. PICK n : StoredTo(n)
    BY DEF IngestInv
  <2> QED
    BY <2>1 DEF StoredTo
<1> QED
  BY <1>1, IngestInvariant, PTL

\* What is stored is a number of whole batches, from the first one on.
THEOREM WholeBatchesStored == IngestSpec => []StoredIsPrefix
<1>1. IngestInv => StoredIsPrefix
  <2> SUFFICES ASSUME IngestInv PROVE StoredIsPrefix
    OBVIOUS
  <2>1. chunks \in Seq(Chunk(document)) /\ start \in Nat \ {0}
    BY DEF IngestInv
  <2>2. CASE StoredTo(Done)
    BY <2>2, StoredChunks DEF StoredIsPrefix, Done
  <2>3. CASE status = "Error" /\ start <= Len(chunks) /\ StoredTo(BatchEnd)
    <3>1. BatchEnd = Min({Done + BatchSize, Len(chunks)})
      BY <2>1, <2>3, BatchOf
    <3>2. {point.chunk : point \in stored} = {chunks[k] : k \in 1..BatchEnd}
      BY <2>3, StoredChunks
    <3> QED
      BY <2>3, <3>1, <3>2 DEF StoredIsPrefix, Done
  <2> QED
    BY <2>2, <2>3 DEF IngestInv
<1> QED
  BY <1>1, IngestInvariant, PTL

\* COMPLETE, and a removed file, mean that every chunk is stored.
THEOREM CompleteMeansStored == IngestSpec => []CompleteIsStored
<1>1. IngestInv => CompleteIsStored
  <2> SUFFICES ASSUME IngestInv, status = "COMPLETE" \/ ~file
               PROVE  {point.chunk : point \in stored} = ToSet(chunks)
    BY DEF CompleteIsStored
  <2>1. chunks \in Seq(Chunk(document)) /\ start \in Nat \ {0}
    BY DEF IngestInv
  <2>2. start > Len(chunks) /\ StoredTo(Done)
    BY DEF IngestInv
  <2>3. Done = Len(chunks)
    BY <2>1, <2>2, BatchOf
  <2>4. {point.chunk : point \in stored} = {chunks[k] : k \in 1..Len(chunks)}
    BY <2>2, <2>3, StoredChunks
  <2>5. DOMAIN chunks = 1..Len(chunks)
    BY <2>1
  <2> QED
    BY <2>4, <2>5, Zenon DEF ToSet
<1> QED
  BY <1>1, IngestInvariant, PTL
=============================================================================

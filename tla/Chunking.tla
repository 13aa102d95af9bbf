------------------------------ MODULE Chunking ------------------------------
(***************************************************************************)
(* How a page is split into chunks (rag/ingest/impl.go,                      *)
(* splitTextIntoChunks).                                                    *)
(*                                                                         *)
(* Text has no content here.  A page is the sequence of the lengths of the   *)
(* parts that its best separator splits it into; <<0>> is the empty page.    *)
(* Positions in a page start at 1, and a chunk is an interval of positions:  *)
(* what the code appends to a chunk is always what comes next in the text.   *)
(***************************************************************************)
EXTENDS Naturals, SequencesExt

CONSTANTS
    Limit,      \* maxChunkSize
    Overlap,    \* overlap
    Sep         \* length of the separator

ASSUME ChunkingAssumption == Limit \in Nat \ {0} /\ Overlap \in Nat /\ Sep \in Nat

Length(c) == c.to + 1 - c.from

\* The position at which each part ends: there is a separator between two parts.
Ends(page) ==
    LET end[i \in 0..Len(page)] ==
            IF i = 0 THEN 0 ELSE end[i - 1] + page[i] + (IF i = 1 THEN 0 ELSE Sep)
    IN  end

\* The interval of part i, which is empty if the part is.
Part(page, i) ==
    LET end == Ends(page)[i]
    IN  [from |-> end + 1 - page[i], to |-> end]

Text(page) == [from |-> 1, to |-> Ends(page)[Len(page)]]

\* Variant: a chunk is full when it has reached the limit.
HasReachedLimit(c, p) == Length(c) + Sep > Limit

\* Does chunk c have no room for part p?
IsFull(c, p) == Length(c) + Length(p) + Sep > Limit

\* The end of chunk c, with which the next chunk starts.
OverlapOf(c) ==
    IF Length(c) > Overlap THEN [from |-> c.to + 1 - Overlap, to |-> c.to]
                           ELSE [from |-> c.to + 1, to |-> c.to]

\* Variant: a chunk that is shorter than the overlap is dropped.
AppendLongChunk(chunks, c) == IF Length(c) > Overlap THEN Append(chunks, c) ELSE chunks

AppendChunk(chunks, c) == IF Length(c) > 0 THEN Append(chunks, c) ELSE chunks

\* Part p comes after what is left of the chunk, and after a separator, or it begins one.
Extend(c, p) == IF Length(c) > 0 THEN [from |-> c.from, to |-> p.to] ELSE p

\* The finished chunks and the current one, after part p.
AddPart(split, p) ==
    IF IsFull(split.current, p)
      THEN [chunks |-> AppendChunk(split.chunks, split.current),
            current |-> Extend(OverlapOf(split.current), p)]
      ELSE [chunks |-> split.chunks, current |-> Extend(split.current, p)]

SplitTextIntoChunks(page) ==
    LET split[i \in 0..Len(page)] ==
            IF i = 0 THEN [chunks |-> <<>>, current |-> [from |-> 1, to |-> 0]]
                     ELSE LET before == split[i - 1] IN AddPart(before, Part(page, i))
        last == split[Len(page)]
    IN  IF Length(Text(page)) <= Limit
          THEN <<Text(page)>>
          ELSE AppendChunk(last.chunks, last.current)

-----------------------------------------------------------------------------
Covers(c, p) == c.from <= p.from /\ p.to <= c.to

\* Every part of the page that is not empty is as a whole in one of the chunks.
KeepsText(page, chunks) ==
    \A i \in DOMAIN page : page[i] > 0 => \E c \in chunks : Covers(c, Part(page, i))

\* Chunk d goes on where chunk c ended, less the overlap.
Follows(d, c) == c.to < d.to /\ d.from + Overlap > c.to

\* A chunk is longer than the limit only because of a single part that is too long to
\* follow an overlap.
Bounded(page, c) ==
    Length(c) > Limit
        => \E i \in DOMAIN page : /\ Part(page, i).to = c.to
                                  /\ Length(c) <= Overlap + Sep + page[i]
=============================================================================

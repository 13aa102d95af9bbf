------------------------------- MODULE Ingest -------------------------------
(***************************************************************************)
(* The ingestion of one document (internal/rag/ingest): extract its pages,   *)
(* split them into chunks, and batch by batch embed the chunks               *)
(* (googleEmbedding, BatchEmbedding) and store them with their vectors       *)
(* (qdrant, UpsertBatch).  Every external call may fail, also because the    *)
(* job's context has expired; some calls fail after they took effect.        *)
(*                                                                         *)
(* A chunk is a page with an interval of its text; the vector of a chunk is  *)
(* the chunk itself, seen by the embedding model.                            *)
(***************************************************************************)
EXTENDS Chunking, Selection

CONSTANTS
    Document,   \* the documents: sequences of pages
    BatchSize   \* chunks embedded and stored at once

\* Without a separator a page that is not empty is split into its characters.
ASSUME IngestAssumption ==
    /\ BatchSize \in Nat \ {0}
    /\ Document \subseteq Seq(Seq(Nat) \ {<<>>})
    /\ Sep = 0 => \A d \in Document : \A i \in DOMAIN d :
                     d[i] = <<0>> \/ \A j \in DOMAIN d[i] : d[i][j] > 0

VARIABLES
    document,   \* the document
    format,     \* what the extension of its file says
    phase,      \* what ProcessDocumentIngestion does next
    chunks,     \* its chunks
    start,      \* where the current batch starts
    vectors,    \* the vectors of the current batch
    stored,     \* the points in the vector database
    file,       \* is the uploaded file there?
    status      \* the status of the job

ingestVars == <<document, format, phase, chunks, start, vectors, stored, file, status>>

Phase == {"collection", "extract", "batch", "retry", "upsert", "done"}

Pages == DOMAIN document

IngestTypeOK ==
    /\ document \in Document
    /\ format \in {"pdf", "text", "other"}
    /\ phase \in Phase
    /\ \A k \in DOMAIN chunks : chunks[k].page \in Pages
    /\ start \in 1..(Len(chunks) + BatchSize)
    /\ Len(vectors) <= BatchSize /\ (vectors # <<>> => phase = "upsert")
    /\ \A point \in stored : point.chunk \in ToSet(chunks)
    /\ file \in BOOLEAN
    /\ status \in {"RUNNING", "COMPLETE", "Error"}

IngestInit ==
    /\ document \in Document
    /\ format \in {"pdf", "text", "other"}
    /\ format = "text" => Len(document) = 1
    /\ phase = "collection"
    /\ chunks = <<>> /\ start = 1 /\ vectors = <<>> /\ stored = {}
    /\ file = TRUE
    /\ status = "RUNNING"

-----------------------------------------------------------------------------
Finish(s) == phase' = "done" /\ status' = s
Goes(p) == phase' = p /\ UNCHANGED status

\* The collection exists or is created, and the type is one of those that can be read.
CreateCollection ==
    /\ phase = "collection"
    /\ \/ format # "other" /\ Goes("extract")
       \/ Finish("Error")
    /\ UNCHANGED <<document, format, chunks, start, vectors, stored, file>>

\* The chunks of a page, in order.
PageChunks(p) ==
    LET split == SplitTextIntoChunks(document[p])
    IN  [k \in DOMAIN split |-> [page |-> p, from |-> split[k].from, to |-> split[k].to]]

\* The chunks of the pages in S, page by page.
PrepareChunks(S) == FlattenSeq([p \in Pages |-> IF p \in S THEN PageChunks(p) ELSE <<>>])

\* Pages of a PDF that are empty objects, cannot be parsed, or take too long are skipped.
Extract ==
    /\ phase = "extract"
    /\ \/ Finish("Error") /\ UNCHANGED chunks
       \/ \E kept \in SUBSET Pages :
             /\ format = "text" => kept = Pages
             /\ chunks' = PrepareChunks(kept)
             /\ Goes("batch")
    /\ UNCHANGED <<document, format, start, vectors, stored, file>>

CurrentBatch == SubSeq(chunks, start, Min({start + BatchSize - 1, Len(chunks)}))

NextBatch == start' = start + BatchSize

\* Variant: one batch too many.
UpToTheEnd == start <= Len(chunks) + 1

HasBatch == start <= Len(chunks)

\* The chunks of a batch that have a text.
Texts(batch) == Select(batch, {c \in ToSet(batch) : Length(c) > 0})

\* Variant: a batch that cannot be embedded is left out.
EmbedOrSkip ==
    /\ phase = "batch" /\ HasBatch
    /\ \/ vectors' = Texts(CurrentBatch) /\ Goes("upsert") /\ UNCHANGED start
       \/ Goes("retry") /\ UNCHANGED <<vectors, start>>
       \/ NextBatch /\ Goes("batch") /\ UNCHANGED vectors
    /\ UNCHANGED <<document, format, chunks, stored, file>>

\* Empty chunks are not sent to the embedding model, which answers with a vector for each
\* text, or that its quota is exhausted, or with another error.  A set so large that it
\* is embedded by a batch job ends in an error too: the first poll for its outcome is
\* after 30 minutes, and the context of the ingestion expires after one.
EmbedBatch ==
    /\ phase = "batch" /\ HasBatch
    /\ \/ vectors' = Texts(CurrentBatch) /\ Goes("upsert")
       \/ Goes("retry") /\ UNCHANGED vectors
       \/ Finish("Error") /\ UNCHANGED vectors
    /\ UNCHANGED <<document, format, chunks, start, stored, file>>

\* Variant: the call is made until the quota allows it.
RetryAgain ==
    /\ phase = "retry"
    /\ \/ vectors' = Texts(CurrentBatch) /\ Goes("upsert")
       \/ Goes("batch") /\ UNCHANGED vectors
       \/ Finish("Error") /\ UNCHANGED vectors
    /\ UNCHANGED <<document, format, chunks, start, stored, file>>

\* The call is made once more.  What it answers is not looked at: if it succeeds, there
\* are no vectors and no error.
RetryEmbedding ==
    /\ phase = "retry"
    /\ \/ vectors' = <<>> /\ Goes("upsert")
       \/ Finish("Error") /\ UNCHANGED vectors
    /\ UNCHANGED <<document, format, chunks, start, stored, file>>

\* Variant: there is a vector for each text.
CountsMatchTexts == Len(Texts(CurrentBatch)) = Len(vectors)

CountsMatch == Len(CurrentBatch) = Len(vectors)

Points == {[chunk |-> CurrentBatch[k], vector |-> vectors[k]] : k \in DOMAIN vectors}

\* A batch is stored as a whole.  An error may come after that.
UpsertBatch ==
    /\ phase = "upsert"
    /\ \/ /\ CountsMatch
          /\ stored' = stored \cup Points
          /\ NextBatch
          /\ Goes("batch")
       \/ /\ stored' \in IF CountsMatch THEN {stored, stored \cup Points} ELSE {stored}
          /\ Finish("Error")
          /\ UNCHANGED start
    /\ vectors' = <<>>
    /\ UNCHANGED <<document, format, chunks, file>>

\* All batches are stored.  An error of the removal is logged.
RemoveFile ==
    /\ phase = "batch" /\ ~HasBatch
    /\ file' \in BOOLEAN
    /\ Finish("COMPLETE")
    /\ UNCHANGED <<document, format, chunks, start, vectors, stored>>

IngestNext ==
    \/ CreateCollection \/ Extract \/ EmbedBatch \/ RetryEmbedding \/ UpsertBatch \/ RemoveFile

\* Every external call returns.
IngestSpec == IngestInit /\ [][IngestNext]_ingestVars /\ WF_ingestVars(IngestNext)

-----------------------------------------------------------------------------
(***************************************************************************)
(* Properties                                                               *)
(***************************************************************************)

\* splitTextIntoChunks loses no text: every part of a page that was extracted is whole in
\* a chunk, and the chunks follow each other in the order of the pages and of their text
\* with no more overlap than wanted, wherever the parts are empty, short or too long.
NoTextLost ==
    /\ \A p \in {c.page : c \in ToSet(chunks)} :
          KeepsText(document[p], {c \in ToSet(chunks) : c.page = p})
    /\ \A k \in 2..Len(chunks) :
          \/ chunks[k - 1].page < chunks[k].page
          \/ chunks[k - 1].page = chunks[k].page /\ Follows(chunks[k], chunks[k - 1])

\* A chunk exceeds maxChunkSize only if it ends with a single part that is so long that it
\* does not fit behind an overlap, and then by no more than that.
ChunkSizeBounded == \A c \in ToSet(chunks) : Bounded(document[c.page], c)

\* BatchEmbedding and UpsertBatch match vectors to chunks by their place, although empty
\* chunks have none and a retry yields none at all: no point ever has the vector of
\* another chunk.
VectorsFitChunks == \A point \in stored : point.vector = point.chunk

\* The points in the vector database are those of the batches so far; after an error that
\* hides a success also those of one more batch, and never a part of one.
StoredIsPrefix ==
    LET StoredUpTo(n) == {point.chunk : point \in stored} = {chunks[k] : k \in 1..n}
        done == Min({start - 1, Len(chunks)})
    IN  StoredUpTo(done) \/ (status = "Error" /\ StoredUpTo(Min({done + BatchSize, Len(chunks)})))

\* An ingestion that reports COMPLETE, or removes the uploaded file, has stored every chunk.
CompleteIsStored ==
    status = "COMPLETE" \/ ~file => {point.chunk : point \in stored} = ToSet(chunks)

\* Every ingestion ends: the embedding is retried once, and every batch makes progress.
IngestEnds == <>(phase = "done")
=============================================================================

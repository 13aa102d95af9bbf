---------------------------- MODULE MCWorkerPool ----------------------------
(* The symmetries of small instances of WorkerPool, for the safety runs. *)
EXTENDS WorkerPool, TLC

\* Queries are interchangeable with queries, documents with documents, workers
\* with workers.
PoolSymmetry ==
    Permutations(Job \ IngestJob) \cup Permutations(IngestJob) \cup Permutations(Worker)
=============================================================================

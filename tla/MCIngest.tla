------------------------------ MODULE MCIngest ------------------------------
(* Ingest on small documents: one page of up to four parts, two of up to two, or five *)
(* that are empty or have one part.                                                    *)
EXTENDS Ingest

PartLength == {0, 1, 2, 4, 6}
Page(n) == UNION {[1..k -> PartLength] : k \in 1..n}

MCDocument == {<<p>> : p \in Page(4)} \cup (Page(2) \X Page(2))
              \cup [1..5 -> {<<0>>, <<4>>}]
=============================================================================

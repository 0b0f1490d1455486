--------------------------- MODULE MCIngestServer ---------------------------
(* An instance of IngestServer for TLC. *)
EXTENDS IngestServer

CONSTANTS d1, d2, c1, c2, e1, e2, cites, applies, mentions

\* Every document has one chunk.
MCChunksOf == [d \in {d1, d2} |-> IF d = d1 THEN {c1} ELSE {c2}]

\* c1 names nobody.  Of the edges of c2 two have types of queries of their own, and
\* one has a type of no query.
MCEntitiesOf == [c \in Chunks |-> IF c = c1 THEN {} ELSE {e1, e2}]
MCEdgesOf    == [c \in Chunks |-> IF c = c1 THEN {}
                                   ELSE {<<e1, applies, e2>>, <<e2, cites, e1>>, <<e1, mentions, e2>>}]
=============================================================================

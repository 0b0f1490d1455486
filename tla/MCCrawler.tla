----------------------------- MODULE MCCrawler -----------------------------
(* Instances of Crawler for TLC. *)
EXTENDS Crawler

CONSTANTS a, b, c, d, e

\* Every judgment is listed once.
OnePathEach    == [l \in Links |-> l]
OneContentEach == [l \in Links |-> l]

\* Link b is a second listing of the judgment of a, which has changed since; link
\* c is the text of a under another citation.
SharedPath    == [l \in Links |-> IF l = b THEN a ELSE l]
SharedContent == [l \in Links |-> IF l = c THEN a ELSE l]
=============================================================================

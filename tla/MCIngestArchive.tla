--------------------------- MODULE MCIngestArchive ---------------------------
(* Instances of IngestArchive for TLC: two runs over the same two pages in *)
(* different orders, and a dry run.                                        *)
EXTENDS IngestArchive, TLC

CONSTANTS r1, r2, r3, a, b

MCRuns == {r1, r2, r3}
MCContents == {a, b}
MCFeed == (r1 :> <<a, b>>) @@ (r2 :> <<b, a>>) @@ (r3 :> <<a>>)
MCRecords == (a :> 1) @@ (b :> 0)
=============================================================================

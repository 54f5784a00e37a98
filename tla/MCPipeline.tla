----------------------------- MODULE MCPipeline -----------------------------
(* TLC instance of Pipeline. *)
EXTENDS Pipeline

\* Two records, each followed by a watermark, the second being the end.
TwoRecords == <<0, 5, 0, 9>>

BothTopics == {2, 3}
=============================================================================

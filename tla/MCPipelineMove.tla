--------------------------- MODULE MCPipelineMove ---------------------------
(* Instances of PipelineMove for TLC. *)
EXTENDS PipelineMove
CONSTANTS p, q, a, b
MCPipelines   == {p, q}
MCLabels      == {a, b}
MCIdentifiers == {a, p}
=============================================================================

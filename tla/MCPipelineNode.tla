--------------------------- MODULE MCPipelineNode ---------------------------
(* Small instances of PipelineNode: a queue of two entries stands for one of *)
(* eight (the code depends on full, empty and wrapping round, not on 8).     *)
EXTENDS PipelineNode
=============================================================================

--------------------------- MODULE MCPipelineFlow ---------------------------
(* PipelineFlow with both directions busy: the client sends more than the    *)
(* window, so that it stalls and is woken by ACK frames.                     *)
EXTENDS PipelineFlow

MCVolume == [s \in Side |-> IF s = "client" THEN 4 ELSE 1]
=============================================================================

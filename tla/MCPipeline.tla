--------------------------- MODULE MCPipeline ---------------------------
(* Two workers, one target and three jobs: results can overtake each other, and  *)
(* two failures open an outage that the third result ends or the shutdown does.  *)
(* One suspension puts a marker between them.                                    *)
EXTENDS Pipeline
=============================================================================

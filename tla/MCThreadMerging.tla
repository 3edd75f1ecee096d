--------------------------- MODULE MCThreadMerging ---------------------------
(* Small instances of ThreadMerging: up to two engines. *)
EXTENDS ThreadMerging

CONSTANTS e1, e2

RasterWork == {"setup", "draw", "teardown"} \X Engines
=============================================================================

--------------------------- MODULE MCContactRoutes ---------------------------
(* Two pages among the sources of the first approved version, one of them  *)
(* among those of the second.                                              *)
EXTENDS ContactRoutes

CONSTANTS w1, w2

MCPagesOf == <<{w1, w2}, {w1}>>
=============================================================================

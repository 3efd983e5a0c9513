--------------------------- MODULE MCResearchRuns ---------------------------
(* Two runs; both commands of the first one are published twice.           *)
EXTENDS ResearchRuns, TLC

CONSTANTS f1, f2, p1, p2, x1, x2, p3, x3

MCJobOf == (p1 :> <<f1, "public">>) @@ (p2 :> <<f1, "public">>)
             @@ (x1 :> <<f1, "extract">>) @@ (x2 :> <<f1, "extract">>)
             @@ (p3 :> <<f2, "public">>) @@ (x3 :> <<f2, "extract">>)
=============================================================================

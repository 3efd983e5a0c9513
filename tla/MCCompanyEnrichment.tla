------------------------- MODULE MCCompanyEnrichment -------------------------
(* Two days' runs; the first one's command is published twice.             *)
EXTENDS CompanyEnrichment, TLC

CONSTANTS r1, r2, d1, d2, d3

MCRunOf == (d1 :> r1) @@ (d2 :> r1) @@ (d3 :> r2)
=============================================================================

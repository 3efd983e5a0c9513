--------------------------- MODULE MCSourceFetch ---------------------------
(* Small instances of SourceFetch for TLC.                                 *)
EXTENDS SourceFetch, TLC

(* Runs of the endpoint are interchangeable, and so are workers.           *)
FetchSymmetry == Permutations(Runs) \cup Permutations(Workers)
=============================================================================

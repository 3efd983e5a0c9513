------------------------------ MODULE MCOutbox ------------------------------
(* Small instances of Outbox for TLC.                                      *)
EXTENDS Outbox, TLC

(* Overlapping dispatchers are interchangeable, and so are workers.        *)
ProcessSymmetry == Permutations(Dispatchers) \cup Permutations(Workers)
=============================================================================

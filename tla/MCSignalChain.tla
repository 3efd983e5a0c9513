---------------------------- MODULE MCSignalChain ----------------------------
(* Both versions of the detector find a signal in the change of a posting. *)
EXTENDS SignalChain, TLC

CONSTANT e1

MCDetects == {e1} \X Versions
=============================================================================

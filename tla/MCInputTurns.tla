---------------------------- MODULE MCInputTurns ----------------------------
(* The bound of the run on InputTurns: every disturbance once.               *)
EXTENDS InputTurns

MCBound == [d \in Disturbances |-> 1]
=============================================================================

--------------------------- MODULE MCWorkerStarts ---------------------------
(***************************************************************************)
(* WorkerStarts for TLC: each behaviour has the bounds of one instance,    *)
(* chosen by its initial state.                                            *)
(***************************************************************************)
EXTENDS WorkerStarts, TLC

Quiet == [d \in Disturbances |-> 0]

(* A worker that exits again and again, and a hand-over refused.             *)
Exits == ("exit" :> 2) @@ ("refuse" :> 1) @@ Quiet

(* A start that fails, a worker that exits and a Host that is ended.         *)
Ends == ("exit" :> 1) @@ ("fault" :> 1) @@ ("kill" :> 1) @@ Quiet

(* Restarts asked for, one while another runs, and what they cut.            *)
Asks == ("ask" :> 2) @@ ("exit" :> 1) @@ Quiet
Tells == ("ask" :> 2) @@ ("refuse" :> 2) @@ ("slow" :> 1) @@ Quiet
Cuts == ("ask" :> 1) @@ ("kill" :> 1) @@ ("stop" :> 1) @@ ("fault" :> 1) @@ Quiet

(* A start that fails, the worker that exits, another that is slow.          *)
Leaves == ("exit" :> 1) @@ ("fault" :> 1) @@ ("slow" :> 1) @@ Quiet

(* A worker that exits, or a start that fails, while the Host stops.         *)
Stops == ("exit" :> 1) @@ ("fault" :> 1) @@ ("stop" :> 1) @@ Quiet

(* Settings that are applied or restored, while calls wait for a start, and  *)
(* settings that join a restart asked for, which may fail.                   *)
Applies == ("apply" :> 1) @@ ("fault" :> 1) @@ ("call" :> 1) @@ Quiet
Joins == ("apply" :> 1) @@ ("ask" :> 1) @@ ("fault" :> 1) @@ Quiet

MCBounds == {Exits, Ends, Asks, Tells, Cuts, Leaves, Stops, Applies, Joins}
=============================================================================

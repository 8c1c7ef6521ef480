----------------------------- MODULE MCRestarts -----------------------------
(***************************************************************************)
(* Restarts for TLC: each behaviour has the bounds of one of the instances, *)
(* chosen by its initial state.                                            *)
(***************************************************************************)
EXTENDS Restarts, TLC

Quiet == [d \in Disturbances |-> 0]

(* Two requests, through everything that can end a process. *)
Asks == ("ask" :> 2) @@ ("install" :> 1) @@ ("exit" :> 1) @@ ("stop" :> 1) @@ ("replace" :> 1)
        @@ ("write" :> 1) @@ ("mark" :> 1) @@ ("cancel" :> 1) @@ Quiet

(* Versions that come and fail, at starts that may fail by themselves. *)
Falls == ("ask" :> 1) @@ ("install" :> 1) @@ ("publish" :> 2) @@ ("push" :> 1) @@ ("fault" :> 2)
         @@ ("exit" :> 1) @@ Quiet

(* Starts cut from outside, until the third of one selection is not its own. *)
Cuts == ("stop" :> 3) @@ ("install" :> 1) @@ ("publish" :> 2) @@ Quiet

MCBounds == {Asks, Falls, Cuts}

(* The departure: a start that fails once. *)
FellBounds == {("fault" :> 1) @@ Quiet}
=============================================================================

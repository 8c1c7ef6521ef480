----------------------------- MODULE MCToolCalls -----------------------------
(* Two requests at once in one stage; one at a time in two stages with more   *)
(* time; two stages with more time alone.                                     *)
EXTENDS ToolCalls, TLC

MCBounds == {[atOnce |-> 2, stages |-> 1, more |-> 0],
             [atOnce |-> 1, stages |-> 2, more |-> 1],
             [atOnce |-> 0, stages |-> 2, more |-> 3]}
Alike == Permutations(Threads)
=============================================================================

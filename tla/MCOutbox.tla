------------------------------ MODULE MCOutbox ------------------------------
(***************************************************************************)
(* Outbox for TLC: what disturbs each checked instance, and how often.     *)
(***************************************************************************)
EXTENDS Outbox, TLC

(* Everything once: two turns, three lines, one of them may be a file. *)
Rough == [d \in Disturbances |-> 1]

(* For liveness: as above, but only the lines of a failed turn are refused, *)
(* and none is taken back.                                                  *)
Told == [Rough EXCEPT !["refuse"] = 0, !["takeback"] = 0]

(* The turns of the safety run are interchangeable. *)
Alike == Permutations(Turns)
=============================================================================

--------------------------- MODULE ResultDelivery ---------------------------
(***************************************************************************)
(* What the Host promises about the result of a delegated task: the task   *)
(* is open until it has a result; a result is owed to her until she took it *)
(* or it was closed without her (its place changed, or giving up); nothing *)
(* is owed twice, and a cancelled task stays cancelled.                     *)
(***************************************************************************)
CONSTANT Tasks

VARIABLE phase

Phases == {"open", "owed", "taken", "closed", "cancelled"}

Init == phase = [t \in Tasks |-> "open"]

(* The steps one task may make. A result closed without her is found taken  *)
(* after all when the next start sees that her turn on it had committed.    *)
Moves == {<<"open", "owed">>, <<"owed", "taken">>, <<"owed", "closed">>, <<"closed", "taken">>}
         \cup {<<p, "cancelled">> : p \in Phases}

(* One step of the Host may move several tasks: a start recovers them all. *)
Next ==
    /\ phase' \in [Tasks -> Phases]
    /\ \A t \in Tasks : phase'[t] = phase[t] \/ <<phase[t], phase'[t]>> \in Moves

Spec == Init /\ [][Next]_phase

(* Every result owed is settled one way or the other. *)
Settles == \A t \in Tasks : phase[t] = "owed" ~> phase[t] # "owed"
=============================================================================

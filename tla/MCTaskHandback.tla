--------------------------- MODULE MCTaskHandback ---------------------------
(***************************************************************************)
(* TaskHandback for TLC: what disturbs each checked instance, and how often. *)
(***************************************************************************)
EXTENDS TaskHandback

Disturbed(given) == [d \in Disturbances |-> IF d \in DOMAIN given THEN given[d] ELSE 0]

(* One task, everything once but a worker restart that is withdrawn again;  *)
(* three faults reach the short version by two failed reports and fail it.  *)
Deep == Disturbed([fault |-> 3, protocol |-> 1, delegate |-> 1, crash |-> 1, cancel |-> 1,
                   policy |-> 1, lease |-> 1])

(* Liveness, with a worker restart that pends, is withdrawn or is taken. *)
Live == Disturbed([fault |-> 1, protocol |-> 1, delegate |-> 1, crash |-> 1, restart |-> 1])
=============================================================================

--------------------------- MODULE FairQueueWaits ---------------------------
(***************************************************************************)
(* FairQueue observed: for each waiting conversation, how many times in a  *)
(* row another one was served before it (`overtaken`) and how many items   *)
(* were served in all since it began to wait or was last served (`waited`).*)
(***************************************************************************)
EXTENDS FairQueue, FiniteSets

ASSUME FairQueueWaitsAssumption == IsFiniteSet(Scenes)

VARIABLES overtaken, waited

waitsVars == <<queues, scenes, last, streak, overtaken, waited>>

WaitsInit ==
    /\ QueueInit
    /\ overtaken = [s \in Scenes |-> 0]
    /\ waited = [s \in Scenes |-> 0]

Arrive(s, item) ==
    /\ Put(s, item)
    /\ UNCHANGED <<overtaken, waited>>

(* The conversations passed over by the item now served. *)
PassedOver(s) == s # Turn /\ Waiting(s)

Serve ==
    /\ Pop
    /\ overtaken' = [s \in Scenes |-> IF ~PassedOver(s) THEN 0
                                      ELSE IF last = Turn THEN overtaken[s] + 1 ELSE 1]
    /\ waited' = [s \in Scenes |-> IF PassedOver(s) THEN waited[s] + 1 ELSE 0]

WaitsNext == Serve \/ \E s \in Scenes, item \in Items : Arrive(s, item)

WaitsSpec == WaitsInit /\ [][WaitsNext]_waitsVars

----------------------------------------------------------------------------
TypeOK ==
    /\ QueueTypeOK
    /\ overtaken \in [Scenes -> Nat]
    /\ waited \in [Scenes -> Nat]

(* FairQueue's own words: "At most two completed episodes from one scene   *)
(* before a waiting peer."                                                  *)
AtMostTwoBeforeAPeer == \A s \in Scenes : overtaken[s] <= 2

(* What that buys a conversation: however the others fill their queues, it *)
(* waits for at most two items of each of the others.                       *)
WaitIsBounded == \A s \in Scenes : waited[s] <= 2 * (Cardinality(Scenes) - 1)
=============================================================================

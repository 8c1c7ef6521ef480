--------------------------- MODULE MCDatabaseLease ---------------------------
(* Two deployments; a lease of three ticks, renewed at each of them, and a   *)
(* mark that counts for one. Each behaviour has the bounds of one instance,  *)
(* chosen by its initial state.                                              *)
EXTENDS DatabaseLease, TLC

Quiet == [d \in Disturbances |-> 0]

(* Hosts killed after a mark, one of them on a machine that was suspended.   *)
Kills == ("kill" :> 2) @@ ("suspend" :> 1) @@ ("mark" :> 1) @@ Quiet

(* Renewals and a release that fail.                                         *)
Misses == ("miss" :> 2) @@ ("kill" :> 1) @@ ("stop" :> 1) @@ ("mark" :> 1) @@ Quiet

(* A machine that sleeps while another has the lease, and stops.             *)
Sleeps == ("suspend" :> 2) @@ ("stop" :> 1) @@ ("kill" :> 1) @@ Quiet
Stops  == ("suspend" :> 1) @@ ("stop" :> 2) @@ ("mark" :> 1) @@ Quiet

(* Everything once.                                                          *)
Once == [d \in Disturbances |-> 1]

MCBounds == {Kills, Misses, Sleeps, Stops, Once}
=============================================================================

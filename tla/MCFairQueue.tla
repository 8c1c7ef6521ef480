---------------------------- MODULE MCFairQueue ----------------------------
(* Three conversations, three items each: enough for a rotation to put a     *)
(* conversation behind two others, and for an emptied one to join again.    *)
EXTENDS FairQueueWaits
=============================================================================

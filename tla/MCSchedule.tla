----------------------------- MODULE MCSchedule -----------------------------
(* One plan of any rule, a crash of the Host, and beside it: a change with a    *)
(* native call that fails; an occurrence refused; three firings; two changes.   *)
EXTENDS Schedule, TLC

MCBounds == {[fires |-> 2, updates |-> 1, crashes |-> 1, fails |-> 1, refusals |-> 0],
             [fires |-> 2, updates |-> 0, crashes |-> 1, fails |-> 0, refusals |-> 1],
             [fires |-> 3, updates |-> 1, crashes |-> 0, fails |-> 0, refusals |-> 0],
             [fires |-> 3, updates |-> 0, crashes |-> 1, fails |-> 0, refusals |-> 0],
             [fires |-> 2, updates |-> 2, crashes |-> 0, fails |-> 0, refusals |-> 0],
             [fires |-> 1, updates |-> 2, crashes |-> 1, fails |-> 0, refusals |-> 0]}
=============================================================================

----------------------------- MODULE FairQueue -----------------------------
(***************************************************************************)
(* router.FairQueue: the Host's one queue of inputs and hand-backs, a line *)
(* of conversations ("scenes") each with its own first-in first-out queue. *)
(* `scenes` is the line of the conversations that have something queued;   *)
(* `last` and `streak` remember who was served last and how many times in  *)
(* a row.                                                                   *)
(*                                                                         *)
(* MaxQueued and MaxStreak are bounds of the checked instances only: the   *)
(* code bounds neither.                                                     *)
(***************************************************************************)
EXTENDS Integers, Sequences

CONSTANTS Scenes,      \* the conversations
          Items,       \* what can be queued
          NoScene,     \* `last` before anything was served
          MaxQueued,   \* bound: items queued in one conversation
          MaxStreak    \* bound: the streak counter

ASSUME FairQueueAssumption ==
    /\ NoScene \notin Scenes
    /\ MaxQueued \in Nat \ {0}
    /\ MaxStreak \in Nat

VARIABLES queues, scenes, last, streak

queueVars == <<queues, scenes, last, streak>>

QueueInit ==
    /\ queues = [s \in Scenes |-> <<>>]
    /\ scenes = <<>>
    /\ last = NoScene
    /\ streak = 0

Waiting(s) == queues[s] # <<>>

----------------------------------------------------------------------------
(* Wrong variants of the definitions below, each a slip the code could have *)
(* had: the runs show that the properties notice them.                      *)
RotatesLate == Len(scenes) > 1 /\ Head(scenes) = last /\ streak >= 3

(* The rotation done the wrong way round: the last of the line comes first. *)
LineTurnedBack ==
    IF Len(scenes) > 1 /\ Head(scenes) = last /\ streak >= 2
    THEN <<scenes[Len(scenes)]>> \o SubSeq(scenes, 1, Len(scenes) - 1) ELSE scenes

----------------------------------------------------------------------------
(* FairQueue.put: a conversation with nothing queued joins the line's end. *)
Put(s, item) ==
    /\ Len(queues[s]) < MaxQueued
    /\ scenes' = IF Waiting(s) THEN scenes ELSE Append(scenes, s)
    /\ queues' = [queues EXCEPT ![s] = Append(@, item)]
    /\ UNCHANGED <<last, streak>>

(* The head of the line goes to its end after two in a row with a peer waiting. *)
Rotates == Len(scenes) > 1 /\ Head(scenes) = last /\ streak >= 2

Line == IF Rotates THEN Append(Tail(scenes), Head(scenes)) ELSE scenes

(* The conversation FairQueue.pop serves, and the item it returns. *)
Turn     == Head(Line)
NextItem == Head(queues[Turn])

(* FairQueue.pop: the head of the (rotated) line gives its oldest item and *)
(* leaves the line when it has no other.                                    *)
Pop ==
    /\ scenes # <<>>
    /\ streak' = IF last = Turn THEN streak + 1 ELSE 1
    /\ streak' <= MaxStreak
    /\ last' = Turn
    /\ queues' = [queues EXCEPT ![Turn] = Tail(@)]
    /\ scenes' = IF Len(queues[Turn]) = 1 THEN Tail(Line) ELSE Line

----------------------------------------------------------------------------
QueueTypeOK ==
    /\ queues \in [Scenes -> Seq(Items)]
    /\ scenes \in Seq(Scenes)
    /\ last \in Scenes \cup {NoScene}
    /\ streak \in Nat
    /\ streak = 0 <=> last = NoScene

(* The line holds every conversation with something queued, once, and no   *)
(* other: none is forgotten, and none is popped with an empty queue.        *)
LineIsTheWaiting ==
    /\ \A s \in Scenes : Waiting(s) <=> \E i \in 1..Len(scenes) : scenes[i] = s
    /\ \A i, j \in 1..Len(scenes) : scenes[i] = scenes[j] => i = j
=============================================================================

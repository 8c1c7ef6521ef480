------------------------------- MODULE Outbox -------------------------------
(***************************************************************************)
(* How her words leave: one conversation of a channel (coordinator.py      *)
(* queue_reply, publish.py, channels.py).                                  *)
(*                                                                         *)
(* Her turn writes the parts of a reply as rows of the database and hands   *)
(* them to the channel's outbox one by one; the channel's adapter, another *)
(* process, claims the next line on its chat or its bulk (file) lane, sends *)
(* it on the platform and posts a receipt. Her turn, the adapter's requests *)
(* and the adapter itself interleave freely; the Host may crash between any *)
(* two of these steps, the adapter may die, an answer may be lost.          *)
(*                                                                         *)
(* `lines` are the rows of the conversation in the order of scene_seq. The *)
(* adapter is modelled from what claim and receipt accept of it.            *)
(***************************************************************************)
EXTENDS Integers, Sequences, FiniteSets

CONSTANTS Turns,      \* her turns in this conversation that speak
          FileParts,  \* which parts of a turn's replies are files, by their index
          MaxLines,   \* bound: the lines they write together
          Bound       \* bounds: how often each disturbance may happen

Disturbances == {"crash", "lost", "refuse", "deny", "fail", "takeback"}

ASSUME OutboxAssumption ==
    /\ FileParts \subseteq Nat /\ MaxLines \in Nat
    /\ Bound \in [Disturbances -> Nat]

VARIABLES lines,      \* rows of the database: her lines
          turn,       \* rows of the database: her turns
          up, worker, \* the Host process and its conversation worker
          adapter,    \* what the adapter knows of each line it claimed
          arrived,    \* what the platform shows, in the order it arrived
          doubted,    \* observed: the lines that were ever UNKNOWN
          left        \* what is left of each bound

vars == <<lines, turn, up, worker, adapter, arrived, doubted, left>>

Kinds == {"chat", "file"}
Lanes == {"chat", "bulk"}
(* The operators named Wrong... are slips the code below each could have    *)
(* had: the runs show that the properties notice them.                      *)
WrongOnItsWay == {"READY", "QUEUED_EXTERNAL", "SENDING", "FAILED"}

OnItsWay == {"READY", "QUEUED_EXTERNAL", "SENDING"}
Settled  == {"DELIVERED", "CANCELLED_BY_HER"}
NeverLeft == {"FAILED", "CANCELLED_AFTER_FAILURE", "CANCELLED_BY_HER"}
LineStates == OnItsWay \cup Settled \cup NeverLeft \cup {"UNKNOWN"}

Lines == 1..Len(lines)
Idle  == [pc |-> "idle"]

Spend(kind) == left[kind] > 0 /\ left' = [left EXCEPT ![kind] = @ - 1]

PartsOf(t) == {i \in Lines : lines[i].turn = t}

Init ==
    /\ lines = <<>> /\ turn = [t \in Turns |-> "new"]
    /\ up = TRUE /\ worker = Idle
    /\ adapter = [i \in 1..MaxLines |-> "none"] /\ arrived = <<>>
    /\ doubted = {} /\ left = Bound

----------------------------------------------------------------------------
(* Her turn: the conversation worker. *)

(* A turn begins, or one that a crash cut is resumed. *)
BeginTurn(t) ==
    /\ up /\ worker.pc = "idle" /\ turn[t] \in {"new", "TURN"}
    /\ turn' = [turn EXCEPT ![t] = "TURN"]
    /\ worker' = [pc |-> "turn", turn |-> t]
    /\ UNCHANGED <<lines, up, adapter, arrived, doubted, left>>

(* Coordinator.queue_reply, of any number of parts ... *)
Reply(parts) ==
    /\ worker.pc = "turn"
    /\ Len(lines) + parts <= MaxLines
    /\ worker' = [pc |-> "writing", turn |-> worker.turn, parts |-> parts, todo |-> <<>>]
    /\ UNCHANGED <<lines, turn, up, adapter, arrived, doubted, left>>

(* ... first writes each as a row, all but the turn's first at typing pace ... *)
WritePart ==
    LET index == Cardinality(PartsOf(worker.turn))
    IN /\ worker.pc = "writing" /\ worker.parts > 0
       /\ lines' = Append(lines, [turn |-> worker.turn, index |-> index, kind |-> IF index \in FileParts THEN "file" ELSE "chat",
                                  paced |-> index > 0, state |-> "READY", lease |-> "none"])
       /\ worker' = [worker EXCEPT !.parts = @ - 1, !.todo = Append(@, Len(lines) + 1)]
       /\ UNCHANGED <<turn, up, adapter, arrived, doubted, left>>

(* ... then publishes them one by one. PublishService._publish queues a row *)
(* for the channel; one already cancelled it leaves as it is.               *)
PublishPart ==
    /\ worker.pc = "writing" /\ worker.parts = 0
    /\ IF worker.todo = <<>> THEN worker' = [pc |-> "turn", turn |-> worker.turn] /\ UNCHANGED lines
       ELSE LET i == Head(worker.todo)
            IN /\ worker' = [worker EXCEPT !.todo = Tail(@)]
               /\ lines' = IF lines[i].state = "READY"
                           THEN [lines EXCEPT ![i].state = "QUEUED_EXTERNAL"] ELSE lines
    /\ UNCHANGED <<turn, up, adapter, arrived, doubted, left>>

(* A publication is refused (the policy epoch moved, the route changed, the *)
(* result it answers is stale, its save met a conflict): this part and those *)
(* after it stay READY. RoleTools.call answers her with the refusal, and the *)
(* turn goes on; where the cause lasts, the next publication is refused too. *)
DenyPart ==
    /\ worker.pc = "writing" /\ worker.parts = 0 /\ worker.todo # <<>>
    /\ lines[Head(worker.todo)].state = "READY"
    /\ Spend("deny")
    /\ worker' = [pc |-> "turn", turn |-> worker.turn]
    /\ UNCHANGED <<lines, turn, up, adapter, arrived, doubted>>

(* The turn ends: it is committed, or fails (FAILED_PROTOCOL, SUPPRESSED).  *)
EndTurn(outcome) ==
    /\ worker.pc = "turn"
    /\ IF outcome = "FAILED" THEN Spend("fail") ELSE UNCHANGED left
    /\ turn' = [turn EXCEPT ![worker.turn] = outcome]
    /\ worker' = Idle
    /\ UNCHANGED <<lines, up, adapter, arrived, doubted>>

(* RoleTools._cancel_own: she takes back a line that has not left. *)
TakeBack(i) ==
    /\ worker.pc = "turn"
    /\ lines[i].state \in {"READY", "QUEUED_EXTERNAL"}
    /\ Spend("takeback")
    /\ lines' = [lines EXCEPT ![i].state = "CANCELLED_BY_HER"]
    /\ UNCHANGED <<turn, up, worker, adapter, arrived, doubted>>

----------------------------------------------------------------------------
(* The outbox: Channels.claim, under the effects lock. *)

InLane(i, lane) == lines[i].kind = (IF lane = "bulk" THEN "file" ELSE "chat")

Queue(lane) == {i \in Lines : lines[i].state = "QUEUED_EXTERNAL" /\ InLane(i, lane)}

(* The parts of the same turn before line i that have not settled well. *)
Earlier(i) == {j \in Lines : /\ lines[j].turn = lines[i].turn /\ lines[j].index < lines[i].index
                             /\ lines[j].state \notin Settled}

WrongDoomed(i) == FALSE

(* An earlier part will never arrive: this one never goes. *)
Doomed(i) == \E j \in Earlier(i) : lines[j].state \notin OnItsWay \cup {"UNKNOWN"}

WrongWaits(i) == lines[i].paced

(* An earlier part is on its way (a file holds nothing), or its time has not come. *)
Waits(i) == (\E j \in Earlier(i) : lines[j].state \in OnItsWay /\ lines[j].kind = "chat") \/ lines[i].paced

WrongInFlight == FALSE

(* records.messages.in_flight_scenes: a chat line claimed within the lease is out. *)
InFlight == \E i \in Lines : lines[i].kind = "chat" /\ lines[i].state = "SENDING" /\ lines[i].lease = "running"

(* The line Channels._next comes to: the first that is not doomed. *)
Front(lane) == {i \in Queue(lane) : ~Doomed(i) /\ \A j \in Queue(lane) : j < i => Doomed(j)}

(* The doomed lines it cancels on its way there. *)
Passed(lane) == {i \in Queue(lane) : Doomed(i) /\ \A j \in Front(lane) : i < j}

(* _next looks only while no chat line of the conversation is out; the walk *)
(* ends at a line that waits, and holds those after it.                     *)
Walks(lane) == up /\ (lane = "chat" => ~InFlight)

Offered(lane) == {i \in Front(lane) : ~Waits(i)}

WithState(is, state) == [i \in Lines |-> IF i \in is THEN [lines[i] EXCEPT !.state = state] ELSE lines[i]]

CancelDoomed(lane) ==
    /\ Walks(lane) /\ Offered(lane) = {} /\ Passed(lane) # {}
    /\ lines' = WithState(Passed(lane), "CANCELLED_AFTER_FAILURE")
    /\ UNCHANGED <<turn, up, worker, adapter, arrived, doubted, left>>

(* Channels._valid_publication, of what can change here: the turn still stands. *)
Valid(i) == turn[lines[i].turn] \in {"TURN", "COMMITTED"}

(* The line is handed to the adapter: unless the answer is lost, it has it. *)
Claim(lane) ==
    /\ Walks(lane)
    /\ \E i \in Offered(lane) :
        /\ Valid(i)
        /\ lines' = [WithState(Passed(lane), "CANCELLED_AFTER_FAILURE")
                     EXCEPT ![i].state = "SENDING", ![i].lease = "running"]
        /\ \/ adapter' = [adapter EXCEPT ![i] = "held"] /\ UNCHANGED left
           \/ Spend("lost") /\ UNCHANGED adapter
    /\ UNCHANGED <<turn, up, worker, arrived, doubted>>

(* PublishService.cancel_after: a part that failed cancels those after it. *)
CancelAfter(i, rows) ==
    [j \in DOMAIN rows |->
        IF /\ rows[j].turn = rows[i].turn /\ rows[j].index > rows[i].index
           /\ rows[j].state \in {"READY", "QUEUED_EXTERNAL"}
        THEN [rows[j] EXCEPT !.state = "CANCELLED_AFTER_FAILURE"] ELSE rows[j]]

(* The line may not be sent any more (the turn failed, the person or the    *)
(* grant is gone), or this adapter cannot carry it.                         *)
RefuseClaim(lane) ==
    /\ Walks(lane)
    /\ \E i \in Offered(lane) :
        /\ IF Valid(i) THEN Spend("refuse") ELSE UNCHANGED left
        /\ lines' = CancelAfter(i, [WithState(Passed(lane), "CANCELLED_AFTER_FAILURE")
                                    EXCEPT ![i].state = "FAILED"])
    /\ UNCHANGED <<turn, up, worker, adapter, arrived, doubted>>

StatusOf == [shown |-> "DELIVERED", refused |-> "FAILED", unsure |-> "UNKNOWN"]

(* Channels.receipt: what became of a claimed line; an unknown one may still *)
(* be settled by a later receipt.                                            *)
Receipt(i) ==
    LET state == StatusOf[adapter[i]]
        told  == [lines EXCEPT ![i].state = state]
    IN /\ up /\ adapter[i] \in DOMAIN StatusOf
       /\ lines[i].state \in {"SENDING", "UNKNOWN"} /\ state # lines[i].state
       /\ lines' = IF state = "FAILED" THEN CancelAfter(i, told) ELSE told
       /\ doubted' = IF state = "UNKNOWN" THEN doubted \cup {i} ELSE doubted
       /\ UNCHANGED <<turn, up, worker, adapter, arrived, left>>

----------------------------------------------------------------------------
(* The adapter and the platform (external to src/src/asuna). *)

(* It sends a line it holds: shown, refused, or with no answer it can tell. *)
Send(i, outcome) ==
    /\ adapter[i] = "held"
    /\ adapter' = [adapter EXCEPT ![i] = outcome]
    /\ \/ outcome \in {"shown", "unsure"} /\ arrived' = Append(arrived, i)
       \/ outcome \in {"refused", "unsure"} /\ UNCHANGED arrived
    /\ UNCHANGED <<lines, turn, up, worker, doubted, left>>

(* It learns later what became of one it was unsure of. *)
Learn(i) ==
    /\ adapter[i] = "unsure" /\ lines[i].state = "UNKNOWN"
    /\ adapter' = [adapter EXCEPT ![i] = IF \E k \in 1..Len(arrived) : arrived[k] = i
                                         THEN "shown" ELSE "refused"]
    /\ UNCHANGED <<lines, turn, up, worker, arrived, doubted, left>>

(* The adapter dies with a line whose receipt it has not posted. *)
Forget(i) ==
    /\ adapter[i] # "none" /\ lines[i].state = "SENDING"
    /\ Spend("lost")
    /\ adapter' = [adapter EXCEPT ![i] = "none"]
    /\ UNCHANGED <<lines, turn, up, worker, arrived, doubted>>

(* Time passes: a part's typing pace, a claimed line's CHAT_LEASE_SECONDS. *)
TimePasses(i) ==
    /\ \/ lines[i].paced /\ lines' = [lines EXCEPT ![i].paced = FALSE]
       \/ /\ lines[i].state = "SENDING" /\ lines[i].lease = "running"
          /\ lines' = [lines EXCEPT ![i].lease = "over"]
    /\ UNCHANGED <<turn, up, worker, adapter, arrived, doubted, left>>

----------------------------------------------------------------------------
(* The Host process. *)

Crash ==
    /\ up /\ Spend("crash")
    /\ up' = FALSE /\ worker' = Idle
    /\ UNCHANGED <<lines, turn, adapter, arrived, doubted>>

SendingLines == {i \in Lines : lines[i].state = "SENDING"}

StartWith(state) ==
    /\ ~up /\ up' = TRUE
    /\ lines' = WithState(SendingLines, state)
    /\ doubted' = IF state = "UNKNOWN" THEN doubted \cup SendingLines ELSE doubted
    /\ UNCHANGED <<turn, worker, adapter, arrived, left>>

WrongStartReclaims == StartWith("QUEUED_EXTERNAL")
WrongStartFails    == StartWith("FAILED")

(* Channels.recover_sending: "A lost HTTP response may hide an actual send.  *)
(* Never reclaim automatically."                                             *)
Start == StartWith("UNKNOWN")

----------------------------------------------------------------------------
TurnStep == \/ \E t \in Turns : BeginTurn(t)
            \/ \E parts \in 1..MaxLines : Reply(parts)
            \/ WritePart \/ PublishPart \/ DenyPart
            \/ \E outcome \in {"COMMITTED", "FAILED"} : EndTurn(outcome)
            \/ \E i \in Lines : TakeBack(i)

OutboxStep(lane) == CancelDoomed(lane) \/ Claim(lane) \/ RefuseClaim(lane)

AdapterStep(i) == (\E outcome \in DOMAIN StatusOf : Send(i, outcome)) \/ Receipt(i)

Next == \/ TurnStep
        \/ \E lane \in Lanes : OutboxStep(lane)
        \/ \E i \in Lines : AdapterStep(i) \/ Learn(i) \/ Forget(i) \/ TimePasses(i)
        \/ Crash \/ Start

Spec == Init /\ [][Next]_vars

(* Every part of the system goes on: her turns end, the adapter asks again, *)
(* what it holds it sends and tells, time passes, the Host comes back.      *)
Fairness ==
    /\ WF_vars(TurnStep) /\ WF_vars(EndTurn("COMMITTED"))
    /\ \A lane \in Lanes : WF_vars(OutboxStep(lane))
    /\ \A i \in 1..MaxLines : WF_vars(i \in Lines /\ AdapterStep(i)) /\ WF_vars(i \in Lines /\ TimePasses(i))
    /\ WF_vars(Start)

LiveSpec == Spec /\ Fairness

----------------------------------------------------------------------------
(* The platform shows no line twice, whatever was lost or restarted. *)
ShownOnce == \A k, l \in 1..Len(arrived) : arrived[k] = arrived[l] => k = l

(* "later lines there never overtake it": what arrived, arrived in the order *)
(* she wrote it, unless the earlier line's own fate was unknown, or it is of *)
(* an earlier turn and its send took longer than the lease.                  *)
InOrder == \A k, l \in 1..Len(arrived) :
    LET i == arrived[l]  j == arrived[k]
    IN k < l /\ i < j /\ lines[i].kind = "chat" /\ lines[j].kind = "chat"
       => i \in doubted \/ (lines[i].lease = "over" /\ lines[i].turn # lines[j].turn)

(* "once one has settled without arriving the later ones never go": behind  *)
(* a chat part that failed, of which nothing was ever unknown, no later     *)
(* part of the turn is sent or delivered.                                   *)
NoTailAfterFailure == \A i, j \in Lines :
    /\ lines[i].turn = lines[j].turn /\ lines[i].index < lines[j].index
    /\ lines[i].kind = "chat" /\ lines[i].state \in {"FAILED", "CANCELLED_AFTER_FAILURE"}
    /\ i \notin doubted
    => lines[j].state \notin {"SENDING", "DELIVERED", "UNKNOWN"}

(* "an adapter running several sends at once never has two of one           *)
(* conversation out" (ADR-095), within the lease.                            *)
OneOut == \A i, j \in Lines :
    /\ lines[i].kind = "chat" /\ lines[i].state = "SENDING" /\ lines[i].lease = "running"
    /\ lines[j].kind = "chat" /\ lines[j].state = "SENDING" /\ lines[j].lease = "running"
    => i = j

(* So a conversation's lines leave once each, one by one, in her order.      *)
OneByOne == ShownOnce /\ OneOut /\ InOrder

(* What the rows say, and she is told, is what the platform shows: a line    *)
(* said to have never left is not there, and one said to be delivered is.    *)
RowsTellTheTruth == \A i \in Lines :
    /\ lines[i].state \in NeverLeft => \A k \in 1..Len(arrived) : arrived[k] # i
    /\ lines[i].state = "DELIVERED" => \E k \in 1..Len(arrived) : arrived[k] = i

InState(i, states) == i \in Lines /\ lines[i].state \in states

(* A part that nobody carries on: its publication was refused or a crash     *)
(* came before it, or the adapter was lost with it.                          *)
ToPublish(i) == worker.pc = "writing" /\ \E k \in 1..Len(worker.todo) : worker.todo[k] = i
Lost(i)      == lines[i].state = "SENDING" /\ adapter[i] = "none"
Forsaken(i)  == Lost(i) \/ (lines[i].state = "READY" /\ ~ToPublish(i))

(* The line that its lane comes to waits for such a chat part of its turn.   *)
HeldUp(i) == \E j \in Lines :
    /\ lines[j].kind = "chat" /\ Forsaken(j)
    /\ \E lane \in Lanes : InLane(i, lane) /\ \E k \in Front(lane) : k <= i /\ j \in Earlier(k)

(* Every line handed to the outbox is settled, over refusals, failed turns   *)
(* and a crash, unless its own answer was lost, or the next line of its      *)
(* conversation is held by an earlier part that nobody carries on.           *)
LinesSettle == \A i \in 1..MaxLines :
    InState(i, {"QUEUED_EXTERNAL", "SENDING"})
        ~> ~InState(i, {"QUEUED_EXTERNAL", "SENDING"}) \/ Lost(i) \/ HeldUp(i)
=============================================================================

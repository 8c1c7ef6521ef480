---------------------------- MODULE TaskHandback ----------------------------
(***************************************************************************)
(* A delegated task and the way of its result back to the character brain  *)
(* (tasks.py, handover.py, chat.py, host.py).                               *)
(*                                                                         *)
(* Four actors share the database rows: the task worker runs a READY task  *)
(* under a fenced lease; the conversation worker gives her a turn on a     *)
(* finished one ("hand-back"); the watchdog sweeps for results handed back *)
(* by no one and for runs whose lease expired; and the requester may cancel *)
(* at any moment. The queues, the set of hand-backs on their way and every *)
(* program counter are memory: a crash loses them, a restart rebuilds what *)
(* it can from the rows.                                                    *)
(*                                                                         *)
(* `left` holds the bounds of the checked instances (Bound): how many      *)
(* faults, crashes, cancellations and so on a behaviour may still have.     *)
(***************************************************************************)
EXTENDS Integers, Sequences, FiniteSets, SequencesExt

CONSTANTS Tasks, Bound

Disturbances == {"fault", "protocol", "delegate", "crash", "cancel", "policy", "lease", "restart"}

ASSUME TaskHandbackAssumption == IsFiniteSet(Tasks) /\ Bound \in [Disturbances -> Nat]

VARIABLES
    \* rows of the database
    task,            \* the task rows
    turn,            \* her turns on a result: the full and the short version's episode state
    asked,           \* the state of the episode that delegated the task
    moved,           \* the tasks whose scene's policy epoch changed after they were made
    \* memory of the Host process
    up, stopping, restartPending,
    scheduled, taskQueue, exec,
    handbacks, pending, conv,
    sweep,
    left             \* what is left of each bound

rows      == <<task, turn, asked, moved>>
lifecycle == <<up, stopping, restartPending>>
execVars  == <<scheduled, taskQueue, exec>>
convVars  == <<handbacks, pending, conv>>
vars      == <<rows, lifecycle, execVars, convVars, sweep, left>>

Versions  == {"full", "short"}
Finished  == {"RETURNED", "BLOCKED"}
Taken     == {"DELIVERED", "WAITING_TASK", "SUPPRESSED", "UNDELIVERABLE"}
Resumable == {"TURN", "INTERRUPTED"}
TurnStates == Resumable \cup {"NONE", "COMMITTED", "WAITING_TASK", "FAILED_PROTOCOL",
                              "FAILED_RUNTIME", "SUPPRESSED"}
ReportFailuresBeforeShort == 2

(* The operators named Wrong... are slips the code below each could have    *)
(* had: the runs show that the properties notice them.                      *)
WrongNotFailedWithoutOpen == {"FAILED_PROTOCOL", "COMMITTED"}
WrongNotFailedWithoutCommitted == Resumable \cup {"FAILED_PROTOCOL"}

(* The turn states after which handover.next_step still waits for the turn: *)
(* any other existing one counts as a turn that failed.                     *)
NotFailed == Resumable \cup {"FAILED_PROTOCOL", "COMMITTED"}

Spend(kind) == left[kind] > 0 /\ left' = [left EXCEPT ![kind] = @ - 1]

Version(short) == IF short THEN "short" ELSE "full"

(* handover.waiting: finished, and the result has not reached her. *)
Owed(t) == task[t].state \in Finished /\ task[t].fb \notin Taken \cup {"NONE"}

IdleExec  == [pc |-> "idle"]
IdleConv  == [pc |-> "idle"]
IdleSweep == [pc |-> "idle"]

Init ==
    /\ task = [t \in Tasks |-> [state |-> "READY", fence |-> 0, lease |-> FALSE, fb |-> "NONE",
                                fbEp |-> "none", failures |-> 0, shortFailed |-> FALSE]]
    /\ turn = [t \in Tasks |-> [v \in Versions |-> "NONE"]]
    /\ asked = [t \in Tasks |-> "WAITING_TASK"]
    /\ moved = {}
    /\ up = TRUE /\ stopping = FALSE /\ restartPending = FALSE
    /\ scheduled = Tasks /\ taskQueue = SetToSeq(Tasks) /\ exec = IdleExec
    /\ handbacks = {} /\ pending = <<>> /\ conv = IdleConv
    /\ sweep = IdleSweep
    /\ left = Bound

----------------------------------------------------------------------------
(* The requester and the place. *)

(* TaskService.cancel, in any state: the fence moves on, so that no write   *)
(* of a run or a hand-back still under way stands.                          *)
Cancelled(t) == [task EXCEPT ![t].state = "CANCELLED", ![t].fence = @ + 1, ![t].fb = "SUPPRESSED"]

Cancel(t) ==
    /\ task[t].state # "CANCELLED"
    /\ Spend("cancel")
    /\ task' = Cancelled(t)
    /\ UNCHANGED <<turn, asked, moved, lifecycle, execVars, convVars, sweep>>

(* An erasure in the task's scene advances the scene's policy epoch. *)
PolicyChanges(t) ==
    /\ t \notin moved
    /\ Spend("policy")
    /\ moved' = moved \cup {t}
    /\ UNCHANGED <<task, turn, asked, lifecycle, execVars, convVars, sweep>>

----------------------------------------------------------------------------
(* The task worker: Chat._tasks and Executor. *)

TakeTask ==
    /\ up /\ ~stopping /\ ~restartPending
    /\ exec.pc = "idle" /\ taskQueue # <<>>
    /\ exec' = [pc |-> "taken", task |-> Head(taskQueue)]
    /\ taskQueue' = Tail(taskQueue)
    /\ UNCHANGED <<rows, lifecycle, scheduled, convVars, sweep, left>>

(* TaskService.claim: a READY row becomes RUNNING under a new fence. *)
Claim ==
    LET t == exec.task
    IN /\ exec.pc = "taken"
       /\ task[t].state = "READY"
       /\ task' = [task EXCEPT ![t].state = "RUNNING", ![t].fence = @ + 1, ![t].lease = TRUE]
       /\ exec' = [pc |-> "running", task |-> t, fence |-> task[t].fence + 1]
       /\ UNCHANGED <<turn, asked, moved, lifecycle, scheduled, taskQueue, convVars, sweep, left>>

(* No longer READY, or its workspace's lease is held by another process:    *)
(* the row stays as it is.                                                  *)
LeaveUnclaimed ==
    /\ exec.pc = "taken"
    /\ \/ task[exec.task].state # "READY" /\ UNCHANGED left
       \/ task[exec.task].state = "READY" /\ Spend("fault")
    /\ exec' = IdleExec
    /\ UNCHANGED <<rows, lifecycle, scheduled, taskQueue, convVars, sweep>>

StillMine == /\ task[exec.task].state = "RUNNING"
             /\ task[exec.task].fence = exec.fence

WrongValidRun == exec.task \notin moved

(* TaskService.valid, asked under the effects lock before a run's result is written. *)
ValidRun == StillMine /\ exec.task \notin moved /\ task[exec.task].lease

EndRun(outcome) ==
    /\ task' = [task EXCEPT ![exec.task].state = outcome, ![exec.task].fb = "READY"]
    /\ exec' = [pc |-> "report", task |-> exec.task]
    /\ UNCHANGED <<turn, asked, moved, lifecycle, scheduled, taskQueue, convVars, sweep, left>>

(* The run ended: with a usable report, or with one that is not. *)
FinishRun(outcome) ==
    /\ exec.pc = "running" /\ ValidRun
    /\ EndRun(outcome)

(* The run raised, a fence found moved included: BLOCKED if the row is still its own. *)
FailRun == exec.pc = "running" /\ StillMine /\ EndRun("BLOCKED")

(* The run raised and its row is no longer its own, or the row could not be written. *)
AbandonRun ==
    /\ exec.pc = "running"
    /\ \/ ~StillMine /\ UNCHANGED left
       \/ StillMine /\ Spend("fault")
    /\ exec' = IdleExec
    /\ UNCHANGED <<rows, lifecycle, scheduled, taskQueue, convVars, sweep>>

WrongHandBackTwice(t, short, again) ==
    /\ handbacks' = handbacks \cup {t}
    /\ pending' = Append(pending, [task |-> t, short |-> short, again |-> again])

(* Chat.hand_back: queued once, while it is not on its way already. *)
HandBack(t, short, again) ==
    IF t \in handbacks THEN UNCHANGED <<handbacks, pending>>
    ELSE /\ handbacks' = handbacks \cup {t}
         /\ pending' = Append(pending, [task |-> t, short |-> short, again |-> again])

ReportRun ==
    /\ exec.pc = "report"
    /\ IF stopping THEN UNCHANGED <<handbacks, pending>> ELSE HandBack(exec.task, FALSE, FALSE)
    /\ exec' = IdleExec
    /\ UNCHANGED <<rows, lifecycle, scheduled, taskQueue, conv, sweep, left>>

(* TaskService.keepalive renews the lease of a live run; it expires when    *)
(* nothing runs the task, or when renewing it fails for ten minutes.        *)
LeaseExpires(t) ==
    /\ task[t].state = "RUNNING" /\ task[t].lease
    /\ IF exec.pc = "running" /\ exec.task = t THEN Spend("lease") ELSE UNCHANGED left
    /\ task' = [task EXCEPT ![t].lease = FALSE]
    /\ UNCHANGED <<turn, asked, moved, lifecycle, execVars, convVars, sweep>>

----------------------------------------------------------------------------
(* The conversation worker: Chat._work over TaskService.feedback. *)

TakeHandback ==
    /\ up /\ ~stopping /\ ~restartPending
    /\ conv.pc = "idle" /\ pending # <<>>
    /\ conv' = [pc |-> "held", item |-> Head(pending)]
    /\ pending' = Tail(pending)
    /\ UNCHANGED <<rows, lifecycle, execVars, handbacks, sweep, left>>

(* Taken from the queue, then under the state lock: abandoned by a stop,    *)
(* queued again by a pending restart, or begun.                             *)
HoldHandback ==
    /\ conv.pc = "held"
    /\ pending' = IF restartPending /\ ~stopping THEN Append(pending, conv.item) ELSE pending
    /\ conv' = [pc |-> IF stopping \/ restartPending THEN "leave" ELSE "begin",
                item |-> conv.item, kept |-> FALSE]
    /\ UNCHANGED <<rows, lifecycle, execVars, handbacks, sweep, left>>

Leave == [pc |-> "leave", item |-> conv.item, kept |-> FALSE]
Raise == [pc |-> "raised", item |-> conv.item, kept |-> FALSE]
At(pc, v) == [pc |-> pc, item |-> conv.item, ep |-> v, kept |-> FALSE]

WrongMayHandBack(t, again) == task[t].state \in Finished /\ (task[t].fb = "READY" \/ again)

(* Whether a result may be handed back now; the watchdog's `again` reaches *)
(* results whose earlier hand-back ended in some other state than READY.    *)
MayHandBack(t, again) == Owed(t) /\ (task[t].fb = "READY" \/ again)

(* The result no longer authorizes a turn: require_current_feedback. *)
StaleResult(t) == task[t].state = "CANCELLED" \/ t \in moved

RefuseFeedback ==
    LET t == conv.item.task
    IN /\ conv.pc = "begin"
       /\ ~MayHandBack(t, conv.item.again) \/ t \in moved
       /\ task' = IF MayHandBack(t, conv.item.again)
                  THEN [task EXCEPT ![t].fb = "SUPPRESSED"] ELSE task
       /\ conv' = Leave
       /\ UNCHANGED <<turn, asked, moved, lifecycle, execVars, handbacks, pending, sweep, left>>

(* The episode of this hand-back is found, or ingested as a new turn. *)
BeginFeedback ==
    LET t == conv.item.task
        v == IF ~conv.item.short /\ task[t].fbEp # "none" THEN task[t].fbEp
             ELSE Version(conv.item.short)
        advances == turn[t][v] \in Resumable \cup {"NONE", "FAILED_PROTOCOL"}
    IN /\ conv.pc = "begin"
       /\ MayHandBack(t, conv.item.again) /\ t \notin moved
       /\ turn' = IF turn[t][v] = "NONE" THEN [turn EXCEPT ![t][v] = "TURN"] ELSE turn
       /\ conv' = At(IF advances THEN "advance" ELSE "save", v)
       /\ UNCHANGED <<task, asked, moved, lifecycle, execVars, handbacks, pending, sweep, left>>

(* Coordinator._advance: a stale result suppresses the turn, else it runs. *)
Advance ==
    LET t == conv.item.task
        stale == StaleResult(t)
    IN /\ conv.pc = "advance"
       /\ turn' = [turn EXCEPT ![t][conv.ep] = IF stale THEN "SUPPRESSED" ELSE "TURN"]
       /\ conv' = At(IF stale THEN "save" ELSE "turn", conv.ep)
       /\ UNCHANGED <<task, asked, moved, lifecycle, execVars, handbacks, pending, sweep, left>>

(* Her turn ran: it committed, it waits for a task it delegated in turn, it *)
(* was suppressed at a tool call or a publication, or its output was no     *)
(* turn at all.                                                             *)
EndTurn(outcome) ==
    /\ conv.pc = "turn"
    /\ outcome = "SUPPRESSED" => StaleResult(conv.item.task)
    /\ CASE outcome = "FAILED_PROTOCOL" -> Spend("protocol")
         [] outcome = "WAITING_TASK"    -> Spend("delegate")
         [] OTHER                       -> UNCHANGED left
    /\ turn' = [turn EXCEPT ![conv.item.task][conv.ep] = outcome]
    /\ conv' = At("save", conv.ep)
    /\ UNCHANGED <<task, asked, moved, lifecycle, execVars, handbacks, pending, sweep>>

FeedbackState(turnState) ==
    CASE turnState = "FAILED_PROTOCOL" -> "READY"
      [] turnState = "COMMITTED"       -> "DELIVERED"
      [] OTHER                         -> turnState

WrongSaveFeedback ==
    LET t == conv.item.task
        outcome == turn[t][conv.ep]
    IN /\ conv.pc = "save"
       /\ task' = [task EXCEPT ![t].fb = FeedbackState(outcome), ![t].fbEp = conv.ep]
       /\ conv' = At("result", conv.ep)
       /\ UNCHANGED <<turn, asked, moved, lifecycle, execVars, handbacks, pending, sweep, left>>

(* The end of TaskService.feedback, under the effects lock: a cancellation  *)
(* made meanwhile is never overwritten.                                     *)
SaveFeedback ==
    LET t == conv.item.task
        outcome == turn[t][conv.ep]
    IN /\ conv.pc = "save"
       /\ task' = IF task[t].state = "CANCELLED" THEN task
                  ELSE [task EXCEPT ![t].fb = FeedbackState(outcome), ![t].fbEp = conv.ep]
       /\ conv' = At(IF task[t].state # "CANCELLED" /\ outcome = "COMMITTED"
                        /\ asked[t] = "WAITING_TASK" THEN "settle" ELSE "result", conv.ep)
       /\ UNCHANGED <<turn, asked, moved, lifecycle, execVars, handbacks, pending, sweep, left>>

(* The turn that asked for the task ends with the turn that read its result. *)
SettleAsking ==
    /\ conv.pc = "settle"
    /\ asked' = [asked EXCEPT ![conv.item.task] = "COMMITTED"]
    /\ conv' = At("result", conv.ep)
    /\ UNCHANGED <<task, turn, moved, lifecycle, execVars, handbacks, pending, sweep, left>>

(* A turn that waits for a task it delegated ends with that task's own      *)
(* hand-back, which is some other turn of the conversation worker.          *)
FollowUpSettles(t) ==
    /\ up /\ conv.pc = "idle"
    /\ \E v \in Versions :
        /\ turn[t][v] = "WAITING_TASK"
        /\ turn' = [turn EXCEPT ![t][v] = "COMMITTED"]
    /\ UNCHANGED <<task, asked, moved, lifecycle, execVars, convVars, sweep, left>>

(* Back in Chat._work: a turn whose output failed is queued again; what     *)
(* follows may still raise.                                                 *)
ReturnResult ==
    LET kept == turn[conv.item.task][conv.ep] = "FAILED_PROTOCOL"
    IN /\ conv.pc = "result"
       /\ pending' = IF kept /\ ~stopping THEN Append(pending, conv.item) ELSE pending
       /\ \/ conv' = [pc |-> "leave", item |-> conv.item, kept |-> kept] /\ UNCHANGED left
          \/ conv' = [pc |-> "raised", item |-> conv.item, kept |-> kept] /\ Spend("fault")
       /\ UNCHANGED <<rows, lifecycle, execVars, handbacks, sweep>>

(* Anything of a hand-back may raise: the database, the model, a lock. *)
RaiseInFeedback ==
    /\ conv.pc \in {"begin", "advance", "turn", "save", "settle"}
    /\ Spend("fault")
    /\ conv' = Raise
    /\ UNCHANGED <<rows, lifecycle, execVars, handbacks, pending, sweep>>

(* TaskService.record_handback_failure: the hand-back never reached a turn. *)
HandbackFailed(t, short) ==
    IF short THEN [task EXCEPT ![t].shortFailed = TRUE]
    ELSE [task EXCEPT ![t].failures = IF @ < ReportFailuresBeforeShort THEN @ + 1 ELSE @]

(* The exception of a hand-back: recorded where the watchdog reads it, or   *)
(* not at all when recording it fails too.                                  *)
RecordFailure ==
    LET t == conv.item.task
        v == Version(conv.item.short)
    IN /\ conv.pc = "raised"
       /\ \/ /\ turn[t][v] \notin {"NONE", "COMMITTED", "WAITING_TASK"}
             /\ turn' = [turn EXCEPT ![t][v] = IF stopping THEN "INTERRUPTED" ELSE "FAILED_RUNTIME"]
             /\ UNCHANGED <<task, left>>
          \/ /\ turn[t][v] = "NONE"
             /\ task' = HandbackFailed(t, conv.item.short)
             /\ UNCHANGED <<turn, left>>
          \/ /\ turn[t][v] \in {"COMMITTED", "WAITING_TASK"}
             /\ UNCHANGED <<task, turn, left>>
          \/ /\ Spend("fault")
             /\ UNCHANGED <<task, turn>>
       /\ conv' = [conv EXCEPT !.pc = "leave"]
       /\ UNCHANGED <<asked, moved, lifecycle, execVars, handbacks, pending, sweep>>

WrongLeaveHandback ==
    /\ conv.pc = "leave"
    /\ handbacks' = IF conv.kept THEN handbacks \ {conv.item.task} ELSE handbacks
    /\ conv' = IdleConv
    /\ UNCHANGED <<rows, lifecycle, execVars, pending, sweep, left>>

(* The `finally` of Chat._work. *)
LeaveHandback ==
    /\ conv.pc = "leave"
    /\ handbacks' = IF conv.kept THEN handbacks ELSE handbacks \ {conv.item.task}
    /\ conv' = IdleConv
    /\ UNCHANGED <<rows, lifecycle, execVars, pending, sweep, left>>

----------------------------------------------------------------------------
(* The watchdog: Chat.sweep over handover.py, once a minute. *)

BeginSweep ==
    /\ up /\ ~stopping /\ ~restartPending
    /\ sweep.pc = "idle"
    /\ sweep' = [pc |-> "orphans",
                 running |-> IF exec.pc = "idle" THEN {} ELSE {exec.task}, onWay |-> handbacks]
    /\ UNCHANGED <<rows, lifecycle, execVars, convVars, left>>

WrongOrphans == {t \in Tasks : task[t].state = "RUNNING" /\ task[t].lease /\ t \notin sweep.running}

Orphans == {t \in Tasks : task[t].state = "RUNNING" /\ ~task[t].lease /\ t \notin sweep.running}

FindOrphans ==
    /\ sweep.pc = "orphans"
    /\ sweep' = [pc |-> "closing", running |-> sweep.running, onWay |-> sweep.onWay,
                 todo |-> {<<t, task[t].fence>> : t \in Orphans}]
    /\ UNCHANGED <<rows, lifecycle, execVars, convVars, left>>

(* TaskService.close_orphan, if the row is still as it was found. *)
CloseOrphan ==
    /\ sweep.pc = "closing"
    /\ \E found \in sweep.todo :
        LET t == found[1]
            same == task[t].state = "RUNNING" /\ task[t].fence = found[2]
        IN /\ task' = IF same THEN [task EXCEPT ![t].state = "BLOCKED", ![t].fb = "READY",
                                                ![t].fence = @ + 1]
                      ELSE task
           /\ sweep' = [sweep EXCEPT !.todo = @ \ {found},
                                     !.onWay = IF same THEN @ \ {t} ELSE @]
    /\ UNCHANGED <<turn, asked, moved, lifecycle, execVars, convVars, left>>

FindLost ==
    /\ sweep.pc = "closing" /\ sweep.todo = {}
    /\ sweep' = [pc |-> "lost",
                 todo |-> {t \in Tasks : Owed(t) /\ t \notin sweep.onWay \cup sweep.running}]
    /\ UNCHANGED <<rows, lifecycle, execVars, convVars, left>>

Failed(turnState) == turnState # "NONE" /\ turnState \notin NotFailed

WrongNextStep(t) ==
    IF task[t].shortFailed \/ Failed(turn[t]["short"]) \/ Failed(turn[t]["full"]) THEN "give_up"
    ELSE IF turn[t]["short"] # "NONE" \/ task[t].failures >= ReportFailuresBeforeShort THEN "short"
    ELSE "full"

(* handover.next_step. *)
NextStep(t) ==
    IF task[t].shortFailed \/ Failed(turn[t]["short"]) THEN "give_up"
    ELSE IF \/ turn[t]["short"] # "NONE" \/ Failed(turn[t]["full"])
            \/ task[t].failures >= ReportFailuresBeforeShort THEN "short"
    ELSE "full"

Decide(t) ==
    /\ sweep.pc = "lost" /\ t \in sweep.todo
    /\ sweep' = [pc |-> "act", todo |-> sweep.todo \ {t}, task |-> t, step |-> NextStep(t)]
    /\ UNCHANGED <<rows, lifecycle, execVars, convVars, left>>

HandBackAgain ==
    /\ sweep.pc = "act" /\ sweep.step # "give_up"
    /\ HandBack(sweep.task, sweep.step = "short", TRUE)
    /\ sweep' = [pc |-> "lost", todo |-> sweep.todo]
    /\ UNCHANGED <<rows, lifecycle, execVars, conv, left>>

(* TaskService.give_up_handback. *)
GiveUp ==
    LET t == sweep.task
    IN /\ sweep.pc = "act" /\ sweep.step = "give_up"
       /\ task' = IF task[t].fb \in Taken THEN task
                  ELSE [task EXCEPT ![t].fb = "UNDELIVERABLE"]
       /\ sweep' = [pc |-> "lost", todo |-> sweep.todo]
       /\ UNCHANGED <<turn, asked, moved, lifecycle, execVars, convVars, left>>

(* Swept, or the sweep raised: the next one begins anew. *)
EndSweep ==
    /\ sweep.pc # "idle"
    /\ IF sweep.pc = "lost" /\ sweep.todo = {} THEN UNCHANGED left ELSE Spend("fault")
    /\ sweep' = IdleSweep
    /\ UNCHANGED <<rows, lifecycle, execVars, convVars>>

----------------------------------------------------------------------------
(* The Host process. *)

(* A core publication waits for its worker restart; both queues pause. *)
RestartPends ==
    /\ up /\ ~stopping /\ ~restartPending
    /\ Spend("restart")
    /\ restartPending' = TRUE
    /\ UNCHANGED <<rows, up, stopping, execVars, convVars, sweep>>

(* What the restart was for was overtaken by another publication. *)
RestartWithdrawn ==
    /\ restartPending /\ ~stopping
    /\ restartPending' = FALSE
    /\ UNCHANGED <<rows, up, stopping, execVars, convVars, sweep, left>>

(* Asked to stop; a pending restart stops the Host once no turn or run is active. *)
BeginStop ==
    /\ up /\ ~stopping
    /\ \/ restartPending /\ exec.pc = "idle" /\ conv.pc \in {"idle", "held"} /\ UNCHANGED left
       \/ Spend("crash")
    /\ stopping' = TRUE
    /\ UNCHANGED <<rows, up, restartPending, execVars, convVars, sweep>>

(* Chat.stop: what this process had queued or runs is cancelled, unless it  *)
(* only restarts.                                                           *)
StopCancels(t) ==
    /\ up /\ stopping /\ ~restartPending
    /\ t \in scheduled /\ task[t].state \in {"READY", "RUNNING"}
    /\ task' = Cancelled(t)
    /\ UNCHANGED <<turn, asked, moved, lifecycle, execVars, convVars, sweep, left>>

(* The process ends, after a stop or by a crash: its memory is gone. *)
EndProcess ==
    /\ up
    /\ IF stopping THEN UNCHANGED left ELSE Spend("crash")
    /\ up' = FALSE /\ stopping' = FALSE /\ restartPending' = FALSE
    /\ scheduled' = {} /\ taskQueue' = <<>> /\ exec' = IdleExec
    /\ handbacks' = {} /\ pending' = <<>> /\ conv' = IdleConv
    /\ sweep' = IdleSweep
    /\ UNCHANGED rows

(* Host._feedback_taken: her turn on the result ran. *)
FeedbackTaken(t) == task[t].fbEp # "none" /\ turn[t][task[t].fbEp] \in {"COMMITTED", "WAITING_TASK"}

ReadTurn(t) == FeedbackTaken(t) /\ turn[t][task[t].fbEp] = "COMMITTED" /\ task[t].state # "CANCELLED"

(* Host._recover_tasks for one row: a turn that committed is settled, a run *)
(* cut by the end of the process comes back as a BLOCKED result.            *)
Recovered(t) ==
    IF ReadTurn(t) THEN [task[t] EXCEPT !.fb = "DELIVERED"]
    ELSE IF task[t].state = "RUNNING"
         THEN [task[t] EXCEPT !.state = "BLOCKED", !.fb = "READY", !.fence = @ + 1]
    ELSE task[t]

(* The Host starts: rows are recovered before any worker begins; READY      *)
(* tasks are queued again.                                                  *)
Start ==
    LET ready == {t \in Tasks : task[t].state = "READY"}
    IN /\ ~up
       /\ up' = TRUE
       /\ task' = [t \in Tasks |-> Recovered(t)]
       /\ asked' = [t \in Tasks |-> IF ReadTurn(t) THEN "COMMITTED" ELSE asked[t]]
       /\ scheduled' = ready /\ taskQueue' = SetToSeq(ready)
       /\ UNCHANGED <<turn, moved, stopping, restartPending, exec, convVars, sweep, left>>

----------------------------------------------------------------------------
TurnOutcomes == {"COMMITTED", "WAITING_TASK", "SUPPRESSED", "FAILED_PROTOCOL"}

ExecStep == TakeTask \/ Claim \/ LeaveUnclaimed \/ (\E outcome \in Finished : FinishRun(outcome))
            \/ FailRun \/ AbandonRun \/ ReportRun

ConvStep == TakeHandback \/ HoldHandback \/ RefuseFeedback \/ BeginFeedback \/ Advance
            \/ (\E outcome \in TurnOutcomes : EndTurn(outcome)) \/ SaveFeedback \/ SettleAsking
            \/ ReturnResult \/ RaiseInFeedback \/ RecordFailure \/ LeaveHandback

SweepStep == BeginSweep \/ FindOrphans \/ CloseOrphan \/ FindLost
             \/ (\E t \in Tasks : Decide(t)) \/ HandBackAgain \/ GiveUp \/ EndSweep

HostStep == RestartPends \/ RestartWithdrawn \/ BeginStop \/ (\E t \in Tasks : StopCancels(t))
            \/ EndProcess \/ Start

Environment == \E t \in Tasks : Cancel(t) \/ PolicyChanges(t) \/ LeaseExpires(t)
                                \/ FollowUpSettles(t)

Next == ExecStep \/ ConvStep \/ SweepStep \/ HostStep \/ Environment

Spec == Init /\ [][Next]_vars

----------------------------------------------------------------------------
TaskRows == [state : {"READY", "RUNNING", "CANCELLED"} \cup Finished, fence : Nat, lease : BOOLEAN,
             fb : Taken \cup {"NONE", "READY", "FAILED_RUNTIME"},
             fbEp : Versions \cup {"none"},
             failures : 0..ReportFailuresBeforeShort, shortFailed : BOOLEAN]

Handbacks == [task : Tasks, short : BOOLEAN, again : BOOLEAN]

ExecStates == {IdleExec} \cup [pc : {"taken", "report"}, task : Tasks]
              \cup [pc : {"running"}, task : Tasks, fence : Nat]

ConvStates == {IdleConv} \cup [pc : {"held"}, item : Handbacks]
              \cup [pc : {"begin", "leave", "raised"}, item : Handbacks, kept : BOOLEAN]
              \cup [pc : {"advance", "turn", "save", "settle", "result"}, item : Handbacks,
                    ep : Versions, kept : {FALSE}]

SweepStates == {IdleSweep}
               \cup [pc : {"orphans"}, running : SUBSET Tasks, onWay : SUBSET Tasks]
               \cup [pc : {"closing"}, running : SUBSET Tasks, onWay : SUBSET Tasks,
                     todo : SUBSET (Tasks \X Nat)]
               \cup [pc : {"lost"}, todo : SUBSET Tasks]
               \cup [pc : {"act"}, todo : SUBSET Tasks, task : Tasks,
                     step : {"full", "short", "give_up"}]

RowsTyped ==
    /\ task \in [Tasks -> TaskRows]
    /\ turn \in [Tasks -> [Versions -> TurnStates]]
    /\ asked \in [Tasks -> {"WAITING_TASK", "COMMITTED"}]
    /\ moved \subseteq Tasks
HostTyped  == up \in BOOLEAN /\ stopping \in BOOLEAN /\ restartPending \in BOOLEAN
ExecTyped  == scheduled \subseteq Tasks /\ taskQueue \in Seq(Tasks) /\ exec \in ExecStates
ConvTyped  == handbacks \subseteq Tasks /\ pending \in Seq(Handbacks) /\ conv \in ConvStates
SweepTyped == sweep \in SweepStates
LeftTyped  == left \in [Disturbances -> Nat]

TypeOK == RowsTyped /\ HostTyped /\ ExecTyped /\ ConvTyped /\ SweepTyped /\ LeftTyped

----------------------------------------------------------------------------
(* The phase of a task's result in ResultDelivery. *)
Phase(t) ==
    CASE task[t].state \in {"READY", "RUNNING"} -> "open"
      [] task[t].state = "CANCELLED" -> "cancelled"
      [] task[t].state \in Finished /\ task[t].fb \in {"DELIVERED", "WAITING_TASK"} -> "taken"
      [] task[t].state \in Finished /\ task[t].fb \in {"SUPPRESSED", "UNDELIVERABLE"} -> "closed"
      [] OTHER -> "owed"

Delivery == INSTANCE ResultDelivery WITH phase <- [t \in Tasks |-> Phase(t)]

(* The rows deliver results as ResultDelivery says: a result is owed once,  *)
(* and what was taken, closed or cancelled is never owed again.             *)
DeliverySpec == Delivery!Spec

(* A stale worker never changes a result: once the row is finished, only a  *)
(* cancellation changes its state (the fence of TaskService.valid).         *)
ResultStands == [][\A t \in Tasks : task[t].state \in Finished =>
                                    task'[t].state \in {task[t].state, "CANCELLED"}]_vars

(* A cancelled task stays so, and nothing of it is handed back: the writes  *)
(* of a turn, a run or a sweep that began before the cancellation are void. *)
CancelIsFinal == [][\A t \in Tasks : task[t].state = "CANCELLED" =>
                       task'[t].state = "CANCELLED" /\ task'[t].fb = "SUPPRESSED"]_vars

(* Nobody's stale view of a task takes back what was settled about it.       *)
SettledStands == ResultStands /\ CancelIsFinal

(* A turn on one version of a result that ran to its end. *)
Ran(t, v) == turn[t][v] \in {"COMMITTED", "WAITING_TASK"}

(* She reads a result in one turn: a crash between her turn and the row's   *)
(* feedback_state never gives it to her a second time.                      *)
ReadOnce == \A t \in Tasks : ~(Ran(t, "full") /\ Ran(t, "short"))

(* The same while no turn of hers on a result delegated further work: the   *)
(* watchdog takes a turn that waits for such work for one that failed.      *)
ReadOnceUnlessHandedOn == left["delegate"] = Bound["delegate"] => ReadOnce

(* The short version replaces a full one that failed: her turns on the two  *)
(* are never both open, whatever was interrupted, and by whom.              *)
OneOpenTurn == \A t \in Tasks :
    turn[t]["short"] # "NONE" => turn[t]["full"] \notin Resumable \cup {"FAILED_PROTOCOL"}

(* "When the short version fails too, the developer is told": not before.   *)
GivenUpAfterShort == \A t \in Tasks :
    task[t].fb = "UNDELIVERABLE" => task[t].shortFailed \/ Failed(turn[t]["short"])

GivenUpAfterShortUnlessHandedOn == left["delegate"] = Bound["delegate"] => GivenUpAfterShort

(* The two versions of a result take turns: read in one turn, open in one at *)
(* a time, given up only behind the short one.                              *)
VersionsInTurn == ReadOnceUnlessHandedOn /\ OneOpenTurn /\ GivenUpAfterShortUnlessHandedOn

(* In the conversation worker's hands and not yet queued again or done. *)
InHand(t) == /\ conv.pc \in {"held", "begin", "advance", "turn", "save", "settle", "result"}
             /\ conv.item.task = t

Queued(t) == \E i \in 1..Len(pending) : pending[i].task = t

(* "the watchdog leaves it alone while it is on its way": a result is once  *)
(* in the queue or in the worker's hands, and then marked as on its way.    *)
OnItsWayOnce ==
    /\ \A i, j \in 1..Len(pending) : pending[i].task = pending[j].task => i = j
    /\ \A t \in Tasks : Queued(t) => ~InHand(t)
    /\ \A t \in Tasks : Queued(t) \/ InHand(t) => t \in handbacks

(* No result is marked as on its way while nothing carries it: the watchdog *)
(* would leave it alone for ever.                                           *)
NoForgottenHandback == \A t \in handbacks :
    Queued(t) \/ stopping \/ (conv.pc # "idle" /\ conv.item.task = t)

----------------------------------------------------------------------------
(* Scheduling: every thread goes on, a process that ended is started again *)
(* (the plugin keeps the worker up), a pending restart is withdrawn or      *)
(* taken, and a lease nobody renews runs out.                               *)
Fairness ==
    /\ WF_vars(ExecStep) /\ WF_vars(ConvStep) /\ WF_vars(SweepStep)
    /\ WF_vars(Start)
    /\ WF_vars(stopping /\ EndProcess)
    /\ WF_vars(restartPending /\ (RestartWithdrawn \/ BeginStop))
    /\ \A t \in Tasks : WF_vars(LeaseExpires(t))

LiveSpec == Spec /\ Fairness

(* Every result owed is settled: she takes it, or it is closed or cancelled. *)
ResultsSettle == Delivery!Settles

(* No task stays RUNNING: a run ends, or the watchdog closes it as orphaned. *)
RunsEnd == \A t \in Tasks : task[t].state = "RUNNING" ~> task[t].state # "RUNNING"

(* Both: a task that runs ends, and what it ends with is settled.           *)
TasksSettle == RunsEnd /\ ResultsSettle
=============================================================================

------------------------------ MODULE ToolCalls ------------------------------
(***************************************************************************)
(* One running task: the tool calls its stages make (tasks.py ToolBroker,   *)
(* the worker's method `tool`) and the time limit of a stage (time_up.py    *)
(* StageClock, NativeLane.wait), about which she is asked.                  *)
(*                                                                         *)
(* Calls arrive on threads of their own, twice if the plugin repeats one.   *)
(* The executor's thread waits for the stage's result and reads the clock;  *)
(* a turn of hers may give more time or stop the task; the Host may crash.  *)
(* service.lock, the effects lock, makes each of its blocks one step; only  *)
(* a local tool holds it while it runs, the others run without it. The      *)
(* operators named Wrong... are slips the code below each could have had:   *)
(* the run shows that the properties notice them.                           *)
(***************************************************************************)
EXTENDS Integers, FiniteSets

CONSTANTS Calls,      \* call ids the action brain uses
          Inputs,     \* what a call id may come with: a tool and its arguments
          Local,      \* those whose tool runs under the effects lock
          Gated,      \* those of integration tools, which are not checked again
          Threads,    \* threads that serve method `tool`
          NoLock,     \* no thread: the effects lock is free
          Block,      \* length of a stage and of a block, in ticks
          Window,     \* length of her window, in ticks
          Bounds      \* bounds: requests served at once, stages of the run (attempts,
                      \* message rounds) and blocks of time she gives

ASSUME ToolAssumption ==
    /\ Local \subseteq Inputs /\ Gated \subseteq Inputs \ Local
    /\ NoLock \notin Threads
    /\ Block \in Nat \ {0} /\ Window \in Nat \ {0}
    /\ Bounds \subseteq [atOnce : Nat, stages : Nat, more : Nat]

Unseen == Window + 1

VARIABLES task,     \* the row: state, time_up as mark, time_more as more
          art,      \* the artifact row of each call: state and input_hash
          thread,   \* each request being served: where it is, its stage, call and input
          told,     \* observed: the outcomes that were answered
          lock,     \* the thread whose tool holds the effects lock
          bound,    \* the stages whose broker session is bound
          exec,     \* the executor: where it is, its stage, how the stage ends
          future,   \* what the stage's future holds
          clock,    \* the StageClock, its times as ticks from now
          threads,  \* task_time threads that wait for her
          fencing,  \* a cancellation that has not reached the stage yet
          runs,     \* observed: how often each call's tool was run
          max       \* the bounds of this behaviour

calls == <<art, thread, told, runs>>
stage == <<exec, future, clock>>
vars  == <<task, calls, lock, bound, stage, threads, fencing, max>>

Free  == lock = NoLock
Valid == task.state = "RUNNING"

NewClock == [ran |-> 0, asked |-> FALSE, left |-> Block, seen |-> Unseen, granted |-> 0]
Idle     == [pc |-> "idle"]

Init ==
    /\ task = [state |-> "RUNNING", mark |-> "none", more |-> 0]
    /\ art = [c \in Calls |-> [state |-> "NONE"]]
    /\ thread = [t \in Threads |-> Idle]
    /\ told = {} /\ runs = [c \in Calls |-> 0]
    /\ lock = NoLock /\ bound = {}
    /\ exec = [pc |-> "begin", stage |-> 0, how |-> "none"]
    /\ future = "none" /\ clock = NewClock
    /\ threads = 0 /\ fencing = FALSE /\ max \in Bounds

-----------------------------------------------------------------------------
(* A tool call.                                                              *)

At(t, pc)   == thread[t].pc = pc
Goto(t, pc) == thread' = [thread EXCEPT ![t].pc = pc]
Call(t)     == thread[t].call
Input(t)    == thread[t].input

Serving == {t \in Threads : ~At(t, "idle")}

(* A request is answered with a recorded outcome, or refused: it raised, it  *)
(* is no longer valid, its call id was used otherwise, nobody knows.         *)
Refuse(t) == thread' = [thread EXCEPT ![t] = Idle] /\ UNCHANGED told
Tell(t, state) ==
    /\ thread' = [thread EXCEPT ![t] = Idle]
    /\ told' = told \cup {[call |-> Call(t), input |-> Input(t), state |-> state]}

(* The request is read while its stage is pending and has no result.         *)
Deliver(t, c, i) ==
    /\ At(t, "idle") /\ Cardinality(Serving) < max.atOnce
    /\ exec.pc \in {"wait", "decide", "ended"} /\ future = "none"
    /\ thread' = [thread EXCEPT ![t] =
                    [pc |-> "admitted", stage |-> exec.stage, call |-> c, input |-> i]]
    /\ UNCHANGED <<task, art, told, runs, lock, bound, stage, threads, fencing, max>>

Bind(t) ==
    /\ At(t, "admitted")
    /\ IF Valid THEN bound' = bound \cup {thread[t].stage} /\ Goto(t, "bound") /\ UNCHANGED told
                ELSE Refuse(t) /\ UNCHANGED bound
    /\ UNCHANGED <<task, art, runs, lock, stage, threads, fencing, max>>

(* ToolBroker.call up to the saved intent, under the lock: a known call is   *)
(* answered from its row.                                                    *)
WrongSame(t) == TRUE
Same(t) == art[Call(t)].input = Input(t)

Replay(t) ==
    IF Same(t) /\ art[Call(t)].state \in {"DONE", "FAILED"}
      THEN Tell(t, art[Call(t)].state)
      ELSE Refuse(t)

WrongKnown(c) == art[c].state \in {"DONE", "FAILED"}
Known(c) == art[c].state # "NONE"

Accept(t) ==
    /\ At(t, "bound") /\ Free
    /\ IF thread[t].stage \notin bound \/ ~Valid THEN Refuse(t) /\ UNCHANGED art
       ELSE IF Known(Call(t)) THEN Replay(t) /\ UNCHANGED art
       ELSE /\ art' = [art EXCEPT ![Call(t)] = [state |-> "INTENT", input |-> Input(t)]]
            /\ Goto(t, "intent") /\ UNCHANGED told
    /\ UNCHANGED <<task, runs, lock, bound, stage, threads, fencing, max>>

WrongHold(t) == UNCHANGED lock
Hold(t) == lock' = (IF Input(t) \in Local THEN t ELSE lock)
Release(t) == lock' = (IF lock = t THEN NoLock ELSE lock)

RunTool(t) ==
    /\ At(t, "intent") /\ (Input(t) \in Local => Free)
    /\ IF Valid \/ Input(t) \in Gated
         THEN /\ runs' = [runs EXCEPT ![Call(t)] = @ + 1]
              /\ Goto(t, "runs") /\ Hold(t) /\ UNCHANGED told
         ELSE Refuse(t) /\ UNCHANGED <<runs, lock>>
    /\ UNCHANGED <<task, art, bound, stage, threads, fencing, max>>

(* The tool raises: the intent stays.                                        *)
Raise(t) ==
    /\ At(t, "runs")
    /\ Refuse(t) /\ Release(t)
    /\ UNCHANGED <<task, art, runs, bound, stage, threads, fencing, max>>

(* The tool comes back: a local one goes on to its receipt under the same    *)
(* lock, an integration one goes on unlocked, any other is checked again.    *)
Recheck(t) ==
    /\ At(t, "runs") /\ Input(t) \notin Local \cup Gated /\ Free
    /\ IF Valid THEN Goto(t, "back") /\ UNCHANGED told ELSE Refuse(t)
    /\ UNCHANGED <<task, art, runs, lock, bound, stage, threads, fencing, max>>

Receipt(t, state) == art' = [art EXCEPT ![Call(t)].state = state]

Finish(t, state) ==
    /\ At(t, "back") \/ (At(t, "runs") /\ Input(t) \in Local \cup Gated)
    /\ Receipt(t, state) /\ Tell(t, state) /\ Release(t)
    /\ UNCHANGED <<task, runs, bound, stage, threads, fencing, max>>

ToolStep(t) == Bind(t) \/ Accept(t) \/ RunTool(t) \/ Raise(t) \/ Recheck(t)
               \/ \E state \in {"DONE", "FAILED"} : Finish(t, state)

-----------------------------------------------------------------------------
(* The executor: a stage is registered, waited for, and left.                *)

Step(pc) == exec' = [exec EXCEPT !.pc = pc]
LeaveAs(how) == exec' = [exec EXCEPT !.pc = "ended", !.how = how]

Register ==
    /\ exec.pc = "begin" /\ exec.stage < max.stages /\ Free
    /\ IF Valid THEN /\ exec' = [pc |-> "wait", stage |-> exec.stage + 1, how |-> "none"]
                     /\ future' = "none" /\ clock' = NewClock
                ELSE Step("fail") /\ UNCHANGED <<future, clock>>
    /\ UNCHANGED <<task, calls, lock, bound, threads, fencing, max>>

(* The plugin reports the stage; a cancellation refuses it (task_fenced).    *)
NativeResult ==
    /\ exec.pc \in {"wait", "decide", "ended"} /\ future = "none"
    /\ future' = "result"
    /\ UNCHANGED <<task, calls, lock, bound, exec, clock, threads, fencing, max>>

WrongRefused == future
Refused == IF exec.pc \in {"wait", "decide", "ended"} /\ future = "none" THEN "refused" ELSE future

TaskFenced ==
    /\ fencing /\ fencing' = FALSE
    /\ future' = Refused
    /\ UNCHANGED <<task, calls, lock, bound, exec, clock, threads, max>>

FutureDone ==
    /\ exec.pc = "wait" /\ future # "none"
    /\ LeaveAs(future)
    /\ UNCHANGED <<task, calls, lock, bound, future, clock, threads, fencing, max>>

(* StageClock.due, once a second: a tick, which is minutes, only passes when *)
(* it has nothing to do, no local tool works and no cancellation is halfway. *)
Reads   == exec.pc = "wait" /\ future = "none"
Given   == clock.asked /\ task.more > clock.granted
Expired == IF clock.seen = Unseen THEN clock.left <= 0 ELSE clock.seen <= 0
SeesTurn == clock.seen = Unseen /\ task.mark = "turn"

(* _ask: the window is set before the row is read.                           *)
Ask ==
    /\ Reads /\ ~clock.asked /\ clock.left <= 0 /\ Free
    /\ IF Valid
         THEN /\ clock' = [clock EXCEPT !.asked = TRUE, !.left = @ + Block, !.granted = task.more]
              /\ task' = [task EXCEPT !.mark = "asked"]
              /\ threads' = threads + 1
         ELSE /\ clock' = [clock EXCEPT !.asked = TRUE, !.left = @ + Block]
              /\ UNCHANGED <<task, threads>>
    /\ UNCHANGED <<calls, lock, bound, exec, future, fencing, max>>

(* _more: the deadline moves one block, to where the window's bound was.     *)
MoreTime == clock' = [clock EXCEPT !.asked = FALSE, !.seen = Unseen]

SeeMore ==
    /\ Reads /\ Given
    /\ MoreTime
    /\ UNCHANGED <<task, calls, lock, bound, exec, future, threads, fencing, max>>

SeeTurn ==
    /\ Reads /\ clock.asked /\ ~Given /\ SeesTurn
    /\ clock' = [clock EXCEPT !.seen = Window]
    /\ UNCHANGED <<task, calls, lock, bound, exec, future, threads, fencing, max>>

Expire ==
    /\ Reads /\ clock.asked /\ ~Given /\ ~SeesTurn /\ Expired
    /\ Step("decide")
    /\ UNCHANGED <<task, calls, lock, bound, future, clock, threads, fencing, max>>

(* Her more and the cut are decided under one lock.                          *)
WrongCut == LeaveAs("cut") /\ task' = [task EXCEPT !.mark = "none"] /\ UNCHANGED clock
Cut ==
    IF Given THEN MoreTime /\ Step("wait") /\ UNCHANGED task
             ELSE LeaveAs("cut") /\ task' = [task EXCEPT !.mark = "none"] /\ UNCHANGED clock

Decide ==
    /\ exec.pc = "decide" /\ Free
    /\ Cut
    /\ UNCHANGED <<calls, lock, bound, future, threads, fencing, max>>

(* A clock that fails cuts as the plain limit did.                           *)
ClockFails ==
    /\ Reads \/ exec.pc = "decide"
    /\ LeaveAs("failed")
    /\ UNCHANGED <<task, calls, lock, bound, future, clock, threads, fencing, max>>

Quiet == /\ Reads /\ Free /\ ~fencing
         /\ IF clock.asked THEN ~Given /\ ~SeesTurn /\ ~Expired ELSE clock.left > 0

Tick ==
    /\ Quiet
    /\ clock' = [clock EXCEPT !.ran = @ + 1, !.left = @ - 1,
                               !.seen = IF @ = Unseen THEN @ ELSE @ - 1]
    /\ UNCHANGED <<task, calls, lock, bound, exec, future, threads, fencing, max>>

(* StageClock.ended, whichever way the wait ended.                           *)
WrongUnmark == UNCHANGED task
Unmark == task' = (IF clock.asked THEN [task EXCEPT !.mark = "none"] ELSE task)

Ended ==
    /\ exec.pc = "ended" /\ (clock.asked => Free)
    /\ Unmark
    /\ clock' = [clock EXCEPT !.asked = FALSE]
    /\ Step("pop")
    /\ UNCHANGED <<calls, lock, bound, future, threads, fencing, max>>

(* The stage is no longer pending, its broker session no longer bound. A     *)
(* result may be followed by another stage, anything else ends the run.      *)
Leave ==
    /\ exec.pc = "pop"
    /\ bound' = bound \ {exec.stage}
    /\ \/ exec.how = "result" /\ Step("report")
       \/ exec.how = "result" /\ exec.stage < max.stages /\ Step("begin")
       \/ exec.how # "result" /\ Step("fail")
    /\ UNCHANGED <<task, calls, lock, future, clock, threads, fencing, max>>

Report ==
    /\ exec.pc = "report" /\ Free
    /\ IF Valid THEN /\ \E s \in {"RETURNED", "BLOCKED"} : task' = [task EXCEPT !.state = s]
                     /\ Step("done")
                ELSE Step("fail") /\ UNCHANGED task
    /\ UNCHANGED <<calls, lock, bound, future, clock, threads, fencing, max>>

Fail ==
    /\ exec.pc = "fail" /\ Free
    /\ task' = [task EXCEPT !.state = IF Valid THEN "BLOCKED" ELSE @]
    /\ Step("done")
    /\ UNCHANGED <<calls, lock, bound, future, clock, threads, fencing, max>>

Executor == Register \/ FutureDone \/ Ask \/ SeeMore \/ SeeTurn \/ Expire
            \/ Decide \/ Ended \/ Leave \/ Report \/ Fail

-----------------------------------------------------------------------------
(* Her turns, a cancellation, a crash and the start after it.                *)

(* A task_time thread gets her lock: its turn starts if it is still asked.   *)
TurnStarts ==
    /\ threads > 0 /\ Free
    /\ threads' = threads - 1
    /\ task' = (IF Valid /\ task.mark # "none" THEN [task EXCEPT !.mark = "turn"] ELSE task)
    /\ UNCHANGED <<calls, lock, bound, stage, fencing, max>>

(* time_up.grant, from whichever turn of hers uses the tool. A refused one,  *)
(* as while a restart pends, changes nothing.                                *)
Grant ==
    /\ exec.pc # "down" /\ Free /\ Valid /\ task.mark # "none"
    /\ task.more < max.more
    /\ task' = [task EXCEPT !.mark = "none", !.more = @ + 1]
    /\ UNCHANGED <<calls, lock, bound, stage, threads, fencing, max>>

Cancel ==
    /\ exec.pc # "down" /\ Free /\ task.state # "CANCELLED"
    /\ task' = [task EXCEPT !.state = "CANCELLED"]
    /\ fencing' = TRUE
    /\ UNCHANGED <<calls, lock, bound, stage, threads, max>>

Crash ==
    /\ exec.pc \notin {"down", "over"}
    /\ exec' = [pc |-> "down", stage |-> 0, how |-> "none"]
    /\ thread' = [t \in Threads |-> Idle]
    /\ future' = "none" /\ clock' = NewClock
    /\ lock' = NoLock /\ bound' = {} /\ threads' = 0 /\ fencing' = FALSE
    /\ UNCHANGED <<task, art, told, runs, max>>

(* A task a restart cut goes back to her and does not run again.             *)
Start ==
    /\ exec.pc = "down" /\ Free
    /\ exec' = [exec EXCEPT !.pc = "over"]
    /\ task' = (IF Valid THEN [task EXCEPT !.state = "BLOCKED", !.mark = "none"] ELSE task)
    /\ UNCHANGED <<calls, lock, bound, future, clock, threads, fencing, max>>

Next ==
    \/ \E t \in Threads, c \in Calls, i \in Inputs : Deliver(t, c, i)
    \/ \E t \in Threads : ToolStep(t)
    \/ NativeResult \/ TaskFenced \/ Executor \/ ClockFails \/ Tick
    \/ TurnStarts \/ Grant \/ Cancel \/ Crash \/ Start

Spec == Init /\ [][Next]_vars

-----------------------------------------------------------------------------
(* Properties                                                               *)

Outcomes == {"DONE", "FAILED"}

TaskTyped == task \in [state : {"RUNNING", "RETURNED", "BLOCKED", "CANCELLED"},
                       mark : {"none", "asked", "turn"}, more : Nat]
CallsTyped ==
    /\ art \in [Calls -> [state : {"NONE"}] \cup [state : {"INTENT"} \cup Outcomes, input : Inputs]]
    /\ thread \in [Threads -> {Idle} \cup [pc : {"admitted", "bound", "intent", "runs", "back"},
                                           stage : Nat, call : Calls, input : Inputs]]
    /\ told \subseteq [call : Calls, input : Inputs, state : Outcomes]
    /\ runs \in [Calls -> Nat] /\ lock \in Threads \cup {NoLock}
StageTyped ==
    /\ exec \in [pc : {"begin", "wait", "decide", "ended", "pop", "report", "fail", "done", "down", "over"},
                 stage : Nat, how : {"none", "result", "refused", "cut", "failed"}]
    /\ future \in {"none", "result", "refused"} /\ bound \subseteq Nat
ClockTyped == clock \in [ran : Nat, asked : BOOLEAN, left : Int, seen : Int, granted : Nat]
SideTyped  == threads \in Nat /\ fencing \in BOOLEAN /\ max \in Bounds

(* The state is well formed: the pieces of the broker, the stage and her     *)
(* side stay within what the code can hold.                                  *)
TypeOK == TaskTyped /\ CallsTyped /\ StageTyped /\ ClockTyped /\ SideTyped

(* A call's tool runs at most once, however often the call is delivered,     *)
(* also at once on two threads and with other arguments.                     *)
RunsOnce == \A c \in Calls : runs[c] <= 1

(* Every outcome that was answered is the recorded one, for the input it was *)
(* asked with: no answer to a call, at whatever time, says otherwise.        *)
AnswersStand ==
    \A x \in told : art[x.call] = [state |-> x.state, input |-> x.input]

(* A local tool never works for a task that is over: a cancellation and the  *)
(* end of the run wait for it.                                               *)
NoLocalToolAfterTask ==
    \A t \in Threads : At(t, "runs") /\ Input(t) \in Local => Valid

(* She may only be answered "given" for the stage that waits for her: a mark *)
(* on a running task belongs to a stage whose clock has asked.               *)
AskIsLive ==
    task.mark # "none" /\ Valid /\ exec.pc # "down"
        => exec.pc \in {"wait", "decide", "ended"} /\ clock.asked

(* A stage she gave more time is not cut in that window: her words "given"   *)
(* and the cut never cross.                                                  *)
GivenIsNotCut == [][exec.how # "cut" /\ exec'.how = "cut" => task.more = clock.granted]_vars

(* A stage ends in bounded time though the native run may hang for ever: a   *)
(* block, another while she is not reached, her window, and one block more   *)
(* for each she gave (her window, where the configured block is the shorter: *)
(* she may answer at its very end). A cancelled stage is no exception,       *)
(* though its clock has stopped asking her.                                  *)
Longer == IF Window <= Block THEN Block ELSE Window
StageIsBounded == clock.ran <= 2 * Block + Window + Longer * task.more

(* The clock of a stage asks for the stage alone, and ends it.               *)
ClockIsKept == AskIsLive /\ StageIsBounded
=============================================================================

-------------------------- MODULE ToolCalls_proofs --------------------------
(***************************************************************************)
(* For any call ids, inputs, threads and bounds: a call's tool runs at most *)
(* once, every outcome answered stands, no local tool works for a task that *)
(* is over, her "given" and the cut never cross, and a stage ends in the    *)
(* time it was given.                                                       *)
(*                                                                         *)
(* The argument is who has a call in hand: the one thread that saved the    *)
(* call's intent. Its row stays that intent until this thread writes the    *)
(* receipt, and only a call without a row can be taken in hand. The clock's *)
(* argument, in the second part, is an account: what a stage ran and has    *)
(* left is a block for itself, one while she is asked, and one for each     *)
(* time she gave.                                                           *)
(***************************************************************************)
EXTENDS ToolCalls, TLAPS

InHand(t) == thread[t].pc \in {"intent", "runs", "back"}

(* A call in hand has its intent saved, with the input of the thread. *)
HandsOwnIntent ==
    \A t \in Threads : InHand(t) => art[Call(t)] = [state |-> "INTENT", input |-> Input(t)]

(* Two threads never have the same call in hand. *)
OneHand ==
    \A t, u \in Threads : InHand(t) /\ InHand(u) /\ Call(t) = Call(u) => t = u

(* A call that is not known, or whose intent was just saved, has not run. *)
NotYetRun ==
    /\ \A c \in Calls : art[c].state = "NONE" => runs[c] = 0
    /\ \A t \in Threads : At(t, "intent") => runs[Call(t)] = 0

(* The lock is held by the thread whose local tool works. *)
LockIsHeld == \A t \in Threads : lock = t <=> At(t, "runs") /\ Input(t) \in Local

(* The inductive invariant. *)
Hands == HandsOwnIntent /\ OneHand /\ NotYetRun /\ LockIsHeld
IInv == TypeOK /\ Hands /\ RunsOnce /\ AnswersStand /\ NoLocalToolAfterTask

(* What a thread that serves a request holds. *)
LEMMA ThreadTyped ==
    ASSUME TypeOK, NEW t \in Threads, ~At(t, "idle")
    PROVE  /\ thread[t] \in [pc : {"admitted", "bound", "intent", "runs", "back"},
                             stage : Nat, call : Calls, input : Inputs]
           /\ Call(t) \in Calls /\ Input(t) \in Inputs
BY DEF TypeOK, CallsTyped, At, Idle, Call, Input

(* The initial states are well typed. *)
LEMMA TypeInit == Init => TypeOK
<1> SUFFICES ASSUME Init PROVE TypeOK
  OBVIOUS
<1> USE DEF Init
<1>1. clock \in [ran : Nat, asked : BOOLEAN, left : Int, seen : Int, granted : Nat]
  BY ToolAssumption DEF NewClock, Unseen
<1>2. art \in [Calls -> [state : {"NONE"}]]
  OBVIOUS
<1>3. exec \in [pc : {"begin"}, stage : Nat, how : {"none"}]
  OBVIOUS
<1>4. task \in [state : {"RUNNING"}, mark : {"none"}, more : Nat]
  OBVIOUS
<1> QED BY <1>1, <1>2, <1>3, <1>4 DEF TypeOK, TaskTyped, CallsTyped, StageTyped, ClockTyped, SideTyped

(* A thread's step keeps the types. *)
LEMMA ToolTyped ==
    ASSUME TypeOK, HandsOwnIntent, NEW t \in Threads, ToolStep(t)
    PROVE  TypeOK'
<1> USE DEF TypeOK, TaskTyped, CallsTyped, StageTyped, ClockTyped, SideTyped, Outcomes, stage
<1>1. CASE Bind(t)
  BY <1>1, ThreadTyped DEF Bind, Goto, Refuse, At, Idle
<1>2. CASE Accept(t)
  <2>1. ~At(t, "idle") BY <1>2 DEF Accept, At
  <2>2. UNCHANGED <<task, runs, lock, bound, exec, future, clock, threads, fencing, max>>
    BY <1>2 DEF Accept
  <2>3. CASE Refuse(t) /\ UNCHANGED art
    BY <2>2, <2>3, ThreadTyped DEF Refuse, Idle
  <2>4. CASE Replay(t) /\ UNCHANGED art
    BY <2>1, <2>2, <2>4, ThreadTyped DEF Replay, Tell, Refuse, Idle
  <2>5. CASE /\ art' = [art EXCEPT ![Call(t)] = [state |-> "INTENT", input |-> Input(t)]]
             /\ Goto(t, "intent") /\ UNCHANGED told
    BY <2>1, <2>2, <2>5, ThreadTyped DEF Goto
  <2> QED BY <1>2, <2>3, <2>4, <2>5 DEF Accept
<1>3. CASE RunTool(t)
  <2>1. ~At(t, "idle") BY <1>3 DEF RunTool, At
  <2> QED BY <1>3, <2>1, ThreadTyped DEF RunTool, Goto, Hold, Refuse, Idle
<1>4. CASE Raise(t)
  BY <1>4 DEF Raise, Refuse, Release, Idle
<1>5. CASE Recheck(t)
  <2>1. ~At(t, "idle") BY <1>5 DEF Recheck, At
  <2> QED BY <1>5, <2>1, ThreadTyped DEF Recheck, Goto, Refuse, Idle
<1>6. ASSUME NEW state \in {"DONE", "FAILED"}, Finish(t, state) PROVE TypeOK'
  <2>1. ~At(t, "idle") BY <1>6 DEF Finish, At
  <2>2. Call(t) \in Calls /\ Input(t) \in Inputs BY <2>1, ThreadTyped
  <2>3. art[Call(t)] = [state |-> "INTENT", input |-> Input(t)]
    BY <1>6 DEF Finish, At, HandsOwnIntent, InHand
  <2>4. art' = [art EXCEPT ![Call(t)] = [state |-> state, input |-> Input(t)]]
    <3>1. [art[Call(t)] EXCEPT !.state = state] = [state |-> state, input |-> Input(t)]
      BY <2>3
    <3>2. art' = [art EXCEPT ![Call(t)] = [art[Call(t)] EXCEPT !.state = state]]
      BY <1>6 DEF Finish, Receipt
    <3> QED BY <3>1, <3>2
  <2> QED BY <1>6, <2>2, <2>4 DEF Finish, Tell, Release, Idle
<1> HIDE DEF TypeOK
<1> QED BY <1>1, <1>2, <1>3, <1>4, <1>5, <1>6 DEF ToolStep

(* So does the arrival of a request. *)
LEMMA DeliverTyped ==
    ASSUME TypeOK, NEW t \in Threads, NEW c \in Calls, NEW i \in Inputs, Deliver(t, c, i)
    PROVE  TypeOK'
BY DEF TypeOK, TaskTyped, CallsTyped, StageTyped, ClockTyped, SideTyped, Deliver, stage, Idle

(* Whatever else happens touches no request: only a step that finds the lock *)
(* free changes the task, and only a crash frees the lock and the threads.   *)
Other == \/ NativeResult \/ TaskFenced \/ Executor \/ ClockFails \/ Tick
         \/ TurnStarts \/ Grant \/ Cancel \/ Start

LEMMA OtherKeepsCalls ==
    ASSUME Other
    PROVE  UNCHANGED <<calls, lock, max>> /\ (task.state' = task.state \/ lock = NoLock)
<1>1. CASE Executor
  <2>1. CASE Register BY <2>1 DEF Register
  <2>2. CASE FutureDone BY <2>2 DEF FutureDone
  <2>3. CASE Ask BY <2>3 DEF Ask, Free
  <2>4. CASE SeeMore BY <2>4 DEF SeeMore
  <2>5. CASE SeeTurn BY <2>5 DEF SeeTurn
  <2>6. CASE Expire BY <2>6 DEF Expire
  <2>7. CASE Decide BY <2>7 DEF Decide, Free
  <2>8. CASE Ended BY <2>8 DEF Ended, Free, Unmark
  <2>9. CASE Leave BY <2>9 DEF Leave
  <2>10. CASE Report BY <2>10 DEF Report, Free
  <2>11. CASE Fail BY <2>11 DEF Fail, Free
  <2> QED BY <1>1, <2>1, <2>2, <2>3, <2>4, <2>5, <2>6, <2>7, <2>8, <2>9, <2>10, <2>11 DEF Executor
<1>2. CASE NativeResult BY <1>2 DEF NativeResult
<1>3. CASE TaskFenced BY <1>3 DEF TaskFenced
<1>4. CASE ClockFails BY <1>4 DEF ClockFails
<1>5. CASE Tick BY <1>5 DEF Tick
<1>6. CASE TurnStarts BY <1>6 DEF TurnStarts, Free
<1>7. CASE Grant BY <1>7 DEF Grant, Free
<1>8. CASE Cancel BY <1>8 DEF Cancel, Free
<1>9. CASE Start BY <1>9 DEF Start, Free
<1> QED BY <1>1, <1>2, <1>3, <1>4, <1>5, <1>6, <1>7, <1>8, <1>9 DEF Other

(* A crash leaves every thread idle and the lock free. *)
LEMMA CrashClears == ASSUME Crash PROVE
    /\ \A t \in Threads : thread'[t] = Idle
    /\ lock' = NoLock /\ UNCHANGED <<task, art, told, runs, max>>
BY DEF Crash

LEMMA TimesTyped == Unseen \in Nat /\ Window \in Nat /\ Block \in Nat
BY ToolAssumption DEF Unseen

(* The rows of the task, the stage and the clock stay well typed. *)
LEMMA TaskStays == ASSUME TypeOK, Other PROVE TaskTyped'
<1>1. CASE UNCHANGED task BY <1>1 DEF TypeOK, TaskTyped
<1>2. CASE Ask \/ Decide \/ Ended
  BY <1>2 DEF TypeOK, TaskTyped, Ask, Decide, Cut, Ended, Unmark
<1>3. CASE Report \/ Fail BY <1>3 DEF TypeOK, TaskTyped, Report, Fail
<1>4. CASE TurnStarts BY <1>4 DEF TypeOK, TaskTyped, TurnStarts
<1>6. CASE Grant
  <2>1. task.more + 1 \in Nat BY DEF TypeOK, TaskTyped
  <2> QED BY <1>6, <2>1 DEF TypeOK, TaskTyped, Grant
<1>5. CASE Cancel \/ Start BY <1>5 DEF TypeOK, TaskTyped, Cancel, Start
<1> QED BY <1>1, <1>2, <1>3, <1>4, <1>5, <1>6
        DEF Other, Executor, NativeResult, TaskFenced, ClockFails, Tick, Register, FutureDone,
            SeeMore, SeeTurn, Expire, Leave

LEMMA StageStays == ASSUME TypeOK, Other PROVE StageTyped'
<1> USE DEF TypeOK, StageTyped, Step, LeaveAs
<1>1. CASE Register BY <1>1 DEF Register
<1>2. CASE FutureDone BY <1>2 DEF FutureDone
<1>3. CASE Ask \/ SeeMore \/ SeeTurn BY <1>3 DEF Ask, SeeMore, SeeTurn
<1>4. CASE Expire BY <1>4 DEF Expire
<1>5. CASE Decide BY <1>5 DEF Decide, Cut
<1>6. CASE Ended BY <1>6 DEF Ended
<1>7. CASE Leave BY <1>7 DEF Leave
<1>8. CASE Report BY <1>8 DEF Report
<1>9. CASE Fail BY <1>9 DEF Fail
<1>10. CASE NativeResult BY <1>10 DEF NativeResult
<1>11. CASE TaskFenced BY <1>11 DEF TaskFenced, Refused
<1>12. CASE ClockFails BY <1>12 DEF ClockFails
<1>13. CASE Tick BY <1>13 DEF Tick
<1>14. CASE TurnStarts \/ Grant \/ Cancel BY <1>14 DEF TurnStarts, Grant, Cancel, stage
<1>15. CASE Start BY <1>15 DEF Start
<1> HIDE DEF TypeOK, StageTyped, Step, LeaveAs
<1> QED BY <1>1, <1>2, <1>3, <1>4, <1>5, <1>6, <1>7, <1>8, <1>9, <1>10, <1>11, <1>12,
           <1>13, <1>14, <1>15 DEF Other, Executor

LEMMA ClockStays == ASSUME TypeOK, Other PROVE ClockTyped'
<1> USE DEF TypeOK, ClockTyped
<1>1. CASE UNCHANGED clock BY <1>1
<1>9. NewClock \in [ran : Nat, asked : BOOLEAN, left : Int, seen : Int, granted : Nat]
  BY TimesTyped DEF NewClock
<1>10. MoreTime => ClockTyped'
  <2>1. SUFFICES ASSUME MoreTime PROVE ClockTyped' OBVIOUS
  <2>2. Unseen \in Int BY TimesTyped
  <2> QED BY <2>1, <2>2 DEF MoreTime
<1>2. CASE Register BY <1>2, <1>9 DEF Register
<1>3. CASE Ask
  <2>1. clock.left + Block \in Int /\ task.more \in Nat BY TimesTyped DEF TaskTyped
  <2> QED BY <1>3, <2>1 DEF Ask
<1>4. CASE SeeMore BY <1>4, <1>10 DEF SeeMore
<1>5. CASE SeeTurn BY <1>5, TimesTyped DEF SeeTurn
<1>6. CASE Decide BY <1>6, <1>10 DEF Decide, Cut
<1>7. CASE Ended BY <1>7 DEF Ended
<1>8. CASE Tick
  <2>1. clock.ran + 1 \in Nat /\ clock.left - 1 \in Int /\ clock.seen - 1 \in Int OBVIOUS
  <2> QED BY <1>8, <2>1 DEF Tick
<1> HIDE DEF TypeOK, ClockTyped
<1> QED BY <1>1, <1>2, <1>3, <1>4, <1>5, <1>6, <1>7, <1>8
        DEF Other, Executor, NativeResult, TaskFenced, ClockFails, FutureDone, Expire, Leave,
            Report, Fail, TurnStarts, Grant, Cancel, Start, stage

LEMMA SideStays == ASSUME TypeOK, Other PROVE SideTyped'
<1> USE DEF TypeOK, SideTyped
<1>1. CASE UNCHANGED <<threads, fencing>>
  BY <1>1, OtherKeepsCalls
<1>2. CASE Ask
  <2>1. threads + 1 \in Nat OBVIOUS
  <2> QED BY <1>2, <2>1 DEF Ask
<1>3. CASE TurnStarts
  <2>1. threads' \in Nat BY <1>3 DEF TurnStarts
  <2> QED BY <1>3, <2>1 DEF TurnStarts
<1>4. CASE TaskFenced \/ Cancel BY <1>4 DEF TaskFenced, Cancel
<1> HIDE DEF TypeOK, SideTyped
<1> QED BY <1>1, <1>2, <1>3, <1>4
        DEF Other, Executor, NativeResult, ClockFails, Tick, Register, FutureDone, SeeMore,
            SeeTurn, Expire, Decide, Ended, Leave, Report, Fail, Grant, Start

LEMMA OtherTyped == ASSUME TypeOK, Other PROVE TypeOK'
<1>1. CallsTyped' BY OtherKeepsCalls DEF calls, TypeOK, CallsTyped
<1> QED BY <1>1, TaskStays, StageStays, ClockStays, SideStays DEF TypeOK

LEMMA CrashTyped == ASSUME TypeOK, Crash PROVE TypeOK'
<1> USE DEF TypeOK, Crash
<1>1. CallsTyped' BY DEF CallsTyped
<1>2. ClockTyped' BY ToolAssumption DEF ClockTyped, NewClock, Unseen
<1>3. StageTyped' /\ SideTyped' /\ TaskTyped' BY DEF StageTyped, SideTyped, TaskTyped
<1> QED BY <1>1, <1>2, <1>3

-----------------------------------------------------------------------------
(* A step of a thread leaves the other threads as they are, and its own call *)
(* as the action says.                                                       *)
LEMMA OthersStay ==
    ASSUME TypeOK, NEW t \in Threads, ToolStep(t), NEW u \in Threads, u # t
    PROVE  thread'[u] = thread[u]
BY DEF TypeOK, CallsTyped, ToolStep, Bind, Accept, RunTool, Raise, Recheck, Finish,
       Goto, Refuse, Tell, Replay

(* The invariant holds at first. *)
LEMMA InitHands == Init => Hands /\ RunsOnce /\ AnswersStand /\ NoLocalToolAfterTask
BY ToolAssumption DEF Init, Hands, HandsOwnIntent, OneHand, NotYetRun, LockIsHeld, RunsOnce,
   AnswersStand, NoLocalToolAfterTask, InHand, At, Idle, Call, Input

(* Threads, rows and the lock as they were: nothing about the hands changes. *)
LEMMA Unhandled ==
    ASSUME IInv, UNCHANGED <<calls, lock>>, task.state' = task.state \/ lock = NoLock
    PROVE  Hands' /\ RunsOnce' /\ AnswersStand' /\ NoLocalToolAfterTask'
<1> USE DEF IInv, calls, Call, Input, At, InHand
<1>1. Hands' BY DEF Hands, HandsOwnIntent, OneHand, NotYetRun, LockIsHeld
<1>2. RunsOnce' /\ AnswersStand' BY DEF RunsOnce, AnswersStand
<1>3. NoLocalToolAfterTask'
  BY ToolAssumption DEF NoLocalToolAfterTask, Valid, Hands, LockIsHeld
<1> QED BY <1>1, <1>2, <1>3

(* A request arrives: it is not in hand. *)
LEMMA DeliverHands ==
    ASSUME IInv, NEW t \in Threads, NEW c \in Calls, NEW i \in Inputs, Deliver(t, c, i)
    PROVE  Hands' /\ RunsOnce' /\ AnswersStand' /\ NoLocalToolAfterTask'
<1> USE DEF IInv, Call, Input, At, InHand
<1>1. thread' = [thread EXCEPT ![t] =
                   [pc |-> "admitted", stage |-> exec.stage, call |-> c, input |-> i]]
      /\ thread[t].pc = "idle" /\ UNCHANGED <<task, art, told, runs, lock>>
  BY DEF Deliver
<1>2. thread'[t].pc = "admitted" /\ \A u \in Threads : u # t => thread'[u] = thread[u]
  BY <1>1 DEF TypeOK, CallsTyped
<1>3. Hands' BY <1>1, <1>2 DEF Hands, HandsOwnIntent, OneHand, NotYetRun, LockIsHeld
<1>4. RunsOnce' /\ AnswersStand' BY <1>1 DEF RunsOnce, AnswersStand
<1>5. NoLocalToolAfterTask' BY <1>1, <1>2 DEF NoLocalToolAfterTask, Valid
<1> QED BY <1>3, <1>4, <1>5

(* A thread lets go of its request: nothing else about the hands changes.    *)
LEMMA LetGo ==
    ASSUME IInv, NEW t \in Threads, thread' = [thread EXCEPT ![t] = Idle],
           UNCHANGED <<task, art, told, runs>>, Release(t)
    PROVE  Hands' /\ RunsOnce' /\ AnswersStand' /\ NoLocalToolAfterTask'
<1> USE DEF IInv, Call, Input, At, InHand
<1>1. thread'[t].pc = "idle" /\ \A u \in Threads : u # t => thread'[u] = thread[u]
  BY DEF TypeOK, CallsTyped, Idle
<1>2. LockIsHeld' BY <1>1, ToolAssumption DEF Hands, LockIsHeld, Release
<1>3. Hands' BY <1>1, <1>2 DEF Hands, HandsOwnIntent, OneHand, NotYetRun
<1>4. RunsOnce' /\ AnswersStand' BY DEF RunsOnce, AnswersStand
<1>5. NoLocalToolAfterTask' BY <1>1 DEF NoLocalToolAfterTask, Valid
<1> QED BY <1>3, <1>4, <1>5

(* A thread that does not hold the lock keeps it free of itself. *)
LEMMA NotHolding ==
    ASSUME IInv, NEW t \in Threads, ~(At(t, "runs") /\ Input(t) \in Local), UNCHANGED lock
    PROVE  Release(t)
BY DEF IInv, Hands, LockIsHeld, Release

(* A request is refused without a tool of its own at work. *)
LEMMA LetRefuse ==
    ASSUME IInv, NEW t \in Threads, ~At(t, "runs"), Refuse(t), UNCHANGED <<task, art, runs, lock>>
    PROVE  Hands' /\ RunsOnce' /\ AnswersStand' /\ NoLocalToolAfterTask'
BY NotHolding, LetGo DEF Refuse

(* A request moves on and stays out of hand or in the same hand.             *)
LEMMA BindHands ==
    ASSUME IInv, NEW t \in Threads, Bind(t)
    PROVE  Hands' /\ RunsOnce' /\ AnswersStand' /\ NoLocalToolAfterTask'
<1>1. thread[t].pc = "admitted" /\ UNCHANGED <<task, art, runs, lock>>
  BY DEF Bind, At
<1>2. CASE Refuse(t) BY <1>1, <1>2, LetRefuse DEF At
<1>3. CASE Goto(t, "bound") /\ UNCHANGED told
  <2> USE DEF IInv, Call, Input, At, InHand
  <2>1. thread'[t].pc = "bound" /\ \A u \in Threads : u # t => thread'[u] = thread[u]
    BY <1>1, <1>3, ThreadTyped DEF Goto, TypeOK, CallsTyped
  <2>2. Hands' BY <1>1, <1>3, <2>1 DEF Hands, HandsOwnIntent, OneHand, NotYetRun, LockIsHeld
  <2>3. RunsOnce' /\ AnswersStand' BY <1>1, <1>3 DEF RunsOnce, AnswersStand
  <2>4. NoLocalToolAfterTask' BY <1>1, <2>1 DEF NoLocalToolAfterTask, Valid
  <2> QED BY <2>2, <2>3, <2>4
<1> QED BY <1>2, <1>3 DEF Bind

(* What a thread that goes on keeps: its call and its input. *)
LEMMA GoesOn ==
    ASSUME TypeOK, NEW t \in Threads, ~At(t, "idle"), NEW pc, Goto(t, pc)
    PROVE  /\ thread'[t].pc = pc /\ Call(t)' = Call(t) /\ Input(t)' = Input(t)
           /\ \A u \in Threads : u # t => thread'[u] = thread[u]
BY ThreadTyped DEF TypeOK, CallsTyped, Goto, Call, Input

(* A call is accepted: unknown so far, it is in nobody's hand and has not    *)
(* run; known, it is answered with what its row says.                        *)
LEMMA AcceptHands ==
    ASSUME IInv, NEW t \in Threads, Accept(t)
    PROVE  Hands' /\ RunsOnce' /\ AnswersStand' /\ NoLocalToolAfterTask'
<1>1. thread[t].pc = "bound" /\ UNCHANGED <<task, runs, lock>>
  BY DEF Accept, At
<1>2. CASE Refuse(t) /\ UNCHANGED art BY <1>1, <1>2, LetRefuse DEF At
<1>3. CASE Known(Call(t)) /\ Replay(t) /\ UNCHANGED art /\ ~Refuse(t)
  <2>1. /\ Same(t) /\ art[Call(t)].state \in {"DONE", "FAILED"}
        /\ Tell(t, art[Call(t)].state)
    BY <1>3 DEF Replay
  <2>2. art[Call(t)] = [state |-> art[Call(t)].state, input |-> Input(t)]
    <3>1. art[Call(t)] \in [state : {"INTENT"} \cup Outcomes, input : Inputs]
      BY <1>1, <2>1, ThreadTyped DEF IInv, TypeOK, CallsTyped, At
    <3> QED BY <3>1, <2>1 DEF Same
  <2>3. AnswersStand'
    <3> DEFINE new == [call |-> Call(t), input |-> Input(t), state |-> art[Call(t)].state]
    <3>2. told' = told \cup {new} BY <2>1 DEF Tell
    <3>3. art[new.call] = [state |-> new.state, input |-> new.input] BY <2>2
    <3> QED BY <1>3, <3>2, <3>3 DEF IInv, AnswersStand
  <2>4. thread'[t].pc = "idle" /\ \A u \in Threads : u # t => thread'[u] = thread[u]
    BY <2>1 DEF IInv, TypeOK, CallsTyped, Tell, Idle
  <2>5. Hands'
    BY <1>1, <1>3, <2>4 DEF IInv, Hands, HandsOwnIntent, OneHand, NotYetRun, LockIsHeld,
       Call, Input, At, InHand
  <2>6. RunsOnce' BY <1>1 DEF IInv, RunsOnce
  <2>7. NoLocalToolAfterTask' BY <1>1, <2>4 DEF IInv, NoLocalToolAfterTask, Valid, At, Input
  <2> QED BY <2>3, <2>5, <2>6, <2>7
<1>4. CASE /\ ~Known(Call(t)) /\ Goto(t, "intent") /\ UNCHANGED told
           /\ art' = [art EXCEPT ![Call(t)] = [state |-> "INTENT", input |-> Input(t)]]
  <2>1. /\ thread'[t].pc = "intent" /\ Call(t)' = Call(t) /\ Input(t)' = Input(t)
        /\ \A u \in Threads : u # t => thread'[u] = thread[u]
    BY <1>1, <1>4, GoesOn DEF IInv, At
  <2>2. Call(t) \in Calls /\ art[Call(t)].state = "NONE" /\ runs[Call(t)] = 0
    BY <1>1, <1>4, ThreadTyped DEF IInv, Hands, NotYetRun, Known, At
  <2>3. /\ art'[Call(t)] = [state |-> "INTENT", input |-> Input(t)]
        /\ \A c \in Calls : c # Call(t) => art'[c] = art[c]
    BY <1>4, <2>2 DEF IInv, TypeOK, CallsTyped
  <2>4. \A u \in Threads : u # t /\ InHand(u) => Call(u) # Call(t) /\ Call(u) \in Calls
    <3> SUFFICES ASSUME NEW u \in Threads, InHand(u) PROVE Call(u) # Call(t) /\ Call(u) \in Calls
      OBVIOUS
    <3>1. art[Call(u)] = [state |-> "INTENT", input |-> Input(u)]
      BY DEF IInv, Hands, HandsOwnIntent
    <3> QED BY <2>2, <3>1, ThreadTyped DEF IInv, InHand, At
  <2>5. HandsOwnIntent'
    BY <2>1, <2>3, <2>4 DEF IInv, Hands, HandsOwnIntent, InHand, Call, Input
  <2>6. OneHand' BY <2>1, <2>4 DEF IInv, Hands, OneHand, InHand, Call
  <2>7. NotYetRun'
    BY <1>1, <2>1, <2>2, <2>3 DEF IInv, Hands, NotYetRun, At, Call
  <2>8. LockIsHeld' BY <1>1, <2>1 DEF IInv, Hands, LockIsHeld, At, Input
  <2>9. RunsOnce' BY <1>1 DEF IInv, RunsOnce
  <2>10. AnswersStand'
    <3> SUFFICES ASSUME NEW x \in told PROVE art'[x.call] = [state |-> x.state, input |-> x.input]
      BY <1>4 DEF AnswersStand
    <3>1. x.call \in Calls /\ x.state # "NONE" /\ art[x.call] = [state |-> x.state, input |-> x.input]
      BY DEF IInv, TypeOK, CallsTyped, AnswersStand, Outcomes
    <3>2. x.call # Call(t) BY <3>1, <2>2
    <3> QED BY <3>1, <3>2, <2>3
  <2>11. NoLocalToolAfterTask'
    <3> SUFFICES ASSUME NEW u \in Threads, At(u, "runs")', Input(u)' \in Local PROVE Valid'
      BY DEF NoLocalToolAfterTask
    <3>1. u # t /\ At(u, "runs") /\ Input(u) \in Local BY <2>1 DEF At, Input
    <3> QED BY <1>1, <3>1 DEF IInv, NoLocalToolAfterTask, Valid
  <2> QED BY <2>5, <2>6, <2>7, <2>8, <2>9, <2>10, <2>11 DEF Hands
<1> QED BY <1>2, <1>3, <1>4 DEF Accept, Replay

(* The tool runs: the one thread that saved the intent, for the first time.  *)
LEMMA RunHands ==
    ASSUME IInv, NEW t \in Threads, RunTool(t)
    PROVE  Hands' /\ RunsOnce' /\ AnswersStand' /\ NoLocalToolAfterTask'
<1>1. thread[t].pc = "intent" /\ UNCHANGED <<task, art>> /\ (Input(t) \in Local => Free)
  BY DEF RunTool, At
<1>2. CASE Refuse(t) /\ UNCHANGED <<runs, lock>> BY <1>1, <1>2, LetRefuse DEF At
<1>3. CASE /\ Valid \/ Input(t) \in Gated
           /\ runs' = [runs EXCEPT ![Call(t)] = @ + 1]
           /\ Goto(t, "runs") /\ Hold(t) /\ UNCHANGED told
  <2>1. /\ thread'[t].pc = "runs" /\ Call(t)' = Call(t) /\ Input(t)' = Input(t)
        /\ \A u \in Threads : u # t => thread'[u] = thread[u]
    BY <1>1, <1>3, GoesOn DEF IInv, At
  <2>2. /\ Call(t) \in Calls /\ runs[Call(t)] = 0
        /\ art[Call(t)] = [state |-> "INTENT", input |-> Input(t)]
    BY <1>1, ThreadTyped DEF IInv, Hands, NotYetRun, HandsOwnIntent, InHand, At
  <2>3. runs'[Call(t)] = 1 /\ \A c \in Calls : c # Call(t) => runs'[c] = runs[c]
    BY <1>3, <2>2 DEF IInv, TypeOK, CallsTyped
  <2>4. \A u \in Threads : u # t /\ InHand(u) => Call(u) # Call(t)
    BY <1>1 DEF IInv, Hands, OneHand, InHand
  <2>5. HandsOwnIntent'
    BY <1>1, <2>1, <2>2 DEF IInv, Hands, HandsOwnIntent, InHand, Call, Input
  <2>11. OneHand' BY <2>1, <2>4 DEF IInv, Hands, OneHand, InHand, Call
  <2>6. NotYetRun'
    <3>1. \A u \in Threads : At(u, "intent")' => u # t /\ thread'[u] = thread[u] /\ InHand(u)
      BY <2>1 DEF At, InHand
    <3>2. \A u \in Threads : At(u, "intent")' => Call(u) # Call(t) /\ Call(u) \in Calls
      BY <3>1, <2>4, ThreadTyped DEF IInv, InHand, At
    <3> QED BY <1>1, <2>2, <2>3, <3>1, <3>2 DEF IInv, Hands, NotYetRun, At, Call
  <2>7. LockIsHeld'
    BY <1>1, <1>3, <2>1, ToolAssumption
       DEF IInv, Hands, LockIsHeld, Hold, Free, At, Input
  <2>8. RunsOnce' BY <2>3 DEF IInv, RunsOnce
  <2>9. AnswersStand' BY <1>1, <1>3 DEF IInv, AnswersStand
  <2>10. NoLocalToolAfterTask'
    BY <1>1, <1>3, <2>1, ToolAssumption DEF IInv, NoLocalToolAfterTask, Valid, At, Input
  <2> QED BY <2>5, <2>6, <2>7, <2>8, <2>9, <2>10, <2>11 DEF Hands
<1> QED BY <1>2, <1>3 DEF RunTool

(* The tool raises: the thread lets go and the intent stays. *)
LEMMA RaiseHands ==
    ASSUME IInv, NEW t \in Threads, Raise(t)
    PROVE  Hands' /\ RunsOnce' /\ AnswersStand' /\ NoLocalToolAfterTask'
BY LetGo DEF Raise, Refuse

(* A tool without the lock came back and is checked again.                   *)
LEMMA RecheckHands ==
    ASSUME IInv, NEW t \in Threads, Recheck(t)
    PROVE  Hands' /\ RunsOnce' /\ AnswersStand' /\ NoLocalToolAfterTask'
<1>1. /\ thread[t].pc = "runs" /\ Input(t) \notin Local
      /\ UNCHANGED <<task, art, runs, lock>>
  BY DEF Recheck, At
<1>2. CASE Refuse(t)
  BY <1>1, <1>2, NotHolding, LetGo DEF Refuse
<1>3. CASE Goto(t, "back") /\ UNCHANGED told
  <2>1. /\ thread'[t].pc = "back" /\ Call(t)' = Call(t) /\ Input(t)' = Input(t)
        /\ \A u \in Threads : u # t => thread'[u] = thread[u]
    BY <1>1, <1>3, GoesOn DEF IInv, At
  <2>2. HandsOwnIntent'
    BY <1>1, <2>1 DEF IInv, Hands, HandsOwnIntent, InHand, Call, Input
  <2>3. OneHand' BY <1>1, <2>1 DEF IInv, Hands, OneHand, InHand, Call
  <2>4. NotYetRun' BY <1>1, <2>1 DEF IInv, Hands, NotYetRun, At, Call
  <2>5. LockIsHeld' BY <1>1, <2>1 DEF IInv, Hands, LockIsHeld, At, Input
  <2>6. RunsOnce' /\ AnswersStand' BY <1>1, <1>3 DEF IInv, RunsOnce, AnswersStand
  <2>7. NoLocalToolAfterTask'
    <3> SUFFICES ASSUME NEW u \in Threads, At(u, "runs")', Input(u)' \in Local PROVE Valid'
      BY DEF NoLocalToolAfterTask
    <3>1. u # t /\ At(u, "runs") /\ Input(u) \in Local BY <2>1 DEF At, Input
    <3> QED BY <1>1, <3>1 DEF IInv, NoLocalToolAfterTask, Valid
  <2> QED BY <2>2, <2>3, <2>4, <2>5, <2>6, <2>7 DEF Hands
<1> QED BY <1>2, <1>3 DEF Recheck

(* The receipt: written by the one thread that has the call in hand.         *)
LEMMA FinishHands ==
    ASSUME IInv, NEW t \in Threads, NEW state \in {"DONE", "FAILED"}, Finish(t, state)
    PROVE  Hands' /\ RunsOnce' /\ AnswersStand' /\ NoLocalToolAfterTask'
<1>1. /\ InHand(t) /\ ~At(t, "intent") /\ ~At(t, "idle") /\ UNCHANGED <<task, runs>>
      /\ Receipt(t, state) /\ Tell(t, state) /\ Release(t)
  BY DEF Finish, InHand, At
<1>2. Call(t) \in Calls /\ art[Call(t)] = [state |-> "INTENT", input |-> Input(t)]
  BY <1>1, ThreadTyped DEF IInv, Hands, HandsOwnIntent
<1>3. /\ art'[Call(t)] = [state |-> state, input |-> Input(t)]
      /\ \A c \in Calls : c # Call(t) => art'[c] = art[c]
  <2>1. [art[Call(t)] EXCEPT !.state = state] = [state |-> state, input |-> Input(t)]
    BY <1>2
  <2>2. art' = [art EXCEPT ![Call(t)] = [art[Call(t)] EXCEPT !.state = state]]
    BY <1>1 DEF Receipt
  <2> QED BY <1>2, <2>1, <2>2 DEF IInv, TypeOK, CallsTyped
<1>4. thread'[t].pc = "idle" /\ \A u \in Threads : u # t => thread'[u] = thread[u]
  BY <1>1 DEF IInv, TypeOK, CallsTyped, Tell, Idle
<1>5. \A u \in Threads : u # t /\ InHand(u) => Call(u) # Call(t) /\ Call(u) \in Calls
  BY <1>1, ThreadTyped DEF IInv, Hands, OneHand, InHand, At
<1>6. HandsOwnIntent'
  BY <1>3, <1>4, <1>5 DEF IInv, Hands, HandsOwnIntent, InHand, Call, Input
<1>7. OneHand' BY <1>4 DEF IInv, Hands, OneHand, InHand, Call
<1>8. NotYetRun' BY <1>1, <1>3, <1>4 DEF IInv, Hands, NotYetRun, At, Call
<1>9. LockIsHeld'
  BY <1>1, <1>4, ToolAssumption DEF IInv, Hands, LockIsHeld, Release, At, Input
<1>10. RunsOnce' BY <1>1 DEF IInv, RunsOnce
<1>11. AnswersStand'
  <2>1. told' = told \cup {[call |-> Call(t), input |-> Input(t), state |-> state]}
    BY <1>1 DEF Tell
  <2>2. ASSUME NEW x \in told PROVE art'[x.call] = [state |-> x.state, input |-> x.input]
    <3>1. x.call \in Calls /\ x.state # "INTENT" /\ art[x.call] = [state |-> x.state, input |-> x.input]
      BY DEF IInv, TypeOK, CallsTyped, AnswersStand, Outcomes
    <3>2. x.call # Call(t) BY <3>1, <1>2
    <3> QED BY <3>1, <3>2, <1>3
  <2> DEFINE new == [call |-> Call(t), input |-> Input(t), state |-> state]
  <2>3. art'[new.call] = [state |-> new.state, input |-> new.input] BY <1>3
  <2> HIDE DEF new
  <2> QED BY <2>1, <2>2, <2>3 DEF AnswersStand, new
<1>12. NoLocalToolAfterTask'
  <2> SUFFICES ASSUME NEW u \in Threads, At(u, "runs")', Input(u)' \in Local PROVE Valid'
    BY DEF NoLocalToolAfterTask
  <2>1. u # t /\ At(u, "runs") /\ Input(u) \in Local BY <1>4 DEF At, Input
  <2> QED BY <1>1, <2>1 DEF IInv, NoLocalToolAfterTask, Valid
<1> QED BY <1>6, <1>7, <1>8, <1>9, <1>10, <1>11, <1>12 DEF Hands

(* A crash leaves no thread with anything in hand.                           *)
LEMMA CrashHands ==
    ASSUME IInv, Crash
    PROVE  Hands' /\ RunsOnce' /\ AnswersStand' /\ NoLocalToolAfterTask'
<1>1. \A t \in Threads : thread'[t].pc = "idle"
  BY CrashClears DEF Idle
<1>2. lock' = NoLock /\ UNCHANGED <<task, art, told, runs>> BY CrashClears
<1>3. Hands'
  BY <1>1, <1>2, ToolAssumption
     DEF IInv, Hands, HandsOwnIntent, OneHand, NotYetRun, LockIsHeld, InHand, At
<1> QED BY <1>1, <1>2, <1>3 DEF IInv, RunsOnce, AnswersStand, NoLocalToolAfterTask, At


-----------------------------------------------------------------------------
LEMMA InitIInv == Init => IInv
BY TypeInit, InitHands DEF IInv

LEMMA NextIInv == ASSUME IInv, Next PROVE IInv'
<1>1. ASSUME NEW t \in Threads, NEW c \in Calls, NEW i \in Inputs, Deliver(t, c, i) PROVE IInv'
  BY <1>1, DeliverTyped, DeliverHands DEF IInv
<1>2. ASSUME NEW t \in Threads, ToolStep(t) PROVE IInv'
  <2>1. TypeOK' BY <1>2, ToolTyped DEF IInv, Hands
  <2>2. CASE Bind(t) BY <2>1, <2>2, BindHands DEF IInv
  <2>3. CASE Accept(t) BY <2>1, <2>3, AcceptHands DEF IInv
  <2>4. CASE RunTool(t) BY <2>1, <2>4, RunHands DEF IInv
  <2>5. CASE Raise(t) BY <2>1, <2>5, RaiseHands DEF IInv
  <2>6. CASE Recheck(t) BY <2>1, <2>6, RecheckHands DEF IInv
  <2>7. ASSUME NEW state \in {"DONE", "FAILED"}, Finish(t, state) PROVE IInv'
    BY <2>1, <2>7, FinishHands DEF IInv
  <2> QED BY <1>2, <2>2, <2>3, <2>4, <2>5, <2>6, <2>7 DEF ToolStep
<1>3. CASE Other
  BY <1>3, OtherTyped, OtherKeepsCalls, Unhandled DEF IInv
<1>4. CASE Crash
  BY <1>4, CrashTyped, CrashHands DEF IInv
<1> QED BY <1>1, <1>2, <1>3, <1>4 DEF Next, Other

LEMMA StutterIInv == ASSUME IInv, UNCHANGED vars PROVE IInv'
<1>1. TypeOK'
  BY DEF IInv, vars, calls, stage, TypeOK, TaskTyped, CallsTyped, StageTyped, ClockTyped, SideTyped
<1>2. UNCHANGED <<calls, lock>> /\ task.state' = task.state BY DEF vars
<1> QED BY <1>1, <1>2, Unhandled DEF IInv

LEMMA Invariant == Spec => []IInv
<1>1. IInv /\ [Next]_vars => IInv' BY NextIInv, StutterIInv
<1> QED BY InitIInv, <1>1, PTL DEF Spec

(* Every reachable state of the broker, the stage and her side is well typed. *)
THEOREM TypeCorrect == Spec => []TypeOK
<1>1. IInv => TypeOK BY DEF IInv
<1> QED BY Invariant, <1>1, PTL

(* However often and on however many threads a call is delivered, and        *)
(* whatever a stop, a cut or a crash interrupts, its tool runs at most once.  *)
THEOREM ToolRunsOnce == Spec => []RunsOnce
<1>1. IInv => RunsOnce BY DEF IInv
<1> QED BY Invariant, <1>1, PTL

(* Every outcome a call was answered with is the recorded one, for ever.     *)
THEOREM OutcomesStand == Spec => []AnswersStand
<1>1. IInv => AnswersStand BY DEF IInv
<1> QED BY Invariant, <1>1, PTL

(* While a local tool works its task is RUNNING: what would end the task     *)
(* waits for the effects lock.                                               *)
THEOREM LocalToolsStopWithTask == Spec => []NoLocalToolAfterTask
<1>1. IInv => NoLocalToolAfterTask BY DEF IInv
<1> QED BY Invariant, <1>1, PTL

-----------------------------------------------------------------------------
(* The clock. A stage that waits is fenced or its task is RUNNING; a mark is  *)
(* the ask of its clock, with nothing given since; and what it ran and has   *)
(* left adds up to the blocks it was given.                                  *)
Running == exec.pc \in {"wait", "decide"}

Fenced == Running /\ future = "none" /\ ~Valid => fencing
MarkIsCurrent ==
    task.mark # "none" /\ Valid /\ exec.pc # "down"
        => exec.pc \in {"wait", "decide", "ended"} /\ clock.asked /\ clock.granted = task.more
GrantedBefore == clock.granted <= task.more
DecidesAsked == exec.pc = "decide" => clock.asked
SeenInWindow == Running => IF clock.asked THEN clock.seen \in 0..Unseen ELSE clock.seen = Unseen

(* k blocks were given so far; each may have cost her window beyond a block. *)
Overrun == Longer - Block
Asked(k) ==
    /\ k <= clock.granted /\ clock.ran + clock.left = 2 * Block + Block * k
    /\ clock.seen = Unseen => clock.left + Overrun * k >= 0
    /\ clock.seen # Unseen => clock.left + Overrun * k >= clock.seen - Window
Working(k) ==
    /\ k <= task.more /\ clock.ran + clock.left = Block + Block * k
    /\ clock.left + Block + Overrun * k >= 0
Accounts == Running /\ Valid => \E k \in Nat : IF clock.asked THEN Asked(k) ELSE Working(k)

CInv == /\ Fenced /\ MarkIsCurrent /\ GrantedBefore /\ DecidesAsked
        /\ SeenInWindow /\ Accounts /\ StageIsBounded

(* The lengths, and what a number of blocks comes to. *)
LEMMA Lengths ==
    /\ Block \in Nat /\ Window \in Nat /\ Unseen = Window + 1
    /\ Longer \in Nat /\ Overrun \in Nat /\ Longer = Block + Overrun /\ Window <= Block + Overrun
BY ToolAssumption DEF Longer, Overrun, Unseen

LEMMA Multiples ==
    ASSUME NEW k \in Nat
    PROVE  /\ Block * k \in Nat /\ Overrun * k \in Nat /\ Longer * k = Block * k + Overrun * k
           /\ Block * (k + 1) = Block * k + Block /\ Overrun * (k + 1) = Overrun * k + Overrun
<1>1. Block \in Nat /\ Overrun \in Nat /\ Longer = Block + Overrun BY Lengths
<1> HIDE DEF Overrun, Longer
<1>2. \A a, b, c \in Nat : a * b \in Nat /\ a * (b + 1) = a * b + a /\ (a + c) * b = a * b + c * b
  OBVIOUS
<1> QED BY <1>1, <1>2

LEMMA MultiplesRise ==
    ASSUME NEW j \in Nat, NEW k \in Nat, j <= k
    PROVE  Longer * j \in Nat /\ Longer * k \in Nat /\ Longer * j <= Longer * k
<1>1. Longer \in Nat BY Lengths
<1>2. \A a, b, c \in Nat : a * b \in Nat /\ a * c \in Nat /\ a * (b + c) = a * b + a * c
  OBVIOUS
<1>3. PICK d \in Nat : k = j + d
  <2>1. k - j \in Nat /\ k = j + (k - j) OBVIOUS
  <2> QED BY <2>1
<1>4. Longer * k = Longer * j + Longer * d BY <1>1, <1>2, <1>3
<1>5. Longer * j \in Nat /\ Longer * d \in Nat /\ Longer * k \in Nat BY <1>1, <1>2
<1> HIDE DEF Longer
<1> QED BY <1>4, <1>5

LEMMA ClockNumbers ==
    ASSUME TypeOK
    PROVE  /\ clock.ran \in Nat /\ clock.left \in Int /\ clock.seen \in Int /\ clock.granted \in Nat
           /\ clock.asked \in BOOLEAN /\ task.more \in Nat
BY DEF TypeOK, ClockTyped, TaskTyped

(* What a request does leaves the stage and its task alone.                  *)
LEMMA CallsLeaveStage ==
    ASSUME (\E t \in Threads, c \in Calls, i \in Inputs : Deliver(t, c, i))
           \/ (\E t \in Threads : ToolStep(t))
    PROVE  UNCHANGED <<task, exec, future, clock, fencing>>
BY DEF Deliver, ToolStep, Bind, Accept, RunTool, Raise, Recheck, Finish, stage

LEMMA ClockUntouched ==
    ASSUME CInv, UNCHANGED <<task, exec, future, clock, fencing>>
    PROVE  CInv'
BY DEF CInv, Running, Valid, Fenced, MarkIsCurrent, GrantedBefore, DecidesAsked, SeenInWindow,
       Accounts, Asked, Working, StageIsBounded

(* A new clock: the beginning, a crash, and a stage that is registered.      *)
LEMMA NewClockKept ==
    ASSUME TypeOK', clock' = NewClock, task.mark' = "none" \/ exec.pc' = "down", exec.pc' # "decide",
           Running' => Valid'
    PROVE  CInv'
<1>1. /\ clock'.ran = 0 /\ clock'.asked = FALSE /\ clock'.left = Block
      /\ clock'.seen = Unseen /\ clock'.granted = 0
  BY DEF NewClock
<1>2. task'.more \in Nat BY DEF TypeOK, TaskTyped
<1>3. Fenced' /\ MarkIsCurrent' /\ DecidesAsked' BY <1>1 DEF Fenced, MarkIsCurrent, DecidesAsked
<1>4. GrantedBefore' /\ SeenInWindow' BY <1>1, <1>2 DEF GrantedBefore, SeenInWindow
<1>5. Accounts'
  <2>1. Working(0)' BY <1>1, <1>2, Lengths DEF Working
  <2> QED BY <1>1, <2>1 DEF Accounts
<1>6. StageIsBounded'
  <2>1. Longer * task'.more \in Nat BY <1>2, MultiplesRise
  <2> QED BY <1>1, <2>1, Lengths DEF StageIsBounded
<1> QED BY <1>3, <1>4, <1>5, <1>6 DEF CInv

(* Once the wait is over only the bound of what it ran matters.              *)
LEMMA WaitOver ==
    ASSUME CInv, ~Running', clock'.ran = clock.ran, clock'.granted = clock.granted,
           task'.more = task.more, MarkIsCurrent'
    PROVE  CInv'
BY DEF CInv, Running, Fenced, GrantedBefore, DecidesAsked, SeenInWindow, Accounts, StageIsBounded

LEMMA AskKept ==
    ASSUME TypeOK, CInv, Ask
    PROVE  CInv'
<1> USE ClockNumbers, Lengths
<1> HIDE DEF Longer, Overrun, Unseen
<1>1. /\ exec.pc = "wait" /\ future = "none" /\ ~clock.asked /\ clock.left <= 0
      /\ UNCHANGED <<exec, future, fencing>>
  BY DEF Ask, Reads
<1>2. /\ clock'.asked = TRUE /\ clock'.left = clock.left + Block
      /\ clock'.ran = clock.ran /\ clock'.seen = clock.seen
      /\ task'.more = task.more /\ task'.state = task.state
  BY DEF Ask, TypeOK, ClockTyped, TaskTyped
<1>3. /\ Valid => clock'.granted = task.more
      /\ ~Valid => clock'.granted = clock.granted
  BY DEF Ask, TypeOK, ClockTyped
<1>4. Fenced' BY <1>1, <1>2 DEF CInv, Fenced, Running, Valid
<1>5. MarkIsCurrent' BY <1>1, <1>2, <1>3 DEF MarkIsCurrent, Valid
<1>6. GrantedBefore' BY <1>2, <1>3 DEF CInv, GrantedBefore
<1>7. DecidesAsked' BY <1>2 DEF DecidesAsked
<1>8. SeenInWindow'
  <2>1. clock.seen = Unseen BY <1>1 DEF CInv, SeenInWindow, Running
  <2> QED BY <1>2, <2>1 DEF SeenInWindow
<1>9. Accounts'
  <2>1. SUFFICES ASSUME Valid PROVE \E k \in Nat : Asked(k)'
    BY <1>2 DEF Accounts, Valid
  <2>2. PICK k \in Nat : Working(k) BY <1>1, <2>1 DEF CInv, Accounts, Running
  <2>3. clock.seen = Unseen BY <1>1 DEF CInv, SeenInWindow, Running
  <2>4. Block * k \in Nat /\ Overrun * k \in Nat BY Multiples
  <2>5. Asked(k)' BY <1>2, <1>3, <2>1, <2>2, <2>3, <2>4 DEF Working, Asked
  <2> QED BY <2>5
<1>10. StageIsBounded' BY <1>2 DEF CInv, StageIsBounded
<1> QED BY <1>4, <1>5, <1>6, <1>7, <1>8, <1>9, <1>10 DEF CInv

(* She gave time: the clock sees it, or the cut does.                        *)
LEMMA MoreKept ==
    ASSUME TypeOK, CInv, Running, Given, MoreTime, exec.pc' = "wait", UNCHANGED <<task, future, fencing>>
    PROVE  CInv'
<1> USE ClockNumbers, Lengths
<1> HIDE DEF Longer, Overrun, Unseen
<1>1. clock.asked /\ task.more >= clock.granted + 1 BY DEF Given
<1>2. /\ clock'.asked = FALSE /\ clock'.left = clock.left /\ clock'.ran = clock.ran
      /\ clock'.seen = Unseen /\ clock'.granted = clock.granted
  BY DEF MoreTime, TypeOK, ClockTyped
<1>4. Fenced' BY DEF CInv, Fenced, Running, Valid
<1>5. MarkIsCurrent' BY <1>1 DEF CInv, MarkIsCurrent, Running, Valid
<1>6. GrantedBefore' BY <1>2 DEF CInv, GrantedBefore
<1>7. DecidesAsked' BY DEF DecidesAsked
<1>8. SeenInWindow' BY <1>2 DEF SeenInWindow
<1>9. Accounts'
  <2>1. SUFFICES ASSUME Valid PROVE \E k \in Nat : Working(k)'
    BY <1>2 DEF Accounts, Valid
  <2>2. PICK k \in Nat : Asked(k) BY <1>1, <2>1 DEF CInv, Accounts
  <2>3. /\ Block * k \in Nat /\ Overrun * k \in Nat
        /\ Block * (k + 1) = Block * k + Block /\ Overrun * (k + 1) = Overrun * k + Overrun
    BY Multiples
  <2>4. clock.left + Overrun * k + Window >= 0
    BY <1>1, <2>2, <2>3 DEF CInv, SeenInWindow, Asked
  <2>5. k + 1 \in Nat /\ Working(k + 1)'
    BY <1>1, <1>2, <2>2, <2>3, <2>4 DEF Working, Asked
  <2> QED BY <2>5
<1>10. StageIsBounded' BY <1>2 DEF CInv, StageIsBounded
<1> QED BY <1>4, <1>5, <1>6, <1>7, <1>8, <1>9, <1>10 DEF CInv

LEMMA SeeTurnKept ==
    ASSUME TypeOK, CInv, SeeTurn
    PROVE  CInv'
<1> USE ClockNumbers, Lengths
<1> HIDE DEF Longer, Overrun, Unseen
<1>1. /\ Running /\ clock.asked /\ clock.seen = Unseen
      /\ UNCHANGED <<task, exec, future, fencing>>
  BY DEF SeeTurn, SeesTurn, Reads, Running
<1>2. /\ clock'.asked = clock.asked /\ clock'.left = clock.left /\ clock'.ran = clock.ran
      /\ clock'.seen = Window /\ clock'.granted = clock.granted
  BY DEF SeeTurn, TypeOK, ClockTyped
<1>3. Fenced' /\ MarkIsCurrent' /\ GrantedBefore' /\ DecidesAsked' /\ StageIsBounded'
  BY <1>1, <1>2
     DEF CInv, Fenced, MarkIsCurrent, GrantedBefore, DecidesAsked, StageIsBounded, Running, Valid
<1>4. SeenInWindow' BY <1>1, <1>2 DEF SeenInWindow
<1>5. Accounts'
  <2>1. SUFFICES ASSUME Valid PROVE \E k \in Nat : Asked(k)'
    BY <1>1, <1>2 DEF Accounts, Valid
  <2>2. PICK k \in Nat : Asked(k) BY <1>1, <2>1 DEF CInv, Accounts
  <2>3. Asked(k)' BY <1>1, <1>2, <2>2 DEF Asked
  <2> QED BY <2>3
<1> QED BY <1>3, <1>4, <1>5 DEF CInv

(* A tick passes for a RUNNING task only, and only while there is time left. *)
LEMMA TickKept ==
    ASSUME TypeOK, CInv, Tick
    PROVE  CInv'
<1> USE ClockNumbers, Lengths
<1> HIDE DEF Longer, Overrun, Unseen
<1>1. /\ exec.pc = "wait" /\ future = "none" /\ Running /\ Valid
      /\ UNCHANGED <<task, exec, future, fencing>>
  BY DEF Tick, Quiet, Reads, Running, CInv, Fenced
<1>2. /\ clock'.asked = clock.asked /\ clock'.left = clock.left - 1 /\ clock'.ran = clock.ran + 1
      /\ clock'.granted = clock.granted
      /\ clock.seen = Unseen => clock'.seen = Unseen
      /\ clock.seen # Unseen => clock'.seen = clock.seen - 1
  BY DEF Tick, TypeOK, ClockTyped
<1>3. Fenced' /\ MarkIsCurrent' /\ GrantedBefore' /\ DecidesAsked'
  BY <1>1, <1>2 DEF CInv, Fenced, MarkIsCurrent, GrantedBefore, DecidesAsked, Running, Valid
<1>4. CASE clock.asked
  <2>1. /\ clock.seen = Unseen => clock.left > 0
        /\ clock.seen # Unseen => clock.seen > 0
    BY <1>4 DEF Tick, Quiet, Expired
  <2>2. clock.seen \in Int /\ 0 <= clock.seen /\ clock.seen <= Unseen
    BY <1>1, <1>4 DEF CInv, SeenInWindow
  <2>3. SeenInWindow' BY <1>2, <1>4, <2>1, <2>2 DEF SeenInWindow
  <2>4. PICK k \in Nat : Asked(k) BY <1>1, <1>4 DEF CInv, Accounts
  <2>5. /\ Block * k \in Nat /\ Overrun * k \in Nat /\ Longer * k = Block * k + Overrun * k
    BY Multiples
  <2>6. Asked(k)'
    BY <1>2, <2>1, <2>2, <2>4, <2>5 DEF Asked
  <2>7. Accounts' BY <1>2, <1>4, <2>6 DEF Accounts
  <2>8. StageIsBounded'
    <3>1. k <= task.more BY <2>4 DEF Asked, CInv, GrantedBefore
    <3>2. Longer * k <= Longer * task.more /\ Longer * task.more \in Nat BY <3>1, MultiplesRise
    <3>3. clock'.left + Overrun * k + Window >= 0
      BY <1>2, <2>1, <2>2, <2>4, <2>5 DEF Asked
    <3>4. clock'.ran + clock'.left = 2 * Block + Block * k BY <1>2, <2>4, <2>5 DEF Asked
    <3>5. clock'.ran \in Nat /\ clock'.left \in Int BY <1>2
    <3> QED BY <1>1, <2>5, <3>2, <3>3, <3>4, <3>5 DEF StageIsBounded
  <2> QED BY <1>3, <2>3, <2>7, <2>8 DEF CInv
<1>5. CASE ~clock.asked
  <2>1. clock.left > 0 BY <1>5 DEF Tick, Quiet
  <2>2. clock.seen = Unseen BY <1>1, <1>5 DEF CInv, SeenInWindow
  <2>3. SeenInWindow' BY <1>2, <1>5, <2>2 DEF SeenInWindow
  <2>4. PICK k \in Nat : Working(k) BY <1>1, <1>5 DEF CInv, Accounts
  <2>5. /\ Block * k \in Nat /\ Overrun * k \in Nat /\ Longer * k = Block * k + Overrun * k
    BY Multiples
  <2>6. Working(k)' BY <1>1, <1>2, <2>1, <2>4, <2>5 DEF Working
  <2>7. Accounts' BY <1>2, <1>5, <2>6 DEF Accounts
  <2>8. StageIsBounded'
    <3>1. Longer * k <= Longer * task.more /\ Longer * task.more \in Nat
      BY <2>4, MultiplesRise DEF Working
    <3>2. clock'.ran + clock'.left = Block + Block * k /\ clock'.left >= 0
      BY <1>2, <2>1, <2>4, <2>5 DEF Working
    <3>3. clock'.ran \in Nat /\ clock'.left \in Int BY <1>2
    <3> QED BY <1>1, <2>5, <3>1, <3>2, <3>3 DEF StageIsBounded
  <2> QED BY <1>3, <2>3, <2>7, <2>8 DEF CInv
<1> QED BY <1>4, <1>5

(* She gives time to the task whose clock asked.                             *)
LEMMA GrantKept ==
    ASSUME TypeOK, CInv, Grant
    PROVE  CInv'
<1> USE ClockNumbers, Lengths
<1> HIDE DEF Longer, Overrun, Unseen
<1>1. /\ Valid /\ task.mark # "none" /\ exec.pc # "down"
      /\ UNCHANGED <<exec, future, clock, fencing>>
      /\ task'.mark = "none" /\ task'.more = task.more + 1 /\ task'.state = task.state
  BY DEF Grant, stage, TypeOK, TaskTyped
<1>2. clock.asked BY <1>1 DEF CInv, MarkIsCurrent
<1>3. Fenced' BY <1>1 DEF CInv, Fenced, Running, Valid
<1>4. MarkIsCurrent' BY <1>1 DEF MarkIsCurrent
<1>5. GrantedBefore' BY <1>1 DEF CInv, GrantedBefore
<1>6. DecidesAsked' /\ SeenInWindow'
  BY <1>1 DEF CInv, DecidesAsked, SeenInWindow, Running
<1>7. Accounts' BY <1>1, <1>2 DEF CInv, Accounts, Asked, Running, Valid
<1>8. StageIsBounded'
  <2>1. /\ Longer * task.more <= Longer * (task.more + 1)
        /\ Longer * task.more \in Nat /\ Longer * (task.more + 1) \in Nat
    <3>1. task.more + 1 \in Nat /\ task.more <= task.more + 1 OBVIOUS
    <3> QED BY <3>1, MultiplesRise
  <2>2. clock.ran <= 2 * Block + Window + Longer * task.more BY DEF CInv, StageIsBounded
  <2>3. clock.ran <= 2 * Block + Window + Longer * (task.more + 1) BY <2>1, <2>2
  <2> QED BY <1>1, <2>3 DEF StageIsBounded
<1> QED BY <1>3, <1>4, <1>5, <1>6, <1>7, <1>8 DEF CInv

(* The other steps of the stage, her side and the Host.                      *)
LEMMA OtherKept ==
    ASSUME TypeOK, CInv, Other, TypeOK'
    PROVE  CInv'
<1> USE ClockNumbers
<1>1. CASE Ask BY <1>1, AskKept
<1>2. CASE SeeMore
  BY <1>2, MoreKept DEF SeeMore, Reads, Running
<1>3. CASE Decide
  <2>1. CASE Given
    BY <1>3, <2>1, MoreKept DEF Decide, Cut, Step, Running, TypeOK, StageTyped
  <2>2. CASE ~Given
    <3>1. /\ exec'.pc = "ended" /\ task'.mark = "none" /\ task'.more = task.more /\ clock' = clock
      BY <1>3, <2>2 DEF Decide, Cut, LeaveAs, TypeOK, StageTyped, TaskTyped
    <3> QED BY <3>1, WaitOver DEF Running, MarkIsCurrent
  <2> QED BY <2>1, <2>2
<1>4. CASE SeeTurn BY <1>4, SeeTurnKept
<1>5. CASE Tick BY <1>5, TickKept
<1>6. CASE Grant BY <1>6, GrantKept
<1>7. CASE Register
  <2>1. CASE Valid
    <3>1. /\ exec'.pc = "wait" /\ clock' = NewClock /\ task' = task /\ exec.pc = "begin"
      BY <1>7, <2>1 DEF Register
    <3>2. task.mark = "none" BY <2>1, <3>1 DEF CInv, MarkIsCurrent
    <3> QED BY <2>1, <3>1, <3>2, NewClockKept DEF Running, Valid
  <2>2. CASE ~Valid
    <3>1. /\ exec'.pc = "fail" /\ clock' = clock /\ task' = task
      BY <1>7, <2>2 DEF Register, Step, TypeOK, StageTyped
    <3> QED BY <2>2, <3>1, WaitOver DEF Running, MarkIsCurrent, Valid
  <2> QED BY <2>1, <2>2
<1>8. CASE FutureDone \/ ClockFails
  <2>1. /\ exec'.pc = "ended" /\ exec.pc \in {"wait", "decide"} /\ clock' = clock /\ task' = task
    BY <1>8 DEF FutureDone, ClockFails, LeaveAs, Reads, TypeOK, StageTyped
  <2> QED BY <2>1, WaitOver DEF CInv, Running, MarkIsCurrent, Valid
<1>9. CASE Expire
  <2>1. /\ exec'.pc = "decide" /\ exec.pc = "wait" /\ clock.asked
        /\ UNCHANGED <<task, clock, future, fencing>>
    BY <1>9 DEF Expire, Step, Reads, TypeOK, StageTyped
  <2> QED BY <2>1 DEF CInv, Running, Valid, Fenced, MarkIsCurrent, GrantedBefore, DecidesAsked,
              SeenInWindow, Accounts, Asked, Working, StageIsBounded
<1>10. CASE Ended
  <2>1. /\ exec'.pc = "pop" /\ exec.pc = "ended" /\ clock'.ran = clock.ran
        /\ clock'.granted = clock.granted /\ task'.more = task.more
        /\ (task'.mark = "none" \/ (~clock.asked /\ task' = task))
    <3>1. exec'.pc = "pop" /\ exec.pc = "ended"
      BY <1>10 DEF Ended, Step, TypeOK, StageTyped
    <3>2. clock'.ran = clock.ran /\ clock'.granted = clock.granted
      BY <1>10 DEF Ended, TypeOK, ClockTyped
    <3>3. CASE clock.asked
      BY <1>10, <3>1, <3>2, <3>3 DEF Ended, Unmark, TypeOK, TaskTyped
    <3>4. CASE ~clock.asked
      BY <1>10, <3>1, <3>2, <3>4 DEF Ended, Unmark
    <3> QED BY <3>3, <3>4
  <2> QED BY <2>1, WaitOver DEF CInv, Running, MarkIsCurrent, Valid
<1>11. CASE Leave
  <2>1. /\ exec'.pc \in {"begin", "report", "fail"} /\ exec.pc = "pop" /\ clock' = clock /\ task' = task
    BY <1>11 DEF Leave, Step, TypeOK, StageTyped
  <2> QED BY <2>1, WaitOver DEF CInv, Running, MarkIsCurrent, Valid
<1>12. CASE Report \/ Fail
  <2>1. /\ exec'.pc \in {"done", "fail"} /\ exec.pc \in {"report", "fail"} /\ clock' = clock
        /\ task'.more = task.more /\ task'.mark = task.mark
        /\ task'.state = "RUNNING" => task.state = "RUNNING"
    BY <1>12 DEF Report, Fail, Step, Valid, TypeOK, StageTyped, TaskTyped
  <2> QED BY <2>1, WaitOver DEF CInv, Running, MarkIsCurrent, Valid
<1>13. CASE NativeResult \/ TaskFenced
  <2>1. /\ UNCHANGED <<task, exec, clock>>
        /\ Running => future' # "none"
        /\ future' = "none" => future = "none"
    BY <1>13 DEF NativeResult, TaskFenced, Refused, Running
  <2> QED BY <2>1 DEF CInv, Running, Valid, Fenced, MarkIsCurrent, GrantedBefore, DecidesAsked,
              SeenInWindow, Accounts, Asked, Working, StageIsBounded
<1>14. CASE TurnStarts
  <2>1. /\ UNCHANGED <<exec, clock, future, fencing>>
        /\ task'.state = task.state /\ task'.more = task.more
        /\ task'.mark # "none" => task.mark # "none"
    BY <1>14 DEF TurnStarts, stage, TypeOK, TaskTyped
  <2> QED BY <2>1 DEF CInv, Running, Valid, Fenced, MarkIsCurrent, GrantedBefore, DecidesAsked,
              SeenInWindow, Accounts, Asked, Working, StageIsBounded
<1>15. CASE Cancel
  <2>1. /\ UNCHANGED <<exec, clock, future>> /\ fencing' = TRUE
        /\ task'.state = "CANCELLED" /\ task'.more = task.more
    BY <1>15 DEF Cancel, stage, TypeOK, TaskTyped
  <2> QED BY <2>1 DEF CInv, Running, Valid, Fenced, MarkIsCurrent, GrantedBefore, DecidesAsked,
              SeenInWindow, Accounts, StageIsBounded
<1>16. CASE Start
  <2>1. /\ exec'.pc = "over" /\ clock' = clock /\ task'.more = task.more
        /\ task'.state # "RUNNING"
    BY <1>16 DEF Start, Valid, TypeOK, StageTyped, TaskTyped
  <2> QED BY <2>1, WaitOver DEF Running, MarkIsCurrent, Valid
<1> QED BY <1>1, <1>2, <1>3, <1>4, <1>5, <1>6, <1>7, <1>8, <1>9, <1>10, <1>11, <1>12, <1>13,
           <1>14, <1>15, <1>16 DEF Other, Executor

LEMMA ClockInvariant == Spec => [](IInv /\ CInv)
<1>1. Init => CInv
  <2>1. ASSUME Init PROVE CInv
    <3>1. TypeOK BY <2>1, TypeInit
    <3>2. /\ clock.ran = 0 /\ clock.asked = FALSE /\ clock.left = Block
          /\ clock.seen = Unseen /\ clock.granted = 0 /\ exec.pc = "begin" /\ task.more = 0
          /\ task.mark = "none"
      BY <2>1 DEF Init, NewClock
    <3>3. Longer * 0 = 0 BY Lengths
    <3> QED BY <3>2, <3>3, Lengths DEF CInv, Running, Fenced, MarkIsCurrent, GrantedBefore,
            DecidesAsked, SeenInWindow, Accounts, StageIsBounded
  <2> QED BY <2>1
<1>2. IInv /\ CInv /\ [Next]_vars => CInv'
  <2> SUFFICES ASSUME IInv, CInv, [Next]_vars PROVE CInv' OBVIOUS
  <2>1. TypeOK /\ TypeOK' BY NextIInv, StutterIInv DEF IInv
  <2>2. CASE Crash
    BY <2>1, <2>2, NewClockKept DEF Crash, Running
  <2>3. CASE Other BY <2>1, <2>3, OtherKept
  <2>4. CASE \/ \E t \in Threads, c \in Calls, i \in Inputs : Deliver(t, c, i)
             \/ \E t \in Threads : ToolStep(t)
    BY <2>4, CallsLeaveStage, ClockUntouched
  <2>5. CASE UNCHANGED vars BY <2>5, ClockUntouched DEF vars, stage
  <2> QED BY <2>2, <2>3, <2>4, <2>5 DEF Next, Other
<1>3. IInv /\ [Next]_vars => IInv' BY NextIInv, StutterIInv
<1> QED BY InitIInv, <1>1, <1>2, <1>3, PTL DEF Spec

(* A mark that asks her is the ask of the stage whose clock waits for her,   *)
(* and a stage never runs longer than its blocks, whatever the native run    *)
(* does and however long her window is beside a block.                       *)
THEOREM ClockServesItsStage == Spec => []ClockIsKept
<1>1. IInv /\ CInv => ClockIsKept
  BY DEF CInv, MarkIsCurrent, ClockIsKept, AskIsLive
<1> QED BY ClockInvariant, <1>1, PTL

(* The cut finds nothing given since it asked: her words "given" and the cut *)
(* never cross.                                                              *)
THEOREM GivenTimeIsKept == Spec => GivenIsNotCut
<1>1. ASSUME IInv /\ CInv, [Next]_vars
      PROVE  [exec.how # "cut" /\ exec'.how = "cut" => task.more = clock.granted]_vars
  <2> SUFFICES ASSUME exec.how # "cut", exec'.how = "cut", Next PROVE task.more = clock.granted
    BY <1>1 DEF vars, stage
  <2>1. CASE Decide
    <3>1. ~Given
      BY <1>1, <2>1 DEF Decide, Cut, Step, IInv, TypeOK, StageTyped
    <3>2. clock.asked /\ clock.granted <= task.more
      BY <1>1, <2>1 DEF Decide, CInv, DecidesAsked, GrantedBefore
    <3> QED BY <1>1, <3>1, <3>2, ClockNumbers DEF Given, IInv
  <2>2. CASE Next /\ ~Decide
    <3>1. exec'.how # "cut"
      <4>1. CASE Crash BY <4>1 DEF Crash
      <4>2. CASE \/ \E t \in Threads, c \in Calls, i \in Inputs : Deliver(t, c, i)
                 \/ \E t \in Threads : ToolStep(t)
        BY <4>2, CallsLeaveStage
      <4>3. CASE ClockFails
        BY <1>1, <4>3 DEF ClockFails, LeaveAs, IInv, TypeOK, StageTyped
      <4>8. CASE Register
        BY <1>1, <4>8 DEF Register, Step, IInv, TypeOK, StageTyped
      <4>7. CASE FutureDone
        <5>1. exec'.how = future /\ future \in {"none", "result", "refused"}
          BY <1>1, <4>7 DEF FutureDone, LeaveAs, IInv, TypeOK, StageTyped
        <5> QED BY <5>1
      <4>4. CASE Expire \/ Ended \/ Leave \/ Report \/ Fail \/ Start
        BY <1>1, <4>4 DEF Expire, Ended, Leave, Report, Fail, Start, Step, IInv, TypeOK, StageTyped
      <4>5. CASE Ask \/ SeeMore \/ SeeTurn \/ NativeResult \/ TaskFenced \/ Tick
        BY <4>5 DEF Ask, SeeMore, SeeTurn, NativeResult, TaskFenced, Tick
      <4>6. CASE TurnStarts \/ Grant \/ Cancel
        BY <4>6 DEF TurnStarts, Grant, Cancel, stage
      <4> QED BY <2>2, <4>1, <4>2, <4>3, <4>4, <4>5, <4>6, <4>7, <4>8 DEF Next, Executor
    <3> QED BY <3>1
  <2> QED BY <2>1, <2>2
<1> QED BY ClockInvariant, <1>1, PTL DEF Spec, GivenIsNotCut
=============================================================================

------------------------ MODULE TaskHandback_proofs ------------------------
(***************************************************************************)
(* For any set of tasks and any bounds: every state of TaskHandback is well *)
(* typed, no worker ever changes a finished result, and a cancellation is   *)
(* final. Nothing is marked as on its way while nothing carries it, and, as *)
(* long as no worker restart pends, a result is on its way at most once,    *)
(* the module implements ResultDelivery (DeliversResults), and her turns on *)
(* the two versions of a result exclude each other (VersionsTakeTurns).     *)
(*                                                                         *)
(* TypeOK alone is not inductive: SaveFeedback writes the state of her turn *)
(* into the row, so a turn that is being saved must have ended              *)
(* (EndedTurnSaved). That a cancellation is final rests on CancelledClosed; *)
(* the refinement on WayInv: who may still hold a result that the watchdog  *)
(* found lost or that a turn of hers is about to save. VersionsInv adds     *)
(* what has to be over before the short version comes into play (Behind),   *)
(* and that it stays over.                                                  *)
(***************************************************************************)
EXTENDS TaskHandback, FiniteSetTheorems, SequenceTheorems, TLAPS

(* A turn that is about to be saved is neither open nor missing. *)
EndedTurnSaved == conv.pc = "save" =>
    turn[conv.item.task][conv.ep] \notin Resumable \cup {"NONE"}

(* The inductive invariant of the types. *)
Inv == TypeOK /\ EndedTurnSaved

(* The ready tasks are queued in some order at a start. *)
LEMMA SetToSeqType ==
    ASSUME NEW S, IsFiniteSet(S)
    PROVE  SetToSeq(S) \in Seq(S)
<1>1. Cardinality(S) \in Nat /\ ExistsBijection(1..Cardinality(S), S)
  BY FS_CardinalityType
<1>2. PICK f \in [1..Cardinality(S) -> S] : IsInjective(f)
  BY <1>1 DEF ExistsBijection, Bijection, Injection, IsInjective
<1>3. SetToSeq(S) \in [1..Cardinality(S) -> S]
  BY <1>2, Zenon DEF SetToSeq
<1> QED BY <1>1, <1>3

(* Spending from a bound leaves a bound. *)
LEMMA SpendTyped == ASSUME LeftTyped, NEW d \in Disturbances, Spend(d) PROVE LeftTyped'
BY DEF LeftTyped, Spend

(* What a typed task worker holds at each of its program counters. *)
LEMMA ExecParts == ASSUME ExecTyped PROVE
   /\ exec.pc = "running" => exec.task \in Tasks /\ exec.fence \in Nat
   /\ exec.pc \in {"taken", "report"} => exec.task \in Tasks
   /\ exec.pc \in {"idle", "running", "taken", "report"}
BY DEF ExecTyped, ExecStates, IdleExec

(* What a typed conversation worker holds at each of its program counters. *)
LEMMA ConvParts == ASSUME ConvTyped PROVE
    /\ conv.pc # "idle" => /\ conv.item \in Handbacks /\ conv.item.task \in Tasks
                           /\ conv.item.short \in BOOLEAN /\ conv.item.again \in BOOLEAN
    /\ conv.pc \in {"begin", "leave", "raised"} =>
          conv \in [pc : {"begin", "leave", "raised"}, item : Handbacks, kept : BOOLEAN]
    /\ conv.pc \in {"advance", "turn", "save", "settle", "result"} => conv.ep \in Versions
<1>1. CASE conv = IdleConv BY <1>1 DEF IdleConv
<1>2. CASE conv \in [pc : {"held"}, item : Handbacks] BY <1>2 DEF Handbacks
<1>3. CASE conv \in [pc : {"begin", "leave", "raised"}, item : Handbacks, kept : BOOLEAN]
  BY <1>3 DEF Handbacks
<1>4. CASE conv \in [pc : {"advance", "turn", "save", "settle", "result"}, item : Handbacks,
                     ep : Versions, kept : {FALSE}]
  BY <1>4 DEF Handbacks
<1> QED BY <1>1, <1>2, <1>3, <1>4 DEF ConvTyped, ConvStates

(* What a typed watchdog holds at each of its program counters. *)
LEMMA SweepParts == ASSUME SweepTyped PROVE
    /\ sweep.pc \in {"orphans", "closing"} =>
           sweep.running \subseteq Tasks /\ sweep.onWay \subseteq Tasks
    /\ sweep.pc = "closing" => sweep.todo \subseteq Tasks \X Nat
    /\ sweep.pc \in {"lost", "act"} => sweep.todo \subseteq Tasks
    /\ sweep.pc = "act" => sweep.task \in Tasks /\ sweep.step \in {"full", "short", "give_up"}
<1>1. CASE sweep = IdleSweep BY <1>1 DEF IdleSweep
<1>2. CASE sweep \in [pc : {"orphans"}, running : SUBSET Tasks, onWay : SUBSET Tasks] BY <1>2
<1>3. CASE sweep \in [pc : {"closing"}, running : SUBSET Tasks, onWay : SUBSET Tasks,
                      todo : SUBSET (Tasks \X Nat)] BY <1>3
<1>4. CASE sweep \in [pc : {"lost"}, todo : SUBSET Tasks] BY <1>4
<1>5. CASE sweep \in [pc : {"act"}, todo : SUBSET Tasks, task : Tasks,
                      step : {"full", "short", "give_up"}] BY <1>5
<1> QED BY <1>1, <1>2, <1>3, <1>4, <1>5 DEF SweepTyped, SweepStates

(* Where a turn goes on. *)
LEMMA AtTyped == ASSUME ConvTyped, conv.pc # "idle", NEW v \in Versions,
  NEW pc \in {"advance", "turn", "save", "settle", "result"} PROVE At(pc, v) \in ConvStates
BY ConvParts DEF At, ConvStates

(* Chat.hand_back queues a hand-back. *)
LEMMA HandBackTyped == ASSUME ConvTyped, NEW t \in Tasks, NEW short \in BOOLEAN,
    NEW again \in BOOLEAN,
   HandBack(t, short, again), UNCHANGED conv PROVE ConvTyped'
<1>1. [task |-> t, short |-> short, again |-> again] \in Handbacks BY DEF Handbacks
<1> QED BY <1>1 DEF HandBack, ConvTyped

(* What the row writes of the actions leave in a row. *)
LEMMA RowEnded == ASSUME task \in [Tasks -> TaskRows], NEW t \in Tasks, NEW outcome \in Finished
    PROVE [task EXCEPT ![t].state = outcome, ![t].fb = "READY"] \in [Tasks -> TaskRows]
BY DEF TaskRows

LEMMA RowFedBack == ASSUME task \in [Tasks -> TaskRows], NEW t \in Tasks,
    NEW fb \in Taken \cup {"READY", "FAILED_RUNTIME"}
    PROVE [task EXCEPT ![t].fb = fb] \in [Tasks -> TaskRows]
BY DEF TaskRows

LEMMA RowSaved == ASSUME task \in [Tasks -> TaskRows], NEW t \in Tasks,
                         NEW fb \in Taken \cup {"READY", "FAILED_RUNTIME"}, NEW v \in Versions
    PROVE [task EXCEPT ![t].fb = fb, ![t].fbEp = v] \in [Tasks -> TaskRows]
BY DEF TaskRows

LEMMA RowFailed == ASSUME task \in [Tasks -> TaskRows], NEW t \in Tasks, NEW short \in BOOLEAN
    PROVE HandbackFailed(t, short) \in [Tasks -> TaskRows]
<1>1. CASE short BY <1>1 DEF HandbackFailed, TaskRows
<1>2. CASE ~short
  <2>1. task[t].failures \in 0..2 BY DEF TaskRows, ReportFailuresBeforeShort
  <2>2. (IF task[t].failures < 2 THEN task[t].failures + 1 ELSE task[t].failures) \in 0..2 BY <2>1
  <2> QED BY <1>2, <2>2 DEF HandbackFailed, TaskRows, ReportFailuresBeforeShort
<1> QED BY <1>1, <1>2

LEMMA RowRecovered == ASSUME task \in [Tasks -> TaskRows], NEW t \in Tasks
    PROVE Recovered(t) \in TaskRows
<1>1. task[t] \in TaskRows OBVIOUS
<1>2. [task[t] EXCEPT !.fb = "DELIVERED"] \in TaskRows BY <1>1 DEF TaskRows, Taken
<1>3. [task[t] EXCEPT !.state = "BLOCKED", !.fb = "READY", !.fence = @ + 1] \in TaskRows
  <2>1. task[t].fence + 1 \in Nat BY <1>1 DEF TaskRows
  <2> QED BY <1>1, <2>1 DEF TaskRows, Finished
<1> QED BY <1>1, <1>2, <1>3 DEF Recovered

(* A turn that has ended and is not yet saved ended in one of these. *)
LEMMA SavedState == ASSUME Inv, conv.pc = "save"
    PROVE FeedbackState(turn[conv.item.task][conv.ep]) \in Taken \cup {"READY", "FAILED_RUNTIME"}
<1>1. turn[conv.item.task][conv.ep] \in TurnStates
  BY ConvParts DEF Inv, TypeOK, RowsTyped
<1> QED BY <1>1 DEF Inv, EndedTurnSaved, TurnStates, FeedbackState, Taken

(* A step disturbs only the parts it writes to. *)
LEMMA Undisturbed == ASSUME Inv PROVE
    /\ UNCHANGED rows => RowsTyped' /\ UNCHANGED turn
    /\ UNCHANGED lifecycle => HostTyped'
    /\ UNCHANGED execVars => ExecTyped'
    /\ UNCHANGED convVars => ConvTyped' /\ UNCHANGED conv
    /\ UNCHANGED sweep => SweepTyped'
    /\ UNCHANGED left => LeftTyped'
    /\ UNCHANGED turn /\ UNCHANGED conv => EndedTurnSaved'
<1>1. UNCHANGED rows => RowsTyped' /\ UNCHANGED turn BY DEF Inv, TypeOK, RowsTyped, rows
<1>2. UNCHANGED lifecycle => HostTyped' BY DEF Inv, TypeOK, HostTyped, lifecycle
<1>3. UNCHANGED execVars => ExecTyped' BY DEF Inv, TypeOK, ExecTyped, execVars
<1>4. UNCHANGED convVars => ConvTyped' /\ UNCHANGED conv BY DEF Inv, TypeOK, ConvTyped, convVars
<1>5. UNCHANGED sweep => SweepTyped' BY DEF Inv, TypeOK, SweepTyped
<1>6. UNCHANGED left => LeftTyped' BY DEF Inv, TypeOK, LeftTyped
<1>7. UNCHANGED turn /\ UNCHANGED conv => EndedTurnSaved' BY DEF Inv, EndedTurnSaved
<1> QED BY <1>1, <1>2, <1>3, <1>4, <1>5, <1>6, <1>7

(* The Host begins well typed. *)
LEMMA InvInit == Init => Inv
<1> SUFFICES ASSUME Init PROVE Inv OBVIOUS
<1>1. RowsTyped
  BY DEF Init, RowsTyped, TaskRows, TurnStates, Versions, ReportFailuresBeforeShort
<1>2. ExecTyped BY SetToSeqType, TaskHandbackAssumption DEF Init, ExecTyped, ExecStates
<1>3. HostTyped /\ ConvTyped
  <2>1. handbacks \subseteq Tasks /\ pending \in Seq(Handbacks) BY EmptySeq DEF Init
  <2> QED BY <2>1 DEF Init, HostTyped, ConvTyped, ConvStates
<1>4. SweepTyped /\ LeftTyped
  BY TaskHandbackAssumption DEF Init, SweepTyped, SweepStates, LeftTyped
<1>5. EndedTurnSaved BY DEF Init, EndedTurnSaved, IdleConv
<1> QED BY <1>1, <1>2, <1>3, <1>4, <1>5 DEF Inv, TypeOK

(* Every action keeps the state well typed. *)
LEMMA InvNext == ASSUME Inv, Next PROVE Inv'
<1>1. CASE TakeTask
  <2>1. RowsTyped' /\ HostTyped' /\ ConvTyped' /\ SweepTyped' /\ LeftTyped' /\ EndedTurnSaved'
    BY <1>1, Undisturbed DEF TakeTask
  <2>2. ExecTyped'
    BY <1>1, ExecParts DEF Inv, TypeOK, TakeTask, ExecTyped, ExecStates, IdleExec
  <2> QED BY <2>1, <2>2 DEF Inv, TypeOK
<1>2. CASE Claim
  <2>1. HostTyped' /\ ConvTyped' /\ SweepTyped' /\ LeftTyped' /\ EndedTurnSaved'
    BY <1>2, Undisturbed DEF Claim
  <2>2. RowsTyped'
    BY <1>2, ExecParts, ConvParts DEF Inv, TypeOK, Claim, RowsTyped, TaskRows
  <2>3. ExecTyped'
    <3>1. exec' \in [pc : {"running"}, task : Tasks, fence : Nat]
      BY <1>2, ExecParts DEF Inv, TypeOK, RowsTyped, TaskRows, Claim
    <3> QED BY <1>2, <3>1 DEF Inv, TypeOK, Claim, ExecTyped, ExecStates
  <2> QED BY <2>1, <2>2, <2>3 DEF Inv, TypeOK
<1>3. CASE LeaveUnclaimed
  <2>1. RowsTyped' /\ HostTyped' /\ ConvTyped' /\ SweepTyped' /\ EndedTurnSaved'
    BY <1>3, Undisturbed DEF LeaveUnclaimed
  <2>2. ExecTyped'
    BY <1>3, ExecParts DEF Inv, TypeOK, LeaveUnclaimed, ExecTyped, ExecStates, IdleExec
  <2>3. LeftTyped'
    BY <1>3, SpendTyped DEF Inv, TypeOK, LeaveUnclaimed, LeftTyped, Disturbances
  <2> QED BY <2>1, <2>2, <2>3 DEF Inv, TypeOK
<1>4. ASSUME NEW outcome \in Finished, FinishRun(outcome) PROVE Inv'
  <2>1. HostTyped' /\ ConvTyped' /\ SweepTyped' /\ LeftTyped' /\ EndedTurnSaved'
    BY <1>4, Undisturbed DEF FinishRun, EndRun
  <2>2. RowsTyped'
    BY <1>4, ExecParts, RowEnded DEF Inv, TypeOK, FinishRun, EndRun, RowsTyped
  <2>3. ExecTyped'
    BY <1>4, ExecParts DEF Inv, TypeOK, FinishRun, ExecTyped, ExecStates, IdleExec, EndRun
  <2> QED BY <2>1, <2>2, <2>3 DEF Inv, TypeOK
<1>5. CASE FailRun
  <2>1. HostTyped' /\ ConvTyped' /\ SweepTyped' /\ LeftTyped' /\ EndedTurnSaved'
    BY <1>5, Undisturbed DEF FailRun, EndRun
  <2>2. RowsTyped'
    BY <1>5, ExecParts, RowEnded DEF Inv, TypeOK, FailRun, EndRun, RowsTyped, Finished
  <2>3. ExecTyped'
    BY <1>5, ExecParts DEF Inv, TypeOK, FailRun, ExecTyped, ExecStates, IdleExec, EndRun
  <2> QED BY <2>1, <2>2, <2>3 DEF Inv, TypeOK
<1>6. CASE AbandonRun
  <2>1. RowsTyped' /\ HostTyped' /\ ConvTyped' /\ SweepTyped' /\ EndedTurnSaved'
    BY <1>6, Undisturbed DEF AbandonRun
  <2>2. ExecTyped'
    BY <1>6, ExecParts DEF Inv, TypeOK, AbandonRun, ExecTyped, ExecStates, IdleExec
  <2>3. LeftTyped'
    BY <1>6, SpendTyped DEF Inv, TypeOK, AbandonRun, LeftTyped, Disturbances
  <2> QED BY <2>1, <2>2, <2>3 DEF Inv, TypeOK
<1>7. CASE ReportRun
  <2>1. RowsTyped' /\ HostTyped' /\ SweepTyped' /\ LeftTyped' /\ EndedTurnSaved'
    BY <1>7, Undisturbed DEF ReportRun
  <2>2. ExecTyped'
    BY <1>7, ExecParts DEF Inv, TypeOK, ReportRun, ExecTyped, ExecStates, IdleExec
  <2>3. ConvTyped'
    BY <1>7, ConvParts, ExecParts, HandBackTyped DEF Inv, TypeOK, ReportRun, ConvTyped
  <2> QED BY <2>1, <2>2, <2>3 DEF Inv, TypeOK
<1>8. CASE TakeHandback
  <2>1. RowsTyped' /\ HostTyped' /\ ExecTyped' /\ SweepTyped' /\ LeftTyped'
    BY <1>8, Undisturbed DEF TakeHandback
  <2>2. ConvTyped'
    <3>1. Head(pending) \in Handbacks /\ Tail(pending) \in Seq(Handbacks)
      BY <1>8, HeadTailProperties DEF Inv, TypeOK, TakeHandback, ConvTyped
    <3> QED BY <1>8, <3>1 DEF Inv, TypeOK, TakeHandback, ConvTyped, ConvStates
  <2>3. EndedTurnSaved'
    BY <1>8, ConvParts DEF Inv, TypeOK, RowsTyped, TakeHandback, EndedTurnSaved
  <2> QED BY <2>1, <2>2, <2>3 DEF Inv, TypeOK
<1>9. CASE HoldHandback
  <2>1. RowsTyped' /\ HostTyped' /\ ExecTyped' /\ SweepTyped' /\ LeftTyped'
    BY <1>9, Undisturbed DEF HoldHandback
  <2>2. ConvTyped'
    <3>1. conv.item \in Handbacks BY <1>9, ConvParts DEF Inv, TypeOK, HoldHandback
    <3>2. pending' \in Seq(Handbacks) /\ handbacks' \subseteq Tasks
      BY <1>9, <3>1, AppendProperties DEF Inv, TypeOK, HoldHandback, ConvTyped
    <3>3. conv' \in [pc : {"begin", "leave", "raised"}, item : Handbacks, kept : BOOLEAN]
      BY <1>9, <3>1 DEF HoldHandback
    <3> QED BY <3>2, <3>3 DEF ConvTyped, ConvStates
  <2>3. EndedTurnSaved'
    BY <1>9, ConvParts DEF Inv, TypeOK, RowsTyped, HoldHandback, EndedTurnSaved
  <2> QED BY <2>1, <2>2, <2>3 DEF Inv, TypeOK
<1>10. CASE RefuseFeedback
  <2>1. HostTyped' /\ ExecTyped' /\ SweepTyped' /\ LeftTyped'
    BY <1>10, Undisturbed DEF RefuseFeedback
  <2>2. RowsTyped'
    BY <1>10, ConvParts, RowFedBack DEF Inv, TypeOK, RefuseFeedback, RowsTyped, Taken
  <2>3. ConvTyped'
    BY <1>10, ConvParts, ExecParts DEF Inv, TypeOK, RefuseFeedback, ConvTyped, Leave, ConvStates
  <2>4. EndedTurnSaved'
    BY <1>10, ConvParts DEF Inv, TypeOK, RowsTyped, RefuseFeedback, EndedTurnSaved, Leave
  <2> QED BY <2>1, <2>2, <2>3, <2>4 DEF Inv, TypeOK
<1>11. CASE BeginFeedback
  <2>1. HostTyped' /\ ExecTyped' /\ SweepTyped' /\ LeftTyped'
    BY <1>11, Undisturbed DEF BeginFeedback
  <2>2. RowsTyped'
    BY <1>11, ExecParts, ConvParts DEF Inv, TypeOK, BeginFeedback, RowsTyped, TurnStates,
       Versions, Version, Resumable, TaskRows
  <2>3. ConvTyped'
    BY <1>11, ConvParts, ExecParts, AtTyped DEF Inv, TypeOK, BeginFeedback, ConvTyped, Version,
       Versions, TaskRows, RowsTyped
  <2>4. EndedTurnSaved'
    BY <1>11, ConvParts DEF Inv, TypeOK, RowsTyped, BeginFeedback, EndedTurnSaved, At, Resumable
  <2> QED BY <2>1, <2>2, <2>3, <2>4 DEF Inv, TypeOK
<1>12. CASE Advance
  <2>1. HostTyped' /\ ExecTyped' /\ SweepTyped' /\ LeftTyped'
    BY <1>12, Undisturbed DEF Advance
  <2>2. RowsTyped'
    BY <1>12, ExecParts, ConvParts DEF Inv, TypeOK, Advance, RowsTyped, TurnStates, Resumable
  <2>3. ConvTyped'
    BY <1>12, ConvParts, ExecParts, AtTyped DEF Inv, TypeOK, Advance, ConvTyped
  <2>4. EndedTurnSaved'
    BY <1>12, ConvParts DEF Inv, TypeOK, RowsTyped, Advance, EndedTurnSaved, At, Resumable
  <2> QED BY <2>1, <2>2, <2>3, <2>4 DEF Inv, TypeOK
<1>13. ASSUME NEW outcome \in TurnOutcomes, EndTurn(outcome) PROVE Inv'
  <2>1. HostTyped' /\ ExecTyped' /\ SweepTyped'
    BY <1>13, Undisturbed DEF EndTurn
  <2>2. RowsTyped'
    BY <1>13, ExecParts, ConvParts DEF Inv, TypeOK, EndTurn, RowsTyped, TurnStates, TurnOutcomes
  <2>3. ConvTyped'
    BY <1>13, ConvParts, ExecParts, AtTyped DEF Inv, TypeOK, EndTurn, ConvTyped
  <2>4. LeftTyped'
    BY <1>13, SpendTyped DEF Inv, TypeOK, EndTurn, LeftTyped, Disturbances
  <2>5. EndedTurnSaved'
    BY <1>13, ConvParts DEF Inv, TypeOK, RowsTyped, EndTurn, EndedTurnSaved, At, TurnOutcomes,
       Resumable
  <2> QED BY <2>1, <2>2, <2>3, <2>4, <2>5 DEF Inv, TypeOK
<1>14. CASE SaveFeedback
  <2>1. HostTyped' /\ ExecTyped' /\ SweepTyped' /\ LeftTyped'
    BY <1>14, Undisturbed DEF SaveFeedback
  <2>2. RowsTyped'
    BY <1>14, ConvParts, SavedState, RowSaved DEF Inv, TypeOK, SaveFeedback, RowsTyped
  <2>3. ConvTyped'
    BY <1>14, ConvParts, ExecParts, AtTyped DEF Inv, TypeOK, SaveFeedback, ConvTyped
  <2>4. EndedTurnSaved'
    BY <1>14, ConvParts DEF Inv, TypeOK, RowsTyped, SaveFeedback, EndedTurnSaved, At
  <2> QED BY <2>1, <2>2, <2>3, <2>4 DEF Inv, TypeOK
<1>15. CASE SettleAsking
  <2>1. HostTyped' /\ ExecTyped' /\ SweepTyped' /\ LeftTyped'
    BY <1>15, Undisturbed DEF SettleAsking
  <2>2. RowsTyped'
    BY <1>15, ExecParts, ConvParts DEF Inv, TypeOK, SettleAsking, RowsTyped
  <2>3. ConvTyped'
    BY <1>15, ConvParts, ExecParts, AtTyped DEF Inv, TypeOK, SettleAsking, ConvTyped
  <2>4. EndedTurnSaved'
    BY <1>15, ConvParts DEF Inv, TypeOK, RowsTyped, SettleAsking, EndedTurnSaved, At
  <2> QED BY <2>1, <2>2, <2>3, <2>4 DEF Inv, TypeOK
<1>16. CASE ReturnResult
  <2>1. RowsTyped' /\ HostTyped' /\ ExecTyped' /\ SweepTyped'
    BY <1>16, Undisturbed DEF ReturnResult
  <2>2. ConvTyped'
    <3>1. conv.item \in Handbacks BY <1>16, ConvParts DEF Inv, TypeOK, ReturnResult
    <3>2. pending' \in Seq(Handbacks) /\ handbacks' \subseteq Tasks
      BY <1>16, <3>1, AppendProperties DEF Inv, TypeOK, ReturnResult, ConvTyped
    <3>3. conv' \in [pc : {"begin", "leave", "raised"}, item : Handbacks, kept : BOOLEAN]
      <4> DEFINE kept == turn[conv.item.task][conv.ep] = "FAILED_PROTOCOL"
      <4>1. kept \in BOOLEAN OBVIOUS
      <4>2. \E pc \in {"leave", "raised"} : conv' = [pc |-> pc, item |-> conv.item, kept |-> kept]
        BY <1>16 DEF ReturnResult
      <4> HIDE DEF kept
      <4> QED BY <3>1, <4>1, <4>2
    <3> QED BY <3>2, <3>3 DEF ConvTyped, ConvStates
  <2>3. LeftTyped'
    BY <1>16, SpendTyped DEF Inv, TypeOK, ReturnResult, LeftTyped, Disturbances
  <2>4. EndedTurnSaved'
    BY <1>16, ConvParts DEF Inv, TypeOK, RowsTyped, ReturnResult, EndedTurnSaved
  <2> QED BY <2>1, <2>2, <2>3, <2>4 DEF Inv, TypeOK
<1>17. CASE RaiseInFeedback
  <2>1. RowsTyped' /\ HostTyped' /\ ExecTyped' /\ SweepTyped'
    BY <1>17, Undisturbed DEF RaiseInFeedback
  <2>2. ConvTyped'
    BY <1>17, ConvParts, ExecParts DEF Inv, TypeOK, RaiseInFeedback, ConvTyped, Raise, ConvStates
  <2>3. LeftTyped'
    BY <1>17, SpendTyped DEF Inv, TypeOK, RaiseInFeedback, LeftTyped, Disturbances
  <2>4. EndedTurnSaved'
    BY <1>17, ConvParts DEF Inv, TypeOK, RowsTyped, RaiseInFeedback, EndedTurnSaved, Raise
  <2> QED BY <2>1, <2>2, <2>3, <2>4 DEF Inv, TypeOK
<1>18. CASE RecordFailure
  <2>1. HostTyped' /\ ExecTyped' /\ SweepTyped'
    BY <1>18, Undisturbed DEF RecordFailure
  <2>2. RowsTyped'
    <3> DEFINE t == conv.item.task
               v == Version(conv.item.short)
    <3>1. t \in Tasks /\ v \in Versions /\ conv.item.short \in BOOLEAN
      BY <1>18, ConvParts DEF Inv, TypeOK, RecordFailure, Version, Versions
    <3>2. task' \in [Tasks -> TaskRows]
      BY <1>18, <3>1, RowFailed DEF Inv, TypeOK, RowsTyped, RecordFailure
    <3>3. turn' \in [Tasks -> [Versions -> TurnStates]]
      <4>1. \/ UNCHANGED turn
            \/ turn' = [turn EXCEPT ![t][v] = "INTERRUPTED"]
            \/ turn' = [turn EXCEPT ![t][v] = "FAILED_RUNTIME"]
        BY <1>18 DEF RecordFailure
      <4> HIDE DEF t, v
      <4> QED BY <3>1, <4>1 DEF Inv, TypeOK, RowsTyped, TurnStates, Resumable
    <3> QED BY <1>18, <3>2, <3>3 DEF Inv, TypeOK, RowsTyped, RecordFailure
  <2>3. ConvTyped'
    <3>1. conv \in [pc : {"begin", "leave", "raised"}, item : Handbacks, kept : BOOLEAN]
      BY <1>18, ConvParts DEF Inv, TypeOK, RecordFailure
    <3>2. conv' \in [pc : {"begin", "leave", "raised"}, item : Handbacks, kept : BOOLEAN]
      BY <1>18, <3>1 DEF RecordFailure
    <3> QED BY <1>18, <3>2 DEF Inv, TypeOK, RecordFailure, ConvTyped, ConvStates
  <2>4. LeftTyped'
    BY <1>18, SpendTyped DEF Inv, TypeOK, RecordFailure, LeftTyped, Disturbances
  <2>5. EndedTurnSaved'
    BY <1>18, ConvParts DEF Inv, TypeOK, RowsTyped, RecordFailure, EndedTurnSaved
  <2> QED BY <2>1, <2>2, <2>3, <2>4, <2>5 DEF Inv, TypeOK
<1>19. CASE LeaveHandback
  <2>1. RowsTyped' /\ HostTyped' /\ ExecTyped' /\ SweepTyped' /\ LeftTyped'
    BY <1>19, Undisturbed DEF LeaveHandback
  <2>2. ConvTyped'
    BY <1>19, ConvParts, ExecParts DEF Inv, TypeOK, LeaveHandback, ConvTyped, ConvStates, IdleConv
  <2>3. EndedTurnSaved'
    BY <1>19, ConvParts DEF Inv, TypeOK, RowsTyped, LeaveHandback, EndedTurnSaved, IdleConv
  <2> QED BY <2>1, <2>2, <2>3 DEF Inv, TypeOK
<1>20. CASE BeginSweep
  <2>1. RowsTyped' /\ HostTyped' /\ ExecTyped' /\ ConvTyped' /\ LeftTyped' /\ EndedTurnSaved'
    BY <1>20, Undisturbed DEF BeginSweep
  <2>2. SweepTyped'
    BY <1>20, ExecParts DEF Inv, TypeOK, BeginSweep, SweepTyped, IdleSweep, SweepStates, ConvTyped
  <2> QED BY <2>1, <2>2 DEF Inv, TypeOK
<1>21. CASE FindOrphans
  <2>1. RowsTyped' /\ HostTyped' /\ ExecTyped' /\ ConvTyped' /\ LeftTyped' /\ EndedTurnSaved'
    BY <1>21, Undisturbed DEF FindOrphans
  <2>2. SweepTyped'
    BY <1>21, ExecParts, SweepParts DEF Inv, TypeOK, FindOrphans, SweepTyped, IdleSweep,
       SweepStates, Orphans, RowsTyped, TaskRows
  <2> QED BY <2>1, <2>2 DEF Inv, TypeOK
<1>22. CASE CloseOrphan
  <2>1. HostTyped' /\ ExecTyped' /\ ConvTyped' /\ LeftTyped' /\ EndedTurnSaved'
    BY <1>22, Undisturbed DEF CloseOrphan
  <2>2. RowsTyped'
    BY <1>22, ExecParts, ConvParts, SweepParts DEF Inv, TypeOK, CloseOrphan, RowsTyped, TaskRows,
       Finished
  <2>3. SweepTyped'
    <3>1. PICK found \in sweep.todo : sweep' = [sweep EXCEPT !.todo = @ \ {found},
                   !.onWay = IF task[found[1]].state = "RUNNING" /\ task[found[1]].fence = found[2]
                             THEN @ \ {found[1]} ELSE @]
      BY <1>22 DEF CloseOrphan
    <3>2. sweep \in [pc : {"closing"}, running : SUBSET Tasks, onWay : SUBSET Tasks,
                     todo : SUBSET (Tasks \X Nat)]
      BY <1>22 DEF Inv, TypeOK, SweepTyped, SweepStates, IdleSweep, CloseOrphan
    <3>3. sweep' \in [pc : {"closing"}, running : SUBSET Tasks, onWay : SUBSET Tasks,
                      todo : SUBSET (Tasks \X Nat)]
      BY <3>1, <3>2
    <3> QED BY <3>3 DEF SweepTyped, SweepStates
  <2> QED BY <2>1, <2>2, <2>3 DEF Inv, TypeOK
<1>23. CASE FindLost
  <2>1. RowsTyped' /\ HostTyped' /\ ExecTyped' /\ ConvTyped' /\ LeftTyped' /\ EndedTurnSaved'
    BY <1>23, Undisturbed DEF FindLost
  <2>2. SweepTyped'
    BY <1>23, ExecParts DEF Inv, TypeOK, FindLost, SweepTyped, IdleSweep, SweepStates
  <2> QED BY <2>1, <2>2 DEF Inv, TypeOK
<1>24. ASSUME NEW t \in Tasks, Decide(t) PROVE Inv'
  <2>1. RowsTyped' /\ HostTyped' /\ ExecTyped' /\ ConvTyped' /\ LeftTyped' /\ EndedTurnSaved'
    BY <1>24, Undisturbed DEF Decide
  <2>2. SweepTyped'
    BY <1>24, ExecParts, SweepParts DEF Inv, TypeOK, Decide, SweepTyped, IdleSweep, SweepStates,
       NextStep
  <2> QED BY <2>1, <2>2 DEF Inv, TypeOK
<1>25. CASE HandBackAgain
  <2>1. RowsTyped' /\ HostTyped' /\ ExecTyped' /\ LeftTyped' /\ EndedTurnSaved'
    BY <1>25, Undisturbed DEF HandBackAgain
  <2>2. ConvTyped'
    BY <1>25, ConvParts, ExecParts, HandBackTyped, SweepParts DEF Inv, TypeOK, HandBackAgain,
       ConvTyped
  <2>3. SweepTyped'
    BY <1>25, ExecParts, SweepParts DEF Inv, TypeOK, HandBackAgain, SweepTyped, IdleSweep,
       SweepStates
  <2> QED BY <2>1, <2>2, <2>3 DEF Inv, TypeOK
<1>26. CASE GiveUp
  <2>1. HostTyped' /\ ExecTyped' /\ ConvTyped' /\ LeftTyped' /\ EndedTurnSaved'
    BY <1>26, Undisturbed DEF GiveUp
  <2>2. RowsTyped'
    BY <1>26, SweepParts, RowFedBack DEF Inv, TypeOK, GiveUp, RowsTyped, Taken
  <2>3. SweepTyped'
    BY <1>26, ExecParts, SweepParts DEF Inv, TypeOK, GiveUp, SweepTyped, IdleSweep, SweepStates
  <2> QED BY <2>1, <2>2, <2>3 DEF Inv, TypeOK
<1>27. CASE EndSweep
  <2>1. RowsTyped' /\ HostTyped' /\ ExecTyped' /\ ConvTyped' /\ EndedTurnSaved'
    BY <1>27, Undisturbed DEF EndSweep
  <2>2. SweepTyped'
    BY <1>27, ExecParts DEF Inv, TypeOK, EndSweep, SweepTyped, IdleSweep, SweepStates
  <2>3. LeftTyped'
    BY <1>27, SpendTyped DEF Inv, TypeOK, EndSweep, LeftTyped, Disturbances
  <2> QED BY <2>1, <2>2, <2>3 DEF Inv, TypeOK
<1>28. CASE RestartPends
  <2>1. RowsTyped' /\ ExecTyped' /\ ConvTyped' /\ SweepTyped' /\ EndedTurnSaved'
    BY <1>28, Undisturbed DEF RestartPends
  <2>2. HostTyped'
    BY <1>28 DEF Inv, TypeOK, RestartPends, HostTyped
  <2>3. LeftTyped'
    BY <1>28, SpendTyped DEF Inv, TypeOK, RestartPends, LeftTyped, Disturbances
  <2> QED BY <2>1, <2>2, <2>3 DEF Inv, TypeOK
<1>29. CASE RestartWithdrawn
  <2>1. RowsTyped' /\ ExecTyped' /\ ConvTyped' /\ SweepTyped' /\ LeftTyped' /\ EndedTurnSaved'
    BY <1>29, Undisturbed DEF RestartWithdrawn
  <2>2. HostTyped'
    BY <1>29 DEF Inv, TypeOK, RestartWithdrawn, HostTyped
  <2> QED BY <2>1, <2>2 DEF Inv, TypeOK
<1>30. CASE BeginStop
  <2>1. RowsTyped' /\ ExecTyped' /\ ConvTyped' /\ SweepTyped' /\ EndedTurnSaved'
    BY <1>30, Undisturbed DEF BeginStop
  <2>2. HostTyped'
    BY <1>30 DEF Inv, TypeOK, BeginStop, HostTyped
  <2>3. LeftTyped'
    BY <1>30, SpendTyped DEF Inv, TypeOK, BeginStop, LeftTyped, Disturbances
  <2> QED BY <2>1, <2>2, <2>3 DEF Inv, TypeOK
<1>31. ASSUME NEW t \in Tasks, StopCancels(t) PROVE Inv'
  <2>1. HostTyped' /\ ExecTyped' /\ ConvTyped' /\ SweepTyped' /\ LeftTyped' /\ EndedTurnSaved'
    BY <1>31, Undisturbed DEF StopCancels
  <2>2. RowsTyped'
    BY <1>31, ExecParts, ConvParts DEF Inv, TypeOK, StopCancels, RowsTyped, Cancelled, TaskRows,
       Taken
  <2> QED BY <2>1, <2>2 DEF Inv, TypeOK
<1>32. CASE EndProcess
  <2>1. RowsTyped'
    BY <1>32, Undisturbed DEF EndProcess
  <2>2. HostTyped'
    BY <1>32 DEF Inv, TypeOK, EndProcess, HostTyped
  <2>3. ExecTyped'
    BY <1>32, ExecParts DEF Inv, TypeOK, EndProcess, ExecTyped, ExecStates, IdleExec, ExecStates
  <2>4. ConvTyped'
    BY <1>32, ConvParts, ExecParts DEF Inv, TypeOK, EndProcess, ConvTyped, ConvStates, IdleConv
  <2>5. SweepTyped'
    BY <1>32, ExecParts DEF Inv, TypeOK, EndProcess, SweepTyped, IdleSweep, SweepStates
  <2>6. LeftTyped'
    BY <1>32, SpendTyped DEF Inv, TypeOK, EndProcess, LeftTyped, Disturbances
  <2>7. EndedTurnSaved'
    BY <1>32, ConvParts DEF Inv, TypeOK, RowsTyped, EndProcess, EndedTurnSaved, IdleConv
  <2> QED BY <2>1, <2>2, <2>3, <2>4, <2>5, <2>6, <2>7 DEF Inv, TypeOK
<1>33. CASE Start
  <2>1. ConvTyped' /\ SweepTyped' /\ LeftTyped' /\ EndedTurnSaved'
    BY <1>33, Undisturbed DEF Start
  <2>2. RowsTyped'
    BY <1>33, RowRecovered DEF Inv, TypeOK, Start, RowsTyped
  <2>3. HostTyped'
    BY <1>33 DEF Inv, TypeOK, Start, HostTyped
  <2>4. ExecTyped'
    BY <1>33, ExecParts, SetToSeqType, FS_Subset, TaskHandbackAssumption DEF Inv, TypeOK, Start,
       ExecTyped, ExecStates, IdleExec
  <2> QED BY <2>1, <2>2, <2>3, <2>4 DEF Inv, TypeOK
<1>34. ASSUME NEW t \in Tasks, Cancel(t) PROVE Inv'
  <2>1. HostTyped' /\ ExecTyped' /\ ConvTyped' /\ SweepTyped' /\ EndedTurnSaved'
    BY <1>34, Undisturbed DEF Cancel
  <2>2. RowsTyped'
    BY <1>34, ExecParts, ConvParts DEF Inv, TypeOK, Cancel, RowsTyped, Cancelled, TaskRows, Taken
  <2>3. LeftTyped'
    BY <1>34, SpendTyped DEF Inv, TypeOK, Cancel, LeftTyped, Disturbances
  <2> QED BY <2>1, <2>2, <2>3 DEF Inv, TypeOK
<1>35. ASSUME NEW t \in Tasks, PolicyChanges(t) PROVE Inv'
  <2>1. HostTyped' /\ ExecTyped' /\ ConvTyped' /\ SweepTyped' /\ EndedTurnSaved'
    BY <1>35, Undisturbed DEF PolicyChanges
  <2>2. RowsTyped'
    BY <1>35, ExecParts, ConvParts DEF Inv, TypeOK, PolicyChanges, RowsTyped
  <2>3. LeftTyped'
    BY <1>35, SpendTyped DEF Inv, TypeOK, PolicyChanges, LeftTyped, Disturbances
  <2> QED BY <2>1, <2>2, <2>3 DEF Inv, TypeOK
<1>36. ASSUME NEW t \in Tasks, LeaseExpires(t) PROVE Inv'
  <2>1. HostTyped' /\ ExecTyped' /\ ConvTyped' /\ SweepTyped' /\ EndedTurnSaved'
    BY <1>36, Undisturbed DEF LeaseExpires
  <2>2. RowsTyped'
    <3>1. [task EXCEPT ![t].lease = FALSE] \in [Tasks -> TaskRows]
      BY <1>36 DEF Inv, TypeOK, RowsTyped, TaskRows
    <3> QED BY <1>36, <3>1 DEF Inv, TypeOK, RowsTyped, LeaseExpires
  <2>3. LeftTyped'
    BY <1>36, SpendTyped DEF Inv, TypeOK, LeaseExpires, LeftTyped, Disturbances
  <2> QED BY <2>1, <2>2, <2>3 DEF Inv, TypeOK
<1>37. ASSUME NEW t \in Tasks, FollowUpSettles(t) PROVE Inv'
  <2>1. HostTyped' /\ ExecTyped' /\ ConvTyped' /\ SweepTyped' /\ LeftTyped'
    BY <1>37, Undisturbed DEF FollowUpSettles
  <2>2. RowsTyped'
    BY <1>37, ExecParts, ConvParts DEF Inv, TypeOK, FollowUpSettles, RowsTyped, TurnStates
  <2>3. EndedTurnSaved'
    BY <1>37 DEF FollowUpSettles, EndedTurnSaved, convVars
  <2> QED BY <2>1, <2>2, <2>3 DEF Inv, TypeOK
<1> QED BY <1>1, <1>2, <1>3, <1>4, <1>5, <1>6, <1>7, <1>8, <1>9, <1>10, <1>11, <1>12, <1>13,
<1>14, <1>15, <1>16, <1>17, <1>18, <1>19, <1>20, <1>21, <1>22, <1>23, <1>24, <1>25, <1>26, <1>27,
<1>28, <1>29, <1>30, <1>31, <1>32, <1>33, <1>34, <1>35, <1>36, <1>37
     DEF Next, ExecStep, ConvStep, SweepStep, HostStep, Environment

(* So does a step of nothing. *)
LEMMA InvStutter == ASSUME Inv, UNCHANGED vars PROVE Inv'
BY DEF Inv, TypeOK, RowsTyped, HostTyped, ExecTyped, ConvTyped, SweepTyped, LeftTyped,
   EndedTurnSaved, vars, rows, lifecycle, execVars, convVars

----------------------------------------------------------------------------

(* What one step may do to one row: a finished result keeps its state unless *)
(* it is cancelled, and a cancelled row keeps being so.                      *)
RowMoves(t) ==
    /\ task[t].state \in Finished => task'[t].state \in {task[t].state, "CANCELLED"}
    /\ task[t].state = "CANCELLED" => /\ task'[t].state = "CANCELLED"
                                      /\ task[t].fb = "SUPPRESSED" => task'[t].fb = "SUPPRESSED"
    /\ task'[t].state = "CANCELLED" => task[t].state = "CANCELLED" \/ task'[t].fb = "SUPPRESSED"

(* How one step changes the feedback of one row, and who does it. *)
FeedbackMoves(t) ==
    \/ task'[t].state = task[t].state /\ task'[t].fb = task[t].fb
    \/ task[t].state = "READY" /\ task'[t].state = "RUNNING" /\ task'[t].fb = task[t].fb
    \/ task[t].state = "RUNNING" /\ task'[t].state \in Finished /\ task'[t].fb = "READY"
    \/ task'[t].state = "CANCELLED" /\ task'[t].fb = "SUPPRESSED"
    \/ /\ task'[t].state = task[t].state
       /\ \/ /\ conv.pc = "begin" /\ t = conv.item.task /\ Owed(t)
             /\ task'[t].fb = "SUPPRESSED"
          \/ /\ task[t].state # "CANCELLED"
             /\ conv.pc = "save" /\ conv'.pc \notin {"advance", "turn", "save"} /\ t = conv.item.task
             /\ task'[t].fb = FeedbackState(turn[t][conv.ep])
          \/ /\ sweep.pc = "act" /\ sweep.step = "give_up" /\ t = sweep.task
             /\ task[t].fb \notin Taken /\ task'[t].fb = "UNDELIVERABLE"
             /\ sweep'.pc = "lost" /\ sweep'.todo = sweep.todo
          \/ ~up /\ ReadTurn(t) /\ task'[t].fb = "DELIVERED"

(* Every action moves the feedback of every row as FeedbackMoves says. *)
LEMMA FeedbacksMove == ASSUME Inv, Next, NEW t \in Tasks PROVE FeedbackMoves(t)
<1> USE DEF Inv, TypeOK
<1>a. task \in [Tasks -> TaskRows] BY DEF RowsTyped
<1>b. task[t] \in TaskRows BY <1>a
<1>c. task'[t] = task[t] => FeedbackMoves(t) BY DEF FeedbackMoves
<1>1. CASE \/ TakeTask \/ LeaveUnclaimed \/ AbandonRun \/ ReportRun
           \/ TakeHandback \/ HoldHandback \/ BeginFeedback \/ Advance
           \/ (\E outcome \in TurnOutcomes : EndTurn(outcome)) \/ SettleAsking
           \/ ReturnResult \/ RaiseInFeedback \/ LeaveHandback
  BY <1>1, <1>c DEF TakeTask, LeaveUnclaimed, AbandonRun, ReportRun, TakeHandback, HoldHandback,
       BeginFeedback, Advance, EndTurn, SettleAsking, ReturnResult, RaiseInFeedback, LeaveHandback,
       rows
<1>2. CASE \/ BeginSweep \/ FindOrphans \/ FindLost \/ (\E s \in Tasks : Decide(s)) \/ HandBackAgain
           \/ EndSweep \/ RestartPends \/ RestartWithdrawn \/ BeginStop \/ EndProcess
           \/ (\E s \in Tasks : PolicyChanges(s) \/ FollowUpSettles(s))
  BY <1>2, <1>c DEF BeginSweep, FindOrphans, FindLost, Decide, HandBackAgain, EndSweep, RestartPends,
       RestartWithdrawn, BeginStop, EndProcess, PolicyChanges, FollowUpSettles, rows
<1>3. CASE Claim
  <2>1. CASE exec.task = t
    BY <1>3, <1>a, <1>b, <2>1 DEF Claim, TaskRows, FeedbackMoves
  <2>2. CASE exec.task # t BY <1>3, <1>a, <1>c, <2>2 DEF Claim
  <2> QED BY <2>1, <2>2
<1>4. ASSUME NEW outcome \in Finished, EndRun(outcome), StillMine PROVE FeedbackMoves(t)
  <2>1. CASE exec.task = t
    BY <1>4, <1>a, <1>b, <2>1 DEF EndRun, StillMine, TaskRows, FeedbackMoves
  <2>2. CASE exec.task # t BY <1>4, <1>a, <1>c, <2>2 DEF EndRun
  <2> QED BY <2>1, <2>2
<1>5. CASE RefuseFeedback
  <2>1. CASE conv.item.task = t /\ MayHandBack(t, conv.item.again)
    <3>1. task'[t] = [task[t] EXCEPT !.fb = "SUPPRESSED"] BY <1>5, <1>a, <2>1 DEF RefuseFeedback
    <3>2. conv.pc = "begin" /\ Owed(t) BY <1>5, <2>1 DEF RefuseFeedback, MayHandBack
    <3> HIDE DEF Owed
    <3> QED BY <1>b, <2>1, <3>1, <3>2 DEF TaskRows, FeedbackMoves
  <2>2. CASE ~(conv.item.task = t /\ MayHandBack(t, conv.item.again))
    <3> HIDE DEF MayHandBack
    <3> QED BY <1>5, <1>a, <1>c, <2>2 DEF RefuseFeedback
  <2> QED BY <2>1, <2>2
<1>6. CASE SaveFeedback
  <2> DEFINE saved == FeedbackState(turn[conv.item.task][conv.ep])
  <2>1. /\ conv.pc = "save" /\ conv'.pc \notin {"advance", "turn", "save"}
        /\ \/ task' = task
           \/ /\ task[conv.item.task].state # "CANCELLED"
              /\ task' = [task EXCEPT ![conv.item.task].fb = saved, ![conv.item.task].fbEp = conv.ep]
    BY <1>6 DEF SaveFeedback, At
  <2> HIDE DEF saved
  <2>2. CASE conv.item.task = t /\ task' # task
    <3>1. task'[t].state = task[t].state /\ task'[t].fb = saved
      BY <1>a, <1>b, <2>1, <2>2 DEF TaskRows
    <3> QED BY <2>1, <2>2, <3>1 DEF FeedbackMoves, saved
  <2>3. CASE conv.item.task # t \/ task' = task BY <1>a, <1>c, <2>1, <2>3
  <2> QED BY <2>2, <2>3
<1>7. CASE RecordFailure
  <2>1. task' = task \/ task' = HandbackFailed(conv.item.task, conv.item.short)
    BY <1>7 DEF RecordFailure
  <2>2. task'[t].state = task[t].state /\ task'[t].fb = task[t].fb
    BY <1>a, <1>b, <2>1 DEF HandbackFailed, TaskRows
  <2> QED BY <2>2 DEF FeedbackMoves
<1>8. CASE CloseOrphan
  <2>1. PICK found \in sweep.todo :
            \/ task' = task
            \/ /\ task[found[1]].state = "RUNNING"
               /\ task' = [task EXCEPT ![found[1]].state = "BLOCKED", ![found[1]].fb = "READY",
                                       ![found[1]].fence = @ + 1]
    BY <1>8 DEF CloseOrphan
  <2>2. CASE found[1] = t /\ task' # task
    BY <1>a, <1>b, <2>1, <2>2 DEF TaskRows, FeedbackMoves, Finished
  <2>3. CASE found[1] # t \/ task' = task BY <1>a, <1>c, <2>1, <2>3
  <2> QED BY <2>2, <2>3
<1>9. CASE GiveUp
  <2>1. CASE sweep.task = t /\ task' # task
    <3>1. /\ sweep.pc = "act" /\ sweep.step = "give_up" /\ task[t].fb \notin Taken
          /\ sweep'.pc = "lost" /\ sweep'.todo = sweep.todo
          /\ task'[t] = [task[t] EXCEPT !.fb = "UNDELIVERABLE"]
      BY <1>9, <1>a, <2>1 DEF GiveUp
    <3> QED BY <1>b, <2>1, <3>1 DEF TaskRows, FeedbackMoves
  <2>2. CASE sweep.task # t \/ task' = task BY <1>9, <1>a, <1>c, <2>2 DEF GiveUp
  <2> QED BY <2>1, <2>2
<1>10. ASSUME NEW s \in Tasks, task' = Cancelled(s) PROVE FeedbackMoves(t)
  <2>1. CASE s = t BY <1>10, <1>a, <1>b, <2>1 DEF Cancelled, TaskRows, FeedbackMoves
  <2>2. CASE s # t BY <1>10, <1>a, <1>c, <2>2 DEF Cancelled
  <2> QED BY <2>1, <2>2
<1>11. CASE \E s \in Tasks : Cancel(s) \/ StopCancels(s)
  BY <1>10, <1>11 DEF Cancel, StopCancels
<1>12. CASE Start
  <2>1. ~up /\ task'[t] = Recovered(t) BY <1>12 DEF Start
  <2>2. CASE ReadTurn(t) /\ task'[t] = [task[t] EXCEPT !.fb = "DELIVERED"]
    <3> HIDE DEF ReadTurn
    <3> QED BY <1>b, <2>1, <2>2 DEF TaskRows, FeedbackMoves
  <2>3. CASE task[t].state = "RUNNING" /\ task'[t] = [task[t] EXCEPT !.state = "BLOCKED",
                                               !.fb = "READY", !.fence = @ + 1]
    BY <1>b, <2>3 DEF TaskRows, FeedbackMoves, Finished
  <2> QED BY <1>c, <2>1, <2>2, <2>3 DEF Recovered
<1>13. ASSUME NEW s \in Tasks, LeaseExpires(s) PROVE FeedbackMoves(t)
  <2>1. task' = [task EXCEPT ![s].lease = FALSE] BY <1>13 DEF LeaseExpires
  <2>2. task'[t].state = task[t].state /\ task'[t].fb = task[t].fb BY <1>a, <1>b, <2>1 DEF TaskRows
  <2> QED BY <2>2 DEF FeedbackMoves
<1>14. CASE ExecStep
  BY <1>14, <1>1, <1>3, <1>4 DEF ExecStep, FinishRun, FailRun, ValidRun, Finished
<1>15. CASE ConvStep BY <1>15, <1>1, <1>5, <1>6, <1>7 DEF ConvStep
<1>16. CASE SweepStep BY <1>16, <1>2, <1>8, <1>9 DEF SweepStep
<1>17. CASE HostStep BY <1>17, <1>2, <1>11, <1>12 DEF HostStep
<1>18. CASE Environment BY <1>18, <1>2, <1>11, <1>13 DEF Environment
<1> QED BY <1>14, <1>15, <1>16, <1>17, <1>18 DEF Next

(* So every action moves every row as RowMoves says. *)
LEMMA RowsMove == ASSUME Inv, Next, NEW t \in Tasks PROVE RowMoves(t)
BY FeedbacksMove DEF FeedbackMoves, RowMoves, Finished, Owed, ReadTurn, Taken

(* Cancelling closes the feedback: no row is cancelled with its result open. *)
CancelledClosed == \A t \in Tasks : task[t].state = "CANCELLED" => task[t].fb = "SUPPRESSED"

(* The inductive invariant of the rows. *)
RowsInv == Inv /\ CancelledClosed

(* No task is cancelled at first, and a cancelled one stays closed. *)
LEMMA RowsInvInit == Init => RowsInv
BY InvInit DEF RowsInv, CancelledClosed, Init

LEMMA RowsInvNext == ASSUME RowsInv, [Next]_vars PROVE RowsInv'
<1>1. Inv' BY InvNext, InvStutter DEF RowsInv
<1>2. CASE Next BY <1>1, <1>2, RowsMove DEF RowsInv, CancelledClosed, RowMoves
<1>3. CASE UNCHANGED vars BY <1>1, <1>3 DEF RowsInv, CancelledClosed, vars, rows
<1> QED BY <1>2, <1>3

(* Type correctness of every reachable state, for any tasks and any bounds. *)
THEOREM TypeCorrect == Spec => []TypeOK
<1>1. Inv /\ [Next]_vars => Inv' BY InvNext, InvStutter
<1>2. Inv => TypeOK BY DEF Inv
<1> QED BY InvInit, <1>1, <1>2, PTL DEF Spec

(* No worker, sweep or restart changes the state of a finished result: only *)
(* a cancellation does (TaskService.valid and the fences).                  *)
THEOREM FinishedStands == Spec => ResultStands
<1>1. ASSUME RowsInv, [Next]_vars
      PROVE  [\A t \in Tasks : task[t].state \in Finished =>
                               task'[t].state \in {task[t].state, "CANCELLED"}]_vars
  BY <1>1, RowsMove DEF RowsInv, RowMoves
<1>2. RowsInv /\ [Next]_vars => RowsInv' BY RowsInvNext
<1> QED BY RowsInvInit, <1>1, <1>2, PTL DEF Spec, ResultStands

(* A cancellation is final, whatever was under way for the task. *)
THEOREM CancelledForGood == Spec => CancelIsFinal
<1>1. ASSUME RowsInv, [Next]_vars
      PROVE  [\A t \in Tasks : task[t].state = "CANCELLED" =>
                  task'[t].state = "CANCELLED" /\ task'[t].fb = "SUPPRESSED"]_vars
  BY <1>1, RowsMove DEF RowsInv, RowMoves, CancelledClosed
<1>2. RowsInv /\ [Next]_vars => RowsInv' BY RowsInvNext
<1> QED BY RowsInvInit, <1>1, <1>2, PTL DEF Spec, CancelIsFinal

(* Both: no stale worker, turn, sweep or restart takes back what was settled. *)
THEOREM SettledForGood == Spec => SettledStands
BY FinishedStands, CancelledForGood DEF SettledStands

-----------------------------------------------------------------------------
(* The queue of hand-backs.                                                  *)


(* The conversation worker ends a hand-back that stays on its way. *)
Kept == conv.pc \in {"leave", "raised"} /\ conv.kept

(* The hand-back at any of the worker's program counters. *)
Held(t) == conv.pc # "idle" /\ conv.item.task = t

(* No task has two entries in the queue. *)
Alone == \A i, j \in 1..Len(pending) : pending[i].task = pending[j].task => i = j

(* A hand-back that stays on its way is in the queue again. *)
KeptIsQueued == Kept => stopping \/ Queued(conv.item.task)

(* The inductive invariant of what is marked as on its way. *)
CarriedInv == Inv /\ NoForgottenHandback /\ KeptIsQueued

(* The inductive invariant of a queue no restart puts anything back into. *)
NoRestart == left["restart"] = 0 /\ ~restartPending
(* What the worker has is queued again only when it is being kept. *)
HeldOnce == \A t \in Tasks : Queued(t) /\ Held(t) => Kept
(* What is queued or in the worker is marked as on its way. *)
MarkedOnWay == \A t \in Tasks : Queued(t) \/ Held(t) => t \in handbacks
OnceInv == Inv /\ NoRestart /\ Alone /\ HeldOnce /\ MarkedOnWay

(* The part of the types that the queue needs. *)
Typed == handbacks \subseteq Tasks /\ pending \in Seq(Handbacks)

(* It follows from the invariant of the types. *)
LEMMA InvTyped == Inv => Typed
BY DEF Inv, TypeOK, ConvTyped, Typed

(* Appending queues one more task, and keeps the queue without doubles. *)
LEMMA QueuedAppend ==
    ASSUME Typed, NEW item \in Handbacks, pending' = Append(pending, item)
    PROVE  /\ \A t : Queued(t)' <=> Queued(t) \/ t = item.task
           /\ Alone /\ ~Queued(item.task) => Alone'
<1>1. Len(pending') = Len(pending) + 1 /\ Len(pending) \in Nat
  BY AppendProperties, LenProperties DEF Typed
<1>2. \A i \in 1..Len(pending) : pending'[i] = pending[i]
  BY AppendProperties DEF Typed
<1>3. pending'[Len(pending) + 1] = item BY AppendProperties DEF Typed
<1>4. \A t : Queued(t)' <=> Queued(t) \/ t = item.task
  <2>1. ASSUME NEW t, Queued(t) PROVE Queued(t)' BY <1>1, <1>2, <2>1 DEF Queued
  <2>2. Queued(item.task)' BY <1>1, <1>3 DEF Queued
  <2>3. ASSUME NEW t, NEW i \in 1..Len(pending'), pending'[i].task = t
        PROVE  Queued(t) \/ t = item.task
    <3>1. CASE i = Len(pending) + 1 BY <1>3, <2>3, <3>1
    <3>2. CASE i # Len(pending) + 1
      <4>1. i \in 1..Len(pending) BY <1>1, <3>2
      <4> QED BY <1>2, <2>3, <4>1 DEF Queued
    <3> QED BY <3>1, <3>2
  <2> QED BY <2>1, <2>2, <2>3 DEF Queued
<1>5. ASSUME Alone, ~Queued(item.task) PROVE Alone'
  <2> SUFFICES ASSUME NEW i \in 1..Len(pending'), NEW j \in 1..Len(pending'),
                      pending'[i].task = pending'[j].task
               PROVE  i = j
    BY DEF Alone
  <2>1. CASE i \in 1..Len(pending) /\ j \in 1..Len(pending) BY <1>2, <1>5, <2>1 DEF Alone
  <2>2. ASSUME NEW k \in 1..Len(pending) PROVE pending'[k].task # item.task
    BY <1>2, <1>5 DEF Queued
  <2> QED BY <1>1, <1>3, <2>1, <2>2
<1> QED BY <1>4, <1>5

(* Taking the first entry takes one task out of a queue without doubles. *)
LEMMA QueuedTail ==
    ASSUME Typed, pending # <<>>, pending' = Tail(pending)
    PROVE  /\ Head(pending) \in Handbacks
           /\ \A t : Queued(t) => Queued(t)' \/ t = Head(pending).task
           /\ \A t : Queued(t)' => Queued(t)
           /\ Queued(Head(pending).task)
           /\ Alone => Alone' /\ \A t : t = Head(pending).task => ~Queued(t)'
<1>1. /\ Len(pending') = Len(pending) - 1 /\ Len(pending) \in Nat /\ Len(pending) > 0
      /\ \A i \in 1..Len(pending') : pending'[i] = pending[i + 1]
      /\ Head(pending) = pending[1] /\ Head(pending) \in Handbacks
  BY HeadTailProperties, LenProperties, EmptySeq DEF Typed
<1>2. ASSUME NEW t, NEW i \in 1..Len(pending), pending[i].task = t
      PROVE  Queued(t)' \/ t = Head(pending).task
  <2>1. CASE i = 1 BY <1>1, <1>2, <2>1
  <2>2. CASE i # 1
    <3>1. i - 1 \in 1..Len(pending') /\ (i - 1) + 1 = i BY <1>1, <2>2
    <3>2. pending'[i - 1] = pending[i] BY <1>1, <3>1
    <3> QED BY <1>2, <3>1, <3>2 DEF Queued
  <2> QED BY <2>1, <2>2
<1>3. ASSUME NEW t, NEW i \in 1..Len(pending'), pending'[i].task = t PROVE Queued(t)
  <2>1. i + 1 \in 1..Len(pending) BY <1>1
  <2> QED BY <1>1, <1>3, <2>1 DEF Queued
<1>4. Queued(Head(pending).task) BY <1>1 DEF Queued
<1>5. ASSUME Alone PROVE Alone' /\ \A t : t = Head(pending).task => ~Queued(t)'
  <2>1. ASSUME NEW i \in 1..Len(pending'), NEW j \in 1..Len(pending'),
               pending'[i].task = pending'[j].task
        PROVE  i = j
    <3>1. i + 1 \in 1..Len(pending) /\ j + 1 \in 1..Len(pending) BY <1>1
    <3>2. i + 1 = j + 1 BY <1>1, <1>5, <2>1, <3>1 DEF Alone
    <3> QED BY <3>2
  <2>2. ASSUME NEW i \in 1..Len(pending'), pending'[i].task = Head(pending).task PROVE FALSE
    <3>1. i + 1 \in 1..Len(pending) /\ 1 \in 1..Len(pending) /\ i + 1 # 1 BY <1>1
    <3>2. pending[i + 1].task = pending[1].task BY <1>1, <2>2
    <3>3. i + 1 = 1 BY <1>5, <3>1, <3>2 DEF Alone
    <3> QED BY <3>1, <3>3
  <2>3. Alone' BY <2>1 DEF Alone
  <2>4. \A t : t = Head(pending).task => ~Queued(t)' BY <2>2 DEF Queued
  <2> QED BY <2>3, <2>4
<1> QED BY <1>1, <1>2, <1>3, <1>4, <1>5 DEF Queued

(* The steps within a hand-back keep the item and the queue. *)
WithinHandback == \/ RefuseFeedback \/ BeginFeedback \/ Advance \/ SaveFeedback \/ SettleAsking
                  \/ RaiseInFeedback \/ RecordFailure
                  \/ \E outcome \in TurnOutcomes : EndTurn(outcome)

(* They leave what is on its way as it was. *)
LEMMA WithinKeeps ==
    ASSUME Inv, WithinHandback
    PROVE  /\ UNCHANGED <<handbacks, pending>>
           /\ conv.pc # "idle" /\ conv'.pc # "idle" /\ conv'.item = conv.item
           /\ Kept' <=> Kept
<1>1. CASE RefuseFeedback BY <1>1 DEF RefuseFeedback, Leave, Kept
<1>2. CASE BeginFeedback BY <1>2 DEF BeginFeedback, At, Kept
<1>3. CASE Advance BY <1>3 DEF Advance, At, Kept
<1>4. CASE SaveFeedback BY <1>4 DEF SaveFeedback, At, Kept
<1>5. CASE SettleAsking BY <1>5 DEF SettleAsking, At, Kept
<1>6. CASE RaiseInFeedback BY <1>6 DEF RaiseInFeedback, Raise, Kept
<1>7. CASE RecordFailure
  <2>1. conv \in [pc : {"begin", "leave", "raised"}, item : Handbacks, kept : BOOLEAN]
    BY <1>7, ConvParts DEF Inv, TypeOK, RecordFailure
  <2> QED BY <1>7, <2>1 DEF RecordFailure, Kept
<1>8. ASSUME NEW outcome \in TurnOutcomes, EndTurn(outcome)
      PROVE  /\ UNCHANGED <<handbacks, pending>>
             /\ conv.pc # "idle" /\ conv'.pc # "idle" /\ conv'.item = conv.item
             /\ Kept' <=> Kept
  BY <1>8 DEF EndTurn, At, Kept
<1> QED BY <1>1, <1>2, <1>3, <1>4, <1>5, <1>6, <1>7, <1>8 DEF WithinHandback

(* The steps that touch neither the queue of hand-backs nor their worker. *)
ElsewhereStep ==
    \/ TakeTask \/ Claim \/ LeaveUnclaimed \/ (\E outcome \in Finished : FinishRun(outcome))
    \/ FailRun \/ AbandonRun
    \/ BeginSweep \/ FindOrphans \/ CloseOrphan \/ FindLost \/ (\E t \in Tasks : Decide(t))
    \/ GiveUp \/ EndSweep \/ RestartPends \/ RestartWithdrawn \/ BeginStop
    \/ (\E t \in Tasks : StopCancels(t)) \/ Start \/ Environment

(* They leave the queue and its worker alone, and no stop is undone. *)
LEMMA ElsewhereKeeps == ASSUME ElsewhereStep
    PROVE UNCHANGED convVars /\ (UNCHANGED stopping \/ stopping')
<1>1. CASE \/ TakeTask \/ Claim \/ LeaveUnclaimed \/ FailRun \/ AbandonRun
           \/ \E outcome \in Finished : FinishRun(outcome)
  BY <1>1 DEF TakeTask, Claim, LeaveUnclaimed, FinishRun, FailRun, EndRun, AbandonRun, lifecycle
<1>2. CASE \/ BeginSweep \/ FindOrphans \/ CloseOrphan \/ FindLost \/ GiveUp \/ EndSweep
           \/ \E t \in Tasks : Decide(t)
  BY <1>2 DEF BeginSweep, FindOrphans, CloseOrphan, FindLost, Decide, GiveUp, EndSweep, lifecycle
<1>3. CASE \/ RestartPends \/ RestartWithdrawn \/ BeginStop \/ Start \/ Environment
           \/ \E t \in Tasks : StopCancels(t)
  BY <1>3 DEF RestartPends, RestartWithdrawn, BeginStop, Start, StopCancels, Environment, Cancel,
              PolicyChanges, LeaseExpires, FollowUpSettles, lifecycle
<1> QED BY <1>1, <1>2, <1>3 DEF ElsewhereStep

(* The next-state relation, by what its steps do to the queue. *)
LEMMA NextByQueue ==
    Next => \/ ElsewhereStep \/ WithinHandback \/ ReportRun \/ HandBackAgain \/ TakeHandback
            \/ HoldHandback \/ ReturnResult \/ LeaveHandback \/ EndProcess
BY DEF Next, ExecStep, ConvStep, SweepStep, HostStep, ElsewhereStep, WithinHandback

(* Handing back a task that is on its way changes nothing; another is queued. *)
LEMMA HandsBack ==
    ASSUME Inv, ReportRun \/ HandBackAgain
    PROVE  /\ UNCHANGED <<conv, lifecycle>>
           /\ \/ UNCHANGED <<handbacks, pending>>
              \/ \E item \in Handbacks : /\ item.task \notin handbacks
                                         /\ handbacks' = handbacks \cup {item.task}
                                         /\ pending' = Append(pending, item)
<1>1. ASSUME NEW t \in Tasks, NEW short \in BOOLEAN, NEW again \in BOOLEAN, HandBack(t, short,
again)
      PROVE  \/ UNCHANGED <<handbacks, pending>>
             \/ \E item \in Handbacks : /\ item.task \notin handbacks
                                        /\ handbacks' = handbacks \cup {item.task}
                                        /\ pending' = Append(pending, item)
  <2>1. [task |-> t, short |-> short, again |-> again] \in Handbacks BY DEF Handbacks
  <2> QED BY <1>1, <2>1 DEF HandBack
<1>2. CASE ReportRun
  <2>1. exec.task \in Tasks BY <1>2, ExecParts DEF Inv, TypeOK, ReportRun
  <2>2. \/ UNCHANGED <<handbacks, pending>>
        \/ HandBack(exec.task, FALSE, FALSE)
    BY <1>2 DEF ReportRun
  <2>3. UNCHANGED <<conv, lifecycle>> BY <1>2 DEF ReportRun
  <2> QED BY <1>1, <2>1, <2>2, <2>3
<1>3. CASE HandBackAgain
  <2>1. sweep.task \in Tasks BY <1>3, SweepParts DEF Inv, TypeOK, HandBackAgain
  <2>2. HandBack(sweep.task, sweep.step = "short", TRUE) BY <1>3 DEF HandBackAgain
  <2>3. UNCHANGED <<conv, lifecycle>> BY <1>3 DEF HandBackAgain
  <2>4. (sweep.step = "short") \in BOOLEAN OBVIOUS
  <2> HIDE DEF HandBack
  <2> QED BY <1>1, <2>1, <2>2, <2>3, <2>4
<1> QED BY <1>2, <1>3

(* A turn whose output failed leaves its hand-back queued, unless the Host stops. *)
LEMMA Returns ==
    ASSUME ReturnResult
    PROVE  /\ conv.pc = "result" /\ conv'.pc # "idle" /\ conv'.item = conv.item
           /\ UNCHANGED <<handbacks, lifecycle>> /\ UNCHANGED stopping
           /\ \/ pending' = pending
              \/ Kept' /\ pending' = Append(pending, conv.item)
           /\ Kept' => stopping \/ pending' = Append(pending, conv.item)
<1> DEFINE kept == turn[conv.item.task][conv.ep] = "FAILED_PROTOCOL"
<1>1. /\ conv.pc = "result" /\ UNCHANGED <<handbacks, lifecycle>> /\ UNCHANGED stopping
      /\ pending' = IF kept /\ ~stopping THEN Append(pending, conv.item) ELSE pending
      /\ \E pc \in {"leave", "raised"} : conv' = [pc |-> pc, item |-> conv.item, kept |-> kept]
  BY DEF ReturnResult, lifecycle
<1>2. kept \in BOOLEAN OBVIOUS
<1> HIDE DEF kept
<1>3. Kept' <=> kept BY <1>1 DEF Kept
<1> QED BY <1>1, <1>2, <1>3

(* CarriedInv is inductive. *)
LEMMA CarriedNext == ASSUME CarriedInv, [Next]_vars PROVE CarriedInv'
<1> USE DEF CarriedInv
<1>a. Inv' BY InvNext, InvStutter
<1>b. Typed BY InvTyped
<1>1. CASE ElsewhereStep \/ UNCHANGED vars
  <2>1. UNCHANGED <<handbacks, pending, conv>> /\ (UNCHANGED stopping \/ stopping')
    BY <1>1, ElsewhereKeeps DEF convVars, vars, lifecycle
  <2> QED BY <1>a, <2>1 DEF NoForgottenHandback, KeptIsQueued, Kept, Queued
<1>2. CASE WithinHandback
  <2>1. UNCHANGED stopping
    BY <1>2 DEF WithinHandback, RefuseFeedback, BeginFeedback, Advance, SaveFeedback, SettleAsking,
                RaiseInFeedback, RecordFailure, EndTurn, lifecycle
  <2> QED BY <1>2, <1>a, <2>1, WithinKeeps DEF NoForgottenHandback, KeptIsQueued, Queued
<1>3. CASE ReportRun \/ HandBackAgain
  <2>1. CASE UNCHANGED <<handbacks, pending>>
    BY <1>3, <1>a, <2>1, HandsBack DEF NoForgottenHandback, KeptIsQueued, Kept, Queued, lifecycle
  <2>2. ASSUME NEW item \in Handbacks, handbacks' = handbacks \cup {item.task},
               pending' = Append(pending, item)
        PROVE  CarriedInv'
    <3>1. UNCHANGED <<conv, stopping>> BY <1>3, HandsBack DEF lifecycle
    <3>2. \A t : Queued(t)' <=> Queued(t) \/ t = item.task BY <1>b, <2>2, QueuedAppend
    <3>3. NoForgottenHandback' BY <2>2, <3>1, <3>2 DEF NoForgottenHandback
    <3>4. KeptIsQueued' BY <3>1, <3>2 DEF KeptIsQueued, Kept
    <3> QED BY <1>a, <3>3, <3>4
  <2> QED BY <1>3, <2>1, <2>2, HandsBack
<1>4. CASE TakeHandback
  <2>1. /\ pending # <<>> /\ pending' = Tail(pending) /\ conv.pc = "idle"
        /\ conv' = [pc |-> "held", item |-> Head(pending)] /\ UNCHANGED <<handbacks, stopping>>
    BY <1>4 DEF TakeHandback, lifecycle
  <2>2. \A t : Queued(t) => Queued(t)' \/ t = Head(pending).task BY <1>b, <2>1, QueuedTail
  <2>3. NoForgottenHandback' BY <2>1, <2>2 DEF NoForgottenHandback
  <2>4. KeptIsQueued' BY <2>1 DEF KeptIsQueued, Kept
  <2> QED BY <1>a, <2>3, <2>4
<1>5. CASE HoldHandback
  <2>1. /\ conv.pc = "held" /\ conv'.pc # "idle" /\ conv'.item = conv.item /\ ~Kept'
        /\ UNCHANGED <<handbacks, stopping>>
        /\ pending' = pending \/ pending' = Append(pending, conv.item)
    BY <1>5 DEF HoldHandback, Kept, lifecycle
  <2>2. conv.item \in Handbacks BY <2>1, ConvParts DEF Inv, TypeOK
  <2>3. \A t : Queued(t) => Queued(t)' BY <1>b, <2>1, <2>2, QueuedAppend DEF Queued
  <2> QED BY <1>a, <2>1, <2>3 DEF NoForgottenHandback, KeptIsQueued
<1>6. CASE ReturnResult
  <2>1. /\ conv.pc = "result" /\ conv'.pc # "idle" /\ conv'.item = conv.item
        /\ UNCHANGED <<handbacks, stopping>>
        /\ pending' = pending \/ pending' = Append(pending, conv.item)
        /\ Kept' => stopping \/ pending' = Append(pending, conv.item)
    BY <1>6, Returns
  <2>2. conv.item \in Handbacks BY <2>1, ConvParts DEF Inv, TypeOK
  <2>3. \A t : Queued(t) => Queued(t)' BY <1>b, <2>1, <2>2, QueuedAppend DEF Queued
  <2>4. pending' = Append(pending, conv.item) => \A t : t = conv.item.task => Queued(t)'
    BY <1>b, <2>2, QueuedAppend
  <2>5. NoForgottenHandback' BY <2>1, <2>3 DEF NoForgottenHandback
  <2>6. KeptIsQueued' BY <2>1, <2>4 DEF KeptIsQueued
  <2> QED BY <1>a, <2>5, <2>6
<1>7. CASE LeaveHandback
  <2>1. /\ conv.pc = "leave" /\ conv'.pc = "idle" /\ UNCHANGED <<pending, stopping>>
        /\ handbacks' = IF conv.kept THEN handbacks ELSE handbacks \ {conv.item.task}
    BY <1>7 DEF LeaveHandback, IdleConv, lifecycle
  <2> QED BY <1>a, <2>1 DEF NoForgottenHandback, KeptIsQueued, Kept, Queued
<1>8. CASE EndProcess
  BY <1>8, <1>a DEF EndProcess, IdleConv, NoForgottenHandback, KeptIsQueued, Kept
<1> QED BY <1>1, <1>2, <1>3, <1>4, <1>5, <1>6, <1>7, <1>8, NextByQueue

(* No result is marked as on its way while neither the queue nor the        *)
(* conversation worker carries it: Chat.hand_back and the `finally` of _work *)
(* keep the set and the queue in step, whatever raises and in any order.    *)
THEOREM CarriedWhileMarked == Spec => []NoForgottenHandback
<1>1. Init => CarriedInv
  BY InvInit DEF CarriedInv, Init, NoForgottenHandback, KeptIsQueued, Kept, IdleConv
<1>2. CarriedInv /\ [Next]_vars => CarriedInv' BY CarriedNext
<1>3. CarriedInv => NoForgottenHandback BY DEF CarriedInv
<1> QED BY <1>1, <1>2, <1>3, PTL DEF Spec

(* A bound is spent, never earned: without a restart to spend none pends. *)
LEMMA NoRestartNext == ASSUME Inv, NoRestart, [Next]_vars PROVE NoRestart'
<1>1. left \in [Disturbances -> Nat] BY DEF Inv, TypeOK, LeftTyped
<1>2. ASSUME NEW kind \in Disturbances, kind # "restart", Spend(kind) PROVE left'["restart"] = 0
  BY <1>1, <1>2 DEF Spend, NoRestart, Disturbances
<1>3. left' = left => left'["restart"] = 0 BY DEF NoRestart
<1> USE DEF Disturbances
<1>4. CASE ExecStep
  <2>1. left'["restart"] = 0
    BY <1>2, <1>3, <1>4 DEF ExecStep, TakeTask, Claim, LeaveUnclaimed, FinishRun, FailRun,
       EndRun, AbandonRun, ReportRun
  <2>2. UNCHANGED lifecycle
    BY <1>4 DEF ExecStep, TakeTask, Claim, LeaveUnclaimed, FinishRun, FailRun, EndRun,
       AbandonRun, ReportRun
  <2> QED BY <2>1, <2>2 DEF NoRestart, lifecycle
<1>5. CASE ConvStep
  <2>1. left'["restart"] = 0
    BY <1>2, <1>3, <1>5 DEF ConvStep, TakeHandback, HoldHandback, RefuseFeedback, BeginFeedback,
       Advance,
       EndTurn, SaveFeedback, SettleAsking, ReturnResult, RaiseInFeedback, RecordFailure,
       LeaveHandback
  <2>2. UNCHANGED lifecycle
    BY <1>5 DEF ConvStep, TakeHandback, HoldHandback, RefuseFeedback, BeginFeedback, Advance,
       EndTurn, SaveFeedback, SettleAsking, ReturnResult, RaiseInFeedback, RecordFailure,
       LeaveHandback
  <2> QED BY <2>1, <2>2 DEF NoRestart, lifecycle
<1>6. CASE SweepStep
  <2>1. left'["restart"] = 0
    BY <1>2, <1>3, <1>6 DEF SweepStep, BeginSweep, FindOrphans, CloseOrphan, FindLost, Decide,
       HandBackAgain, GiveUp, EndSweep
  <2>2. UNCHANGED lifecycle
    BY <1>6 DEF SweepStep, BeginSweep, FindOrphans, CloseOrphan, FindLost, Decide,
       HandBackAgain, GiveUp, EndSweep
  <2> QED BY <2>1, <2>2 DEF NoRestart, lifecycle
<1>7. CASE HostStep
  <2>1. ~RestartPends BY DEF RestartPends, Spend, NoRestart
  <2>2. left'["restart"] = 0
    BY <1>2, <1>3, <1>7, <2>1 DEF HostStep, RestartWithdrawn, BeginStop, StopCancels, EndProcess,
       Start
  <2>3. ~restartPending'
    BY <1>7, <2>1 DEF HostStep, RestartWithdrawn, BeginStop, StopCancels, EndProcess, Start,
       NoRestart, lifecycle
  <2> QED BY <2>2, <2>3 DEF NoRestart
<1>8. CASE Environment
  <2>1. left'["restart"] = 0
    BY <1>2, <1>3, <1>8 DEF Environment, Cancel, PolicyChanges, LeaseExpires, FollowUpSettles
  <2>2. UNCHANGED lifecycle
    BY <1>8 DEF Environment, Cancel, PolicyChanges, LeaseExpires, FollowUpSettles
  <2> QED BY <2>1, <2>2 DEF NoRestart, lifecycle
<1>9. CASE UNCHANGED vars BY <1>9 DEF NoRestart, vars, lifecycle
<1> QED BY <1>4, <1>5, <1>6, <1>7, <1>8, <1>9 DEF Next

(* OnceInv is inductive. *)
LEMMA OnceNext == ASSUME OnceInv, [Next]_vars PROVE OnceInv'
<1> USE DEF OnceInv
<1>a. Inv' /\ NoRestart' BY InvNext, InvStutter, NoRestartNext
<1>b. Typed BY InvTyped
<1>1. CASE ElsewhereStep \/ UNCHANGED vars
  <2>1. UNCHANGED <<handbacks, pending, conv>> BY <1>1, ElsewhereKeeps DEF convVars, vars
  <2> QED BY <1>a, <2>1 DEF Alone, HeldOnce, MarkedOnWay, Kept, Held, Queued
<1>2. CASE WithinHandback
  <2>1. Alone' BY <1>2, WithinKeeps DEF Alone
  <2>2. \A t : (Queued(t)' <=> Queued(t)) /\ (Held(t)' <=> Held(t))
    BY <1>2, WithinKeeps DEF Queued, Held
  <2> QED BY <1>2, <1>a, <2>1, <2>2, WithinKeeps DEF HeldOnce, MarkedOnWay
<1>3. CASE ReportRun \/ HandBackAgain
  <2>1. CASE UNCHANGED <<handbacks, pending>>
    BY <1>3, <1>a, <2>1, HandsBack DEF Alone, HeldOnce, MarkedOnWay, Kept, Held, Queued
  <2>2. ASSUME NEW item \in Handbacks, item.task \notin handbacks,
               handbacks' = handbacks \cup {item.task}, pending' = Append(pending, item)
        PROVE  OnceInv'
    <3>1. UNCHANGED conv BY <1>3, HandsBack
    <3>2. item.task \in Tasks BY DEF Handbacks
    <3>3. ~Queued(item.task) /\ ~Held(item.task) BY <2>2, <3>2 DEF MarkedOnWay
    <3>4. Alone' /\ \A t : Queued(t)' <=> Queued(t) \/ t = item.task
      BY <1>b, <2>2, <3>3, QueuedAppend
    <3>5. \A t : Held(t)' <=> Held(t) BY <3>1 DEF Held
    <3>6. HeldOnce' BY <3>1, <3>3, <3>4, <3>5 DEF HeldOnce, Kept
    <3>7. MarkedOnWay' BY <2>2, <3>4, <3>5 DEF MarkedOnWay
    <3> QED BY <1>a, <3>4, <3>6, <3>7
  <2> QED BY <1>3, <2>1, <2>2, HandsBack
<1>4. CASE TakeHandback
  <2>1. /\ pending # <<>> /\ pending' = Tail(pending) /\ conv.pc = "idle"
        /\ conv' = [pc |-> "held", item |-> Head(pending)] /\ UNCHANGED handbacks
    BY <1>4 DEF TakeHandback
  <2>2. /\ Alone' /\ \A t : t = Head(pending).task => ~Queued(t)'
        /\ Queued(Head(pending).task) /\ \A t : Queued(t)' => Queued(t)
    BY <1>b, <2>1, QueuedTail
  <2>3. \A t : Held(t)' <=> t = Head(pending).task BY <2>1 DEF Held
  <2>4. HeldOnce' BY <2>2, <2>3 DEF HeldOnce
  <2>5. MarkedOnWay' BY <2>1, <2>2, <2>3 DEF MarkedOnWay
  <2> QED BY <1>a, <2>2, <2>4, <2>5
<1>5. CASE HoldHandback
  <2>1. /\ conv.pc = "held" /\ conv'.pc # "idle" /\ conv'.item = conv.item
        /\ UNCHANGED <<handbacks, pending>>
    BY <1>5 DEF HoldHandback, NoRestart
  <2>2. Alone' BY <2>1 DEF Alone
  <2>3. \A t : (Queued(t)' <=> Queued(t)) /\ (Held(t)' <=> Held(t)) BY <2>1 DEF Queued, Held
  <2> QED BY <1>a, <2>1, <2>2, <2>3 DEF HeldOnce, MarkedOnWay, Kept
<1>6. CASE ReturnResult
  <2>1. /\ conv.pc = "result" /\ conv'.pc # "idle" /\ conv'.item = conv.item /\ UNCHANGED handbacks
        /\ \/ pending' = pending
           \/ Kept' /\ pending' = Append(pending, conv.item)
    BY <1>6, Returns
  <2>2. conv.item \in Handbacks /\ conv.item.task \in Tasks BY <2>1, ConvParts DEF Inv, TypeOK
  <2>3. ~Queued(conv.item.task) BY <2>1, <2>2 DEF HeldOnce, Held, Kept
  <2>4. \A t : Held(t)' <=> Held(t) BY <2>1 DEF Held
  <2>5. CASE pending' = pending
    <3>1. Alone' /\ \A t : Queued(t)' <=> Queued(t) BY <2>5 DEF Alone, Queued
    <3>2. \A t : Held(t) => ~Queued(t) BY <2>3 DEF Held
    <3> QED BY <1>a, <2>1, <2>4, <3>1, <3>2 DEF HeldOnce, MarkedOnWay
  <2>6. CASE Kept' /\ pending' = Append(pending, conv.item)
    <3>1. Alone' /\ \A t : Queued(t)' <=> Queued(t) \/ t = conv.item.task
      BY <1>b, <2>2, <2>3, <2>6, QueuedAppend
    <3>2. Held(conv.item.task) BY <2>1 DEF Held
    <3> QED BY <1>a, <2>1, <2>2, <2>4, <2>6, <3>1, <3>2 DEF HeldOnce, MarkedOnWay
  <2> QED BY <2>1, <2>5, <2>6
<1>7. CASE LeaveHandback
  <2>1. /\ conv.pc = "leave" /\ conv'.pc = "idle" /\ UNCHANGED pending
        /\ handbacks' = IF conv.kept THEN handbacks ELSE handbacks \ {conv.item.task}
    BY <1>7 DEF LeaveHandback, IdleConv
  <2>2. Alone' /\ \A t : Queued(t)' <=> Queued(t) BY <2>1 DEF Alone, Queued
  <2>3. \A t : ~Held(t)' BY <2>1 DEF Held
  <2>4. conv.item.task \in Tasks BY <2>1, ConvParts DEF Inv, TypeOK
  <2>5. ~conv.kept => ~Queued(conv.item.task) BY <2>1, <2>4 DEF HeldOnce, Held, Kept
  <2>6. MarkedOnWay' BY <2>1, <2>2, <2>3, <2>5 DEF MarkedOnWay
  <2> QED BY <1>a, <2>2, <2>3, <2>6 DEF HeldOnce
<1>8. CASE EndProcess
  <2>1. pending' = <<>> /\ conv'.pc = "idle" BY <1>8 DEF EndProcess, IdleConv
  <2>2. Alone' /\ \A t : ~Queued(t)' /\ ~Held(t)' BY <2>1, EmptySeq DEF Alone, Queued, Held
  <2> QED BY <1>a, <2>2 DEF HeldOnce, MarkedOnWay
<1> QED BY <1>1, <1>2, <1>3, <1>4, <1>5, <1>6, <1>7, <1>8, NextByQueue

(* Nothing is on its way at first. *)
LEMMA OnceInit == ASSUME Bound["restart"] = 0, Init PROVE OnceInv
<1>1. pending = <<>> /\ conv.pc = "idle" /\ NoRestart BY DEF Init, IdleConv, NoRestart
<1>2. Alone /\ \A t : ~Queued(t) /\ ~Held(t) BY <1>1, EmptySeq DEF Alone, Queued, Held
<1> QED BY InvInit, <1>1, <1>2 DEF OnceInv, HeldOnce, MarkedOnWay

(* Without a pending worker restart a result is on its way at most once: the *)
(* queue holds it once, or the worker has it, and it is marked as such.      *)
THEOREM OnItsWayAtMostOnce == Bound["restart"] = 0 => (Spec => []OnItsWayOnce)
<1> SUFFICES ASSUME Bound["restart"] = 0 PROVE Spec => []OnItsWayOnce OBVIOUS
<1>1. Init => OnceInv BY OnceInit
<1>2. OnceInv /\ [Next]_vars => OnceInv' BY OnceNext
<1>3. OnceInv => OnItsWayOnce
  <2> SUFFICES ASSUME OnceInv PROVE OnItsWayOnce OBVIOUS
  <2>1. \A t : InHand(t) => Held(t) /\ ~Kept BY DEF InHand, Held, Kept
  <2> QED BY <2>1 DEF OnceInv, OnItsWayOnce, Alone, HeldOnce, MarkedOnWay
<1> QED BY <1>1, <1>2, <1>3, PTL DEF Spec
-----------------------------------------------------------------------------
(* The way of a result implements ResultDelivery.                             *)

(* What her hand-backs leave on a row besides the feedback itself. *)
Marks(t) == <<task[t].fbEp, task[t].failures, task[t].shortFailed>>

(* The marks of one row and her turns on it: only the worker that holds the *)
(* hand-back changes them, but for the turn a task delegated by it ends.    *)
MarksMove(t) ==
    /\ ~Held(t) \/ conv' = conv =>
           /\ Marks(t)' = Marks(t)
           /\ \A v \in Versions : \/ turn'[t][v] = turn[t][v]
                                  \/ turn[t][v] = "WAITING_TASK" /\ turn'[t][v] = "COMMITTED"
    /\ \A v \in Versions : turn'[t][v] = "NONE" => turn[t][v] = "NONE"
    /\ task[t].shortFailed => task'[t].shortFailed
    /\ task[t].failures # 0 => task'[t].failures # 0
    /\ task[t].fbEp # "none" => task'[t].fbEp # "none"

LEMMA MarksKept ==
    ASSUME NEW t \in Tasks, Marks(t)' = Marks(t), turn'[t] = turn[t]
    PROVE  MarksMove(t)
BY DEF MarksMove, Marks

LEMMA MarksAllMove == ASSUME Inv, Next, NEW t \in Tasks PROVE MarksMove(t)
<1> USE DEF Inv, TypeOK
<1>a. task \in [Tasks -> TaskRows] /\ turn \in [Tasks -> [Versions -> TurnStates]] BY DEF RowsTyped
<1>b. task[t] \in TaskRows /\ turn[t] \in [Versions -> TurnStates] BY <1>a
<1>c. task'[t] = task[t] /\ turn'[t] = turn[t] => MarksMove(t) BY MarksKept DEF Marks
<1>1. CASE \/ TakeTask \/ LeaveUnclaimed \/ AbandonRun \/ ReportRun
           \/ TakeHandback \/ HoldHandback \/ SettleAsking
           \/ ReturnResult \/ RaiseInFeedback \/ LeaveHandback
  BY <1>1, <1>c DEF TakeTask, LeaveUnclaimed, AbandonRun, ReportRun, TakeHandback, HoldHandback,
       SettleAsking, ReturnResult, RaiseInFeedback, LeaveHandback, rows
<1>2. CASE \/ BeginSweep \/ FindOrphans \/ FindLost \/ (\E s \in Tasks : Decide(s)) \/ HandBackAgain
           \/ EndSweep \/ RestartPends \/ RestartWithdrawn \/ BeginStop \/ EndProcess
           \/ (\E s \in Tasks : PolicyChanges(s))
  BY <1>2, <1>c DEF BeginSweep, FindOrphans, FindLost, Decide, HandBackAgain, EndSweep, RestartPends,
       RestartWithdrawn, BeginStop, EndProcess, PolicyChanges, rows
<1>3. CASE \/ Claim \/ (\E outcome \in Finished : EndRun(outcome)) \/ RefuseFeedback \/ CloseOrphan
           \/ GiveUp \/ (\E s \in Tasks : Cancel(s) \/ StopCancels(s) \/ LeaseExpires(s))
  <2>1. turn' = turn
    BY <1>3 DEF Claim, EndRun, RefuseFeedback, CloseOrphan, GiveUp, Cancel, StopCancels, LeaseExpires
  <2>2. Marks(t)' = Marks(t)
    <3>1. CASE Claim \/ (\E s \in Tasks : LeaseExpires(s))
      <4>1. \/ \E s : task' = [task EXCEPT ![s].state = "RUNNING", ![s].fence = @ + 1,
                                           ![s].lease = TRUE]
            \/ \E s : task' = [task EXCEPT ![s].lease = FALSE]
        BY <3>1 DEF Claim, LeaseExpires
      <4>2. \/ task'[t] = task[t]
            \/ task'[t] = [task[t] EXCEPT !.state = "RUNNING", !.fence = @ + 1, !.lease = TRUE]
            \/ task'[t] = [task[t] EXCEPT !.lease = FALSE]
        BY <1>a, <4>1
      <4> QED BY <1>b, <4>2 DEF Marks, TaskRows
    <3>2. CASE \E outcome \in Finished : EndRun(outcome)
      <4>1. \E s, outcome : task' = [task EXCEPT ![s].state = outcome, ![s].fb = "READY"]
        BY <3>2 DEF EndRun
      <4>2. \/ task'[t] = task[t]
            \/ \E outcome : task'[t] = [task[t] EXCEPT !.state = outcome, !.fb = "READY"]
        BY <1>a, <4>1
      <4> QED BY <1>b, <4>2 DEF Marks, TaskRows
    <3>3. CASE RefuseFeedback \/ GiveUp
      <4>1. \/ task' = task
            \/ \E s, fb : task' = [task EXCEPT ![s].fb = fb]
        BY <3>3 DEF RefuseFeedback, GiveUp
      <4>2. ASSUME NEW s, NEW fb, task' = [task EXCEPT ![s].fb = fb] PROVE Marks(t)' = Marks(t)
        BY <1>a, <1>b, <4>2 DEF Marks, TaskRows
      <4>3. CASE task' = task BY <4>3 DEF Marks
      <4> HIDE DEF Marks
      <4> QED BY <4>1, <4>2, <4>3
    <3>4. CASE CloseOrphan
      <4>1. \/ task' = task
            \/ \E s : task' = [task EXCEPT ![s].state = "BLOCKED", ![s].fb = "READY",
                                           ![s].fence = @ + 1]
        BY <3>4 DEF CloseOrphan
      <4>2. ASSUME NEW s, task' = [task EXCEPT ![s].state = "BLOCKED", ![s].fb = "READY",
                                               ![s].fence = @ + 1]
            PROVE  Marks(t)' = Marks(t)
        <5>1. CASE s = t
          <6>1. task'[t] = [task[t] EXCEPT !.state = "BLOCKED", !.fb = "READY", !.fence = @ + 1]
            BY <1>a, <4>2, <5>1
          <6> QED BY <1>b, <6>1 DEF Marks, TaskRows
        <5>2. CASE s # t BY <1>a, <4>2, <5>2 DEF Marks
        <5> QED BY <5>1, <5>2
      <4>3. CASE task' = task BY <4>3 DEF Marks
      <4> HIDE DEF Marks
      <4> QED BY <4>1, <4>2, <4>3
    <3>5. CASE \E s \in Tasks : Cancel(s) \/ StopCancels(s)
      <4>1. \E s : task' = Cancelled(s) BY <3>5 DEF Cancel, StopCancels
      <4>2. \/ task'[t] = task[t]
            \/ task'[t] = [task[t] EXCEPT !.state = "CANCELLED", !.fence = @ + 1, !.fb = "SUPPRESSED"]
        BY <1>a, <4>1 DEF Cancelled
      <4> QED BY <1>b, <4>2 DEF Marks, TaskRows
    <3> QED BY <1>3, <3>1, <3>2, <3>3, <3>4, <3>5
  <2> QED BY <2>1, <2>2, MarksKept
<1>4. CASE Start
  <2>1. task'[t] = Recovered(t) /\ turn' = turn BY <1>4 DEF Start
  <2>2. Marks(t)' = Marks(t)
    <3> HIDE DEF ReadTurn
    <3> QED BY <1>b, <2>1 DEF Recovered, Marks, TaskRows
  <2> QED BY <2>1, <2>2, MarksKept
<1>5. ASSUME NEW s \in Tasks, FollowUpSettles(s) PROVE MarksMove(t)
  <2>1. PICK v \in Versions : /\ turn[s][v] = "WAITING_TASK"
                              /\ turn' = [turn EXCEPT ![s][v] = "COMMITTED"] /\ task' = task
    BY <1>5 DEF FollowUpSettles
  <2> QED BY <1>a, <1>b, <2>1 DEF MarksMove, Marks
<1>6. ASSUME NEW new \in TurnStates \ {"NONE"}, NEW v \in Versions, conv.pc # "idle", conv'.pc # conv.pc,
             task' = task, turn' = turn \/ turn' = [turn EXCEPT ![conv.item.task][v] = new]
      PROVE  MarksMove(t)
  <2>1. CASE Held(t) BY <1>a, <1>b, <1>6, <2>1 DEF MarksMove
  <2>2. CASE ~Held(t) BY <1>a, <1>6, <1>c, <2>2 DEF Held
  <2> QED BY <2>1, <2>2
<1>7. CASE BeginFeedback
  <2>1. PICK v : turn' = turn \/ turn' = [turn EXCEPT ![conv.item.task][v] = "TURN"]
    BY <1>7 DEF BeginFeedback
  <2>2. CASE v \in Versions
    <3>1. /\ "TURN" \in TurnStates \ {"NONE"}
          /\ conv.pc # "idle" /\ conv'.pc # conv.pc /\ task' = task
      BY <1>7 DEF TurnStates, BeginFeedback, Resumable, At
    <3> QED BY <1>6, <2>1, <2>2, <3>1
  <2>3. CASE v \notin Versions
    <3>1. turn'[t] = turn[t] BY <1>a, <1>b, <2>1, <2>3
    <3> QED BY <1>7, <3>1, <1>c DEF BeginFeedback
  <2> QED BY <2>2, <2>3
<1>8. CASE Advance
  <2>1. conv.ep \in Versions /\ conv.pc # "idle" /\ conv'.pc # conv.pc /\ task' = task
    BY <1>8, ConvParts DEF Advance, At
  <2>2. \E new \in {"SUPPRESSED", "TURN"} : turn' = [turn EXCEPT ![conv.item.task][conv.ep] = new]
    BY <1>8 DEF Advance
  <2> QED BY <1>6, <2>1, <2>2 DEF TurnStates, Resumable
<1>9. ASSUME NEW outcome \in TurnOutcomes, EndTurn(outcome) PROVE MarksMove(t)
  <2>1. conv.ep \in Versions /\ conv.pc # "idle" /\ conv'.pc # conv.pc /\ task' = task
    BY <1>9, ConvParts DEF EndTurn, At
  <2>2. turn' = [turn EXCEPT ![conv.item.task][conv.ep] = outcome] BY <1>9 DEF EndTurn
  <2> QED BY <1>6, <2>1, <2>2 DEF TurnStates, TurnOutcomes
<1>10. CASE SaveFeedback
  <2>1. conv.ep \in Versions /\ conv.pc # "idle" /\ conv'.pc # conv.pc /\ turn' = turn
    BY <1>10, ConvParts DEF SaveFeedback, At
  <2>2. \/ task' = task
        \/ \E fb : task' = [task EXCEPT ![conv.item.task].fb = fb, ![conv.item.task].fbEp = conv.ep]
    BY <1>10 DEF SaveFeedback
  <2>3. CASE Held(t)
    <3>1. \/ task'[t] = task[t]
          \/ \E fb : task'[t] = [task[t] EXCEPT !.fb = fb, !.fbEp = conv.ep]
      BY <1>a, <2>2
    <3>2. /\ task'[t].shortFailed = task[t].shortFailed /\ task'[t].failures = task[t].failures
          /\ task'[t].fbEp \in {task[t].fbEp, conv.ep}
      BY <1>b, <3>1 DEF TaskRows
    <3> QED BY <2>1, <2>3, <3>2 DEF MarksMove, Versions
  <2>4. CASE ~Held(t) BY <1>a, <1>c, <2>1, <2>2, <2>4 DEF Held
  <2> QED BY <2>3, <2>4
<1>11. CASE RecordFailure
  <2> DEFINE v == Version(conv.item.short)
  <2>1. conv.pc # "idle" /\ conv'.pc # conv.pc /\ v \in Versions
    <3>1. conv \in [pc : {"begin", "leave", "raised"}, item : Handbacks, kept : BOOLEAN]
      BY <1>11, ConvParts DEF RecordFailure
    <3> QED BY <1>11, <3>1 DEF RecordFailure, Version, Versions
  <2>2. \/ /\ task' = task
           /\ \/ turn' = turn
              \/ \E new \in {"INTERRUPTED", "FAILED_RUNTIME"} :
                     turn' = [turn EXCEPT ![conv.item.task][v] = new]
        \/ task' = HandbackFailed(conv.item.task, conv.item.short) /\ turn' = turn
    BY <1>11 DEF RecordFailure
  <2> HIDE DEF v
  <2>3. CASE task' = task
    BY <1>6, <1>c, <2>1, <2>2, <2>3 DEF TurnStates, Resumable
  <2>4. CASE task' = HandbackFailed(conv.item.task, conv.item.short) /\ turn' = turn
    <3>1. CASE Held(t)
      <4>1. task[t].failures \in 0..2 BY <1>b DEF TaskRows, ReportFailuresBeforeShort
      <4> QED BY <1>a, <1>b, <2>1, <2>4, <3>1, <4>1
              DEF MarksMove, HandbackFailed, TaskRows, ReportFailuresBeforeShort
    <3>2. CASE ~Held(t)
      <4>1. conv.item.task # t BY <2>1, <3>2 DEF Held
      <4>2. task'[t] = task[t] BY <1>a, <2>4, <4>1 DEF HandbackFailed
      <4> QED BY <1>c, <2>4, <4>2
    <3> QED BY <3>1, <3>2
  <2> QED BY <2>2, <2>3, <2>4
<1>12. CASE ExecStep BY <1>12, <1>1, <1>3 DEF ExecStep, FinishRun, FailRun, Finished
<1>13. CASE ConvStep BY <1>13, <1>1, <1>3, <1>7, <1>8, <1>9, <1>10, <1>11 DEF ConvStep
<1>14. CASE SweepStep BY <1>14, <1>2, <1>3 DEF SweepStep
<1>15. CASE HostStep BY <1>15, <1>2, <1>3, <1>4 DEF HostStep
<1>16. CASE Environment BY <1>16, <1>2, <1>3, <1>5 DEF Environment
<1> QED BY <1>12, <1>13, <1>14, <1>15, <1>16 DEF Next

(* No turn of hers was begun on the result, and none failed to begin. *)
Fresh(t) == /\ \A v \in Versions : turn[t][v] = "NONE"
            /\ task[t].fbEp = "none" /\ task[t].failures = 0 /\ ~task[t].shortFailed

(* A hand-back that waits in the queue. *)
Waits(item) == \E i \in 1..Len(pending) : pending[i] = item

(* The short version of the result has not come into play. *)
FullOnly(t) ==
    /\ turn[t]["short"] = "NONE" /\ ~task[t].shortFailed /\ task[t].fbEp # "short"
    /\ \A item \in Handbacks : Waits(item) /\ item.task = t => ~item.short
    /\ Held(t) => /\ ~conv.item.short
                  /\ conv.pc \in {"advance", "turn", "save", "settle", "result"} =>
                         conv.ep = "full"

(* What the watchdog may still decide about in the sweep under way. *)
Swept(t) ==
    \/ sweep.pc \in {"orphans", "closing"} /\ t \notin sweep.running \cup sweep.onWay
    \/ sweep.pc \in {"lost", "act"} /\ t \in sweep.todo
    \/ sweep.pc = "act" /\ t = sweep.task

(* No hand-back of a task that has not ended is on its way, or ever was. *)
UnrunIsFresh == \A t \in Tasks :
    task[t].state \in {"READY", "RUNNING"} => Fresh(t) /\ t \notin handbacks
(* A run that is to be reported has ended, and the watchdog is not ahead of *)
(* the report by more than one hand-back of the full result.                *)
ReportsFirst == \A t \in Tasks : exec.pc = "report" /\ t = exec.task =>
    /\ task[t].state \in Finished \cup {"CANCELLED"}
    /\ FullOnly(t)
    /\ Swept(t) => Fresh(t) /\ t \notin handbacks
(* What the watchdog looks at while it is on its way has just been reported. *)
SweptIsFull == \A t \in Tasks : Swept(t) /\ t \in handbacks => FullOnly(t)
(* The watchdog decides once about results, and by what happened to them. *)
Decided == \A t \in Tasks :
    /\ sweep.pc \in {"lost", "act"} /\ Swept(t) => task[t].state \in Finished \cup {"CANCELLED"}
    /\ sweep.pc = "act" /\ t = sweep.task =>
           /\ t \notin sweep.todo
           /\ sweep.step = "short" => ~Fresh(t)
           /\ sweep.step = "give_up" => turn[t]["short"] # "NONE" \/ task[t].shortFailed
(* Her turn is on a result that is still owed, or was cancelled meanwhile. *)
HeldIsOwed == conv.pc \in {"advance", "turn", "save"} =>
    Owed(conv.item.task) \/ task[conv.item.task].state = "CANCELLED"
(* No turn outlives the process. *)
IdleWhenDown == ~up => conv.pc = "idle"

WayInv == /\ OnceInv /\ UnrunIsFresh /\ ReportsFirst /\ SweptIsFull /\ Decided
          /\ HeldIsOwed /\ IdleWhenDown

(* What waits after a hand-back is queued, and after one is taken. *)
LEMMA WaitsAppend ==
    ASSUME Typed, NEW new \in Handbacks, pending' = Append(pending, new), NEW item \in Handbacks,
           Waits(item)'
    PROVE  Waits(item) \/ item = new
<1>1. /\ Len(pending') = Len(pending) + 1 /\ Len(pending) \in Nat
      /\ \A i \in 1..Len(pending) : pending'[i] = pending[i]
      /\ pending'[Len(pending) + 1] = new
  BY AppendProperties, LenProperties DEF Typed
<1>2. PICK i \in 1..Len(pending') : pending'[i] = item BY DEF Waits
<1>3. CASE i = Len(pending) + 1 BY <1>1, <1>2, <1>3
<1>4. CASE i # Len(pending) + 1
  <2>1. i \in 1..Len(pending) BY <1>1, <1>4
  <2> QED BY <1>1, <1>2, <2>1 DEF Waits
<1> QED BY <1>3, <1>4

LEMMA WaitsTail ==
    ASSUME Typed, pending # <<>>, pending' = Tail(pending), NEW item \in Handbacks
    PROVE  Waits(Head(pending)) /\ (Waits(item)' => Waits(item))
<1>1. /\ Len(pending') = Len(pending) - 1 /\ Len(pending) \in Nat /\ Len(pending) > 0
      /\ \A i \in 1..Len(pending') : pending'[i] = pending[i + 1]
      /\ Head(pending) = pending[1]
  BY HeadTailProperties, LenProperties, EmptySeq DEF Typed
<1>2. Waits(Head(pending)) BY <1>1 DEF Waits
<1>3. ASSUME NEW i \in 1..Len(pending'), pending'[i] = item PROVE Waits(item)
  <2>1. i + 1 \in 1..Len(pending) BY <1>1
  <2> QED BY <1>1, <1>3, <2>1 DEF Waits
<1> QED BY <1>2, <1>3 DEF Waits

(* Nothing but the watchdog and the end of the process moves a sweep. *)
LEMMA SweepOwn == ASSUME Next PROVE UNCHANGED sweep \/ SweepStep \/ sweep' = IdleSweep
<1>1. CASE ExecStep
  BY <1>1 DEF ExecStep, TakeTask, Claim, LeaveUnclaimed, FinishRun, FailRun, EndRun, AbandonRun,
              ReportRun
<1>2. CASE ConvStep
  BY <1>2 DEF ConvStep, TakeHandback, HoldHandback, RefuseFeedback, BeginFeedback, Advance, EndTurn,
              SaveFeedback, SettleAsking, ReturnResult, RaiseInFeedback, RecordFailure, LeaveHandback
<1>3. CASE HostStep
  BY <1>3 DEF HostStep, RestartPends, RestartWithdrawn, BeginStop, StopCancels, EndProcess, Start
<1>4. CASE Environment
  BY <1>4 DEF Environment, Cancel, PolicyChanges, LeaseExpires, FollowUpSettles
<1> QED BY <1>1, <1>2, <1>3, <1>4 DEF Next

(* A run is reported after it ended, and only then. *)
LEMMA ReportOwn ==
    ASSUME Next, exec'.pc = "report"
    PROVE  \/ exec' = exec
           \/ /\ StillMine /\ exec.pc = "running" /\ exec'.task = exec.task
              /\ \E outcome \in Finished : EndRun(outcome)
<1>1. CASE ExecStep
  <2>1. CASE TakeTask \/ Claim \/ LeaveUnclaimed \/ AbandonRun \/ ReportRun
    <3>1. exec'.pc \in {"taken", "running", "idle"}
      <4>1. CASE TakeTask BY <4>1 DEF TakeTask
      <4>2. CASE Claim BY <4>2 DEF Claim
      <4>3. CASE LeaveUnclaimed \/ AbandonRun \/ ReportRun
        <5>1. exec' = IdleExec BY <4>3 DEF LeaveUnclaimed, AbandonRun, ReportRun
        <5> QED BY <5>1 DEF IdleExec
      <4> QED BY <2>1, <4>1, <4>2, <4>3
    <3> QED BY <3>1
  <2>2. ASSUME NEW outcome \in Finished, FinishRun(outcome)
        PROVE  exec.pc = "running" /\ StillMine /\ EndRun(outcome)
    BY <2>2 DEF FinishRun, ValidRun
  <2>3. CASE FailRun
    <3>1. exec.pc = "running" /\ StillMine /\ EndRun("BLOCKED") /\ "BLOCKED" \in Finished
      BY <2>3 DEF FailRun, Finished
    <3> QED BY <3>1 DEF EndRun
  <2>4. ASSUME NEW outcome \in Finished, EndRun(outcome) PROVE exec'.task = exec.task
    BY <2>4 DEF EndRun
  <2> HIDE DEF EndRun, StillMine
  <2> QED BY <1>1, <2>1, <2>2, <2>3, <2>4 DEF ExecStep
<1>2. CASE ConvStep
  BY <1>2 DEF ConvStep, TakeHandback, HoldHandback, RefuseFeedback, BeginFeedback, Advance, EndTurn,
              SaveFeedback, SettleAsking, ReturnResult, RaiseInFeedback, RecordFailure, LeaveHandback,
              execVars
<1>3. CASE SweepStep
  BY <1>3 DEF SweepStep, BeginSweep, FindOrphans, CloseOrphan, FindLost, Decide, HandBackAgain,
              GiveUp, EndSweep, execVars
<1>4. CASE HostStep
  BY <1>4 DEF HostStep, RestartPends, RestartWithdrawn, BeginStop, StopCancels, EndProcess, Start,
              execVars, IdleExec
<1>5. CASE Environment
  BY <1>5 DEF Environment, Cancel, PolicyChanges, LeaseExpires, FollowUpSettles, execVars
<1> QED BY <1>1, <1>2, <1>3, <1>4, <1>5 DEF Next

(* Where what a sweep may decide about comes from. *)
LEMMA SweptFrom ==
    ASSUME Inv, Next, NEW t \in Tasks, Swept(t)'
    PROVE  \/ Swept(t)
           \/ t \notin handbacks /\ (exec.pc # "idle" => t # exec.task) /\ exec' = exec /\ BeginSweep
           \/ task[t].state = "RUNNING"
<1>1. CASE UNCHANGED sweep BY <1>1 DEF Swept
<1>2. CASE sweep' = IdleSweep BY <1>2 DEF Swept, IdleSweep
<1>3. CASE SweepStep
  <2>1. CASE BeginSweep BY <2>1 DEF BeginSweep, Swept, execVars
  <2>2. CASE FindOrphans BY <2>2 DEF FindOrphans, Swept
  <2>3. CASE CloseOrphan
    <3>1. /\ sweep.pc = "closing"
          /\ \E found \in sweep.todo :
                 LET u == found[1]
                     same == task[u].state = "RUNNING" /\ task[u].fence = found[2]
                 IN  sweep' = [sweep EXCEPT !.todo = @ \ {found},
                                            !.onWay = IF same THEN @ \ {u} ELSE @]
      BY <2>3 DEF CloseOrphan
    <3>2. sweep \in [pc : {"closing"}, running : SUBSET Tasks, onWay : SUBSET Tasks,
                     todo : SUBSET (Tasks \X Nat)]
      BY <3>1 DEF Inv, TypeOK, SweepTyped, SweepStates, IdleSweep
    <3> QED BY <3>1, <3>2 DEF Swept
  <2>4. CASE FindLost
    <3>1. /\ sweep.pc = "closing" /\ sweep'.pc = "lost"
          /\ sweep'.todo = {u \in Tasks : Owed(u) /\ u \notin sweep.onWay \cup sweep.running}
      BY <2>4 DEF FindLost
    <3> QED BY <3>1 DEF Swept
  <2>5. CASE \E s \in Tasks : Decide(s) BY <2>5 DEF Decide, Swept
  <2>6. CASE HandBackAgain \/ GiveUp
    <3>1. sweep.pc = "act" /\ sweep' = [pc |-> "lost", todo |-> sweep.todo]
      BY <2>6 DEF HandBackAgain, GiveUp
    <3> QED BY <3>1 DEF Swept
  <2>7. CASE EndSweep BY <2>7 DEF EndSweep, IdleSweep, Swept
  <2> QED BY <1>3, <2>1, <2>2, <2>3, <2>4, <2>5, <2>6, <2>7 DEF SweepStep
<1> QED BY <1>1, <1>2, <1>3, SweepOwn

(* Nothing else than the watchdog's decision brings the short version in. *)
LEMMA FullOnlyKept ==
    ASSUME WayInv, Next, NEW t \in Tasks, FullOnly(t),
           HandBackAgain /\ t = sweep.task => sweep.step # "short"
    PROVE  FullOnly(t)'
<1> USE DEF WayInv, OnceInv
<1>a. Typed BY InvTyped
<1>b. MarksMove(t) BY MarksAllMove
<1>c. task[t] \in TaskRows /\ turn[t] \in [Versions -> TurnStates] BY DEF Inv, TypeOK, RowsTyped
<1>1. ASSUME ~Held(t) \/ conv' = conv, ~Held(t)' \/ conv' = conv,
             \A item \in Handbacks : Waits(item)' /\ item.task = t => Waits(item) \/ ~item.short
      PROVE  FullOnly(t)'
  <2>1. turn'[t]["short"] = "NONE" BY <1>b, <1>1 DEF MarksMove, FullOnly, Versions
  <2>2. ~task'[t].shortFailed /\ task'[t].fbEp # "short" BY <1>b, <1>1 DEF MarksMove, FullOnly, Marks
  <2>3. Held(t)' => Held(t) /\ conv' = conv BY <1>1 DEF Held
  <2> QED BY <1>1, <2>1, <2>2, <2>3 DEF FullOnly
<1>2. CASE ElsewhereStep
  <2>1. UNCHANGED <<pending, conv>> BY <1>2, ElsewhereKeeps DEF convVars
  <2> QED BY <1>1, <2>1 DEF Waits
<1>3. CASE WithinHandback
  <2>1. UNCHANGED pending /\ conv'.item = conv.item /\ conv.pc # "idle" BY <1>3, WithinKeeps
  <2>2. CASE ~Held(t)
    <3>1. ~Held(t)' BY <2>1, <2>2 DEF Held
    <3> QED BY <1>1, <2>1, <2>2, <3>1 DEF Waits
  <2>3. CASE Held(t)
    <3>1. conv.item.task = t /\ ~conv.item.short BY <2>3 DEF Held, FullOnly
    <3>2. ASSUME turn'[t]["short"] = "NONE", ~task'[t].shortFailed, task'[t].fbEp # "short",
                 conv'.pc \in {"advance", "turn", "save", "settle", "result"} => conv'.ep = "full"
          PROVE  FullOnly(t)'
      BY <2>1, <2>3, <3>1, <3>2 DEF FullOnly, Held, Waits
    <3>3. CASE RefuseFeedback
      <4>1. /\ conv'.pc = "leave" /\ turn' = turn
            /\ task' = task \/ task' = [task EXCEPT ![t].fb = "SUPPRESSED"]
        BY <3>1, <3>3 DEF RefuseFeedback, Leave
      <4>2. Marks(t)' = Marks(t)
        <5>1. task \in [Tasks -> TaskRows] BY DEF Inv, TypeOK, RowsTyped
        <5> QED BY <1>c, <4>1, <5>1 DEF Marks, TaskRows
      <4> QED BY <3>2, <4>1, <4>2 DEF FullOnly, Marks
    <3>4. CASE BeginFeedback
      <4> DEFINE v == IF ~conv.item.short /\ task[t].fbEp # "none" THEN task[t].fbEp
                      ELSE Version(conv.item.short)
      <4>1. v = "full" BY <1>c, <3>1 DEF Version, FullOnly, TaskRows, Versions
      <4>2. /\ task' = task /\ conv'.ep = v
            /\ turn' = turn \/ turn' = [turn EXCEPT ![t][v] = "TURN"]
        BY <3>1, <3>4 DEF BeginFeedback, At
      <4> HIDE DEF v
      <4>3. turn'[t]["short"] = "NONE"
        BY <1>c, <4>1, <4>2 DEF Inv, TypeOK, RowsTyped, Versions, FullOnly
      <4> QED BY <3>2, <4>1, <4>2, <4>3 DEF FullOnly
    <3>5. CASE Advance \/ \E outcome \in TurnOutcomes : EndTurn(outcome)
      <4>1. /\ task' = task /\ conv'.ep = conv.ep /\ conv.ep = "full"
            /\ \E new : turn' = [turn EXCEPT ![t][conv.ep] = new]
        BY <2>3, <3>1, <3>5 DEF Advance, EndTurn, At, FullOnly
      <4>2. turn'[t]["short"] = "NONE"
        BY <1>c, <4>1 DEF Inv, TypeOK, RowsTyped, Versions, FullOnly
      <4> QED BY <3>2, <4>1, <4>2 DEF FullOnly
    <3>6. CASE SaveFeedback
      <4>1. /\ turn' = turn /\ conv'.ep = conv.ep /\ conv.ep = "full"
            /\ \/ task' = task
               \/ \E fb : task' = [task EXCEPT ![t].fb = fb, ![t].fbEp = conv.ep]
        BY <2>3, <3>1, <3>6 DEF SaveFeedback, At, FullOnly
      <4>2. task'[t].shortFailed = task[t].shortFailed /\ task'[t].fbEp \in {task[t].fbEp, "full"}
        <5>1. \/ task'[t] = task[t]
              \/ \E fb : task'[t] = [task[t] EXCEPT !.fb = fb, !.fbEp = "full"]
          BY <4>1 DEF Inv, TypeOK, RowsTyped
        <5> QED BY <1>c, <5>1 DEF TaskRows
      <4> QED BY <3>2, <4>1, <4>2 DEF FullOnly
    <3>7. CASE SettleAsking
      <4>1. task' = task /\ turn' = turn /\ conv'.ep = conv.ep /\ conv.ep = "full"
        BY <2>3, <3>7 DEF SettleAsking, At, FullOnly
      <4> QED BY <3>2, <4>1 DEF FullOnly
    <3>8. CASE RaiseInFeedback
      <4>1. task' = task /\ turn' = turn /\ conv'.pc = "raised"
        BY <3>8 DEF RaiseInFeedback, Raise, rows
      <4> QED BY <3>2, <4>1 DEF FullOnly
    <3>9. CASE RecordFailure
      <4>1. conv \in [pc : {"begin", "leave", "raised"}, item : Handbacks, kept : BOOLEAN]
        BY <3>9, ConvParts DEF Inv, TypeOK, RecordFailure
      <4>2. conv'.pc = "leave" BY <3>9, <4>1 DEF RecordFailure
      <4>3. /\ turn' = turn \/ \E new : turn' = [turn EXCEPT ![t]["full"] = new]
            /\ task' = task \/ task' = HandbackFailed(t, FALSE)
        <5>1. conv.item.short = FALSE BY <3>1, <3>9, ConvParts DEF Inv, TypeOK, RecordFailure
        <5>2. \/ UNCHANGED <<task, turn>>
              \/ task' = task /\ \E new : turn' = [turn EXCEPT ![t][Version(FALSE)] = new]
              \/ task' = HandbackFailed(t, FALSE) /\ turn' = turn
          BY <3>1, <3>9, <5>1 DEF RecordFailure
        <5> QED BY <5>2 DEF Version
      <4>4. turn'[t]["short"] = "NONE"
        BY <1>c, <4>3 DEF Inv, TypeOK, RowsTyped, Versions, FullOnly
      <4>5. task'[t].shortFailed = task[t].shortFailed /\ task'[t].fbEp = task[t].fbEp
        <5>1. task'[t] = task[t] \/ \E n : task'[t] = [task[t] EXCEPT !.failures = n]
          BY <4>3 DEF Inv, TypeOK, RowsTyped, HandbackFailed
        <5> QED BY <1>c, <5>1 DEF TaskRows
      <4> QED BY <3>2, <4>2, <4>4, <4>5 DEF FullOnly
    <3> QED BY <1>3, <3>3, <3>4, <3>5, <3>6, <3>7, <3>8, <3>9 DEF WithinHandback
  <2> QED BY <2>2, <2>3
<1>4. CASE ReportRun \/ HandBackAgain
  <2>1. UNCHANGED conv BY <1>4, HandsBack
  <2>2. \/ pending' = pending
        \/ \E new \in Handbacks : pending' = Append(pending, new) /\ (new.task = t => ~new.short)
    <3>1. CASE ReportRun
      <4>1. [task |-> exec.task, short |-> FALSE, again |-> FALSE] \in Handbacks
        BY <3>1, ExecParts DEF Inv, TypeOK, ReportRun, Handbacks
      <4> QED BY <3>1, <4>1 DEF ReportRun, HandBack
    <3>2. CASE HandBackAgain
      <4> DEFINE short == sweep.step = "short"
      <4>1. [task |-> sweep.task, short |-> short, again |-> TRUE] \in Handbacks
        BY <3>2, SweepParts DEF Inv, TypeOK, HandBackAgain, Handbacks
      <4>2. sweep.task = t => ~short BY <3>2
      <4>3. HandBack(sweep.task, short, TRUE) BY <3>2 DEF HandBackAgain
      <4> HIDE DEF short
      <4> QED BY <4>1, <4>2, <4>3 DEF HandBack
    <3> QED BY <1>4, <3>1, <3>2
  <2>3. \A item \in Handbacks : Waits(item)' /\ item.task = t => Waits(item) \/ ~item.short
    <3>1. CASE pending' = pending BY <3>1 DEF Waits
    <3>2. ASSUME NEW new \in Handbacks, pending' = Append(pending, new), new.task = t => ~new.short
          PROVE  \A item \in Handbacks : Waits(item)' /\ item.task = t => Waits(item) \/ ~item.short
      BY <1>a, <3>2, WaitsAppend
    <3> QED BY <2>2, <3>1, <3>2
  <2> QED BY <1>1, <2>1, <2>3
<1>5. CASE TakeHandback
  <2>1. /\ pending # <<>> /\ pending' = Tail(pending) /\ conv.pc = "idle"
        /\ conv' = [pc |-> "held", item |-> Head(pending)] /\ UNCHANGED rows
    BY <1>5 DEF TakeHandback
  <2>2. Head(pending) \in Handbacks /\ Waits(Head(pending)) BY <1>a, <2>1, QueuedTail, WaitsTail
  <2>3. \A item \in Handbacks : Waits(item)' => Waits(item) BY <1>a, <2>1, WaitsTail
  <2> QED BY <2>1, <2>2, <2>3 DEF FullOnly, Held, rows
<1>6. CASE HoldHandback
  <2>1. conv.pc = "held" /\ conv'.item = conv.item /\ conv'.pc \in {"leave", "begin"}
        /\ UNCHANGED <<pending, task, turn>>
    BY <1>6 DEF HoldHandback, NoRestart, rows
  <2> QED BY <2>1 DEF FullOnly, Held, Waits
<1>7. CASE ReturnResult
  <2>1. /\ conv.pc = "result" /\ conv'.item = conv.item /\ conv'.pc \in {"leave", "raised"}
        /\ UNCHANGED <<task, turn>>
        /\ pending' = pending \/ pending' = Append(pending, conv.item)
    BY <1>7 DEF ReturnResult, rows
  <2>2. conv.item \in Handbacks BY <2>1, ConvParts DEF Inv, TypeOK
  <2>3. conv.item.task = t => ~conv.item.short BY <2>1 DEF FullOnly, Held
  <2>4. \A item \in Handbacks : Waits(item)' /\ item.task = t => ~item.short
    <3>1. CASE pending' = pending BY <3>1 DEF Waits, FullOnly
    <3>2. CASE pending' = Append(pending, conv.item) BY <1>a, <2>2, <2>3, <3>2, WaitsAppend DEF FullOnly
    <3> QED BY <2>1, <3>1, <3>2
  <2> QED BY <2>1, <2>3, <2>4 DEF FullOnly, Held
<1>8. CASE LeaveHandback
  <2>1. conv'.pc = "idle" /\ UNCHANGED <<pending, task, turn>>
    BY <1>8 DEF LeaveHandback, IdleConv, rows
  <2> QED BY <2>1 DEF FullOnly, Held, Waits
<1>9. CASE EndProcess
  <2>1. conv'.pc = "idle" /\ pending' = <<>> /\ UNCHANGED <<task, turn>>
    BY <1>9 DEF EndProcess, IdleConv, rows
  <2>2. \A item : ~Waits(item)' BY <2>1, EmptySeq DEF Waits
  <2> QED BY <2>1, <2>2 DEF FullOnly, Held
<1> QED BY <1>2, <1>3, <1>4, <1>5, <1>6, <1>7, <1>8, <1>9, NextByQueue

(* A result nobody began a turn on stays so while no worker holds it. *)
LEMMA FreshKept == ASSUME NEW t \in Tasks, MarksMove(t), Fresh(t), ~Held(t) PROVE Fresh(t)'
BY DEF MarksMove, Marks, Fresh

(* Only a report and the watchdog put a result on its way. *)
LEMMA MarkedFrom ==
    ASSUME Inv, Next, NEW t \in Tasks, t \in handbacks', t \notin handbacks
    PROVE  \/ ReportRun /\ exec.pc = "report" /\ t = exec.task
           \/ HandBackAgain /\ sweep.pc = "act" /\ t = sweep.task
<1>1. CASE ElsewhereStep BY <1>1, ElsewhereKeeps DEF convVars
<1>2. CASE WithinHandback BY <1>2, WithinKeeps
<1>3. CASE ReportRun BY <1>3 DEF ReportRun, HandBack
<1>4. CASE HandBackAgain BY <1>4 DEF HandBackAgain, HandBack
<1>5. CASE TakeHandback \/ HoldHandback \/ ReturnResult \/ LeaveHandback \/ EndProcess
  BY <1>5 DEF TakeHandback, HoldHandback, ReturnResult, LeaveHandback, EndProcess
<1> QED BY <1>1, <1>2, <1>3, <1>4, <1>5, NextByQueue

(* Handing back changes no row. *)
LEMMA HandingBackKeepsRows == ReportRun \/ HandBackAgain => UNCHANGED <<task, turn>>
BY DEF ReportRun, HandBackAgain, rows

LEMMA UnrunIsFreshNext == ASSUME WayInv, Next PROVE UnrunIsFresh'
<1> SUFFICES ASSUME NEW t \in Tasks, task'[t].state \in {"READY", "RUNNING"}
             PROVE  Fresh(t)' /\ t \notin handbacks'
  BY DEF UnrunIsFresh
<1> USE DEF WayInv, OnceInv
<1>1. task[t].state \in {"READY", "RUNNING"}
  BY RowsMove DEF RowMoves, Inv, TypeOK, RowsTyped, TaskRows, Finished
<1>2. Fresh(t) /\ t \notin handbacks BY <1>1 DEF UnrunIsFresh
<1>3. ~Held(t) BY <1>2 DEF MarkedOnWay
<1>4. Fresh(t)' BY <1>2, <1>3, FreshKept, MarksAllMove
<1>5. t \notin handbacks'
  <2> SUFFICES ASSUME t \in handbacks' PROVE FALSE OBVIOUS
  <2>1. CASE exec.pc = "report" /\ t = exec.task BY <1>1, <2>1 DEF ReportsFirst, Finished
  <2>2. CASE sweep.pc = "act" /\ t = sweep.task
    <3>1. Swept(t) BY <2>2 DEF Swept
    <3> QED BY <1>1, <2>2, <3>1 DEF Decided, Finished
  <2> QED BY <1>2, <2>1, <2>2, MarkedFrom
<1> QED BY <1>4, <1>5

(* A row that ended stays ended. *)
LEMMA EndedStays ==
    ASSUME Inv, Next, NEW t \in Tasks, task[t].state \in Finished \cup {"CANCELLED"}
    PROVE  task'[t].state \in Finished \cup {"CANCELLED"}
BY RowsMove DEF RowMoves

LEMMA ReportsFirstNext == ASSUME WayInv, Next PROVE ReportsFirst'
<1> SUFFICES ASSUME NEW t \in Tasks, exec'.pc = "report", t = exec'.task
             PROVE  /\ task'[t].state \in Finished \cup {"CANCELLED"}
                    /\ FullOnly(t)'
                    /\ Swept(t)' => Fresh(t)' /\ t \notin handbacks'
  BY DEF ReportsFirst
<1> USE DEF WayInv, OnceInv
<1>1. CASE exec' = exec
  <2>1. /\ exec.pc = "report" /\ exec.task = t
        /\ task[t].state \in Finished \cup {"CANCELLED"} /\ FullOnly(t)
        /\ Swept(t) => Fresh(t) /\ t \notin handbacks
    BY <1>1 DEF ReportsFirst
  <2>2. task'[t].state \in Finished \cup {"CANCELLED"} BY <2>1, EndedStays
  <2>3. HandBackAgain /\ t = sweep.task => sweep.step # "short"
    <3> SUFFICES ASSUME HandBackAgain, t = sweep.task PROVE sweep.step # "short" OBVIOUS
    <3>1. sweep.pc = "act" BY DEF HandBackAgain
    <3>2. Swept(t) BY <3>1 DEF Swept
    <3> QED BY <2>1, <3>1, <3>2 DEF Decided
  <2>4. FullOnly(t)' BY <2>1, <2>3, FullOnlyKept
  <2>5. ASSUME Swept(t)' PROVE Fresh(t)' /\ t \notin handbacks'
    <3>1. Swept(t) BY <2>1, <2>5, SweptFrom DEF Finished
    <3>2. ~Held(t) BY <2>1, <3>1 DEF MarkedOnWay
    <3>3. Fresh(t)' BY <2>1, <3>1, <3>2, FreshKept, MarksAllMove
    <3>4. ~ReportRun
      <4>1. ReportRun => exec' = IdleExec BY DEF ReportRun
      <4> QED BY <1>1, <2>1, <4>1 DEF IdleExec
    <3>5. ASSUME HandBackAgain, sweep.pc = "act", t = sweep.task PROVE FALSE
      <4>1. sweep'.pc = "lost" /\ sweep'.todo = sweep.todo BY <3>5 DEF HandBackAgain
      <4>2. t \notin sweep'.todo BY <3>5, <4>1 DEF Decided
      <4> QED BY <2>5, <4>1, <4>2 DEF Swept
    <3> QED BY <2>1, <3>1, <3>3, <3>4, <3>5, MarkedFrom
  <2> QED BY <2>1, <2>2, <2>4, <2>5
<1>2. CASE \E outcome \in Finished : EndRun(outcome) /\ StillMine /\ exec.pc = "running"
                                     /\ exec'.task = exec.task
  <2>1. exec.task = t /\ task[t].state = "RUNNING" /\ UNCHANGED <<turn, convVars, sweep>>
    BY <1>2 DEF StillMine, EndRun
  <2>2. task'[t].state \in Finished
    <3>1. task \in [Tasks -> TaskRows] /\ task[t] \in TaskRows BY DEF Inv, TypeOK, RowsTyped
    <3> QED BY <1>2, <2>1, <3>1 DEF EndRun, TaskRows
  <2>3. Fresh(t) /\ t \notin handbacks BY <2>1 DEF UnrunIsFresh
  <2>4. ~Held(t) /\ ~Queued(t) BY <2>1, <2>3 DEF MarkedOnWay
  <2>5. FullOnly(t)
    <3>1. \A item \in Handbacks : item.task = t => ~Waits(item) BY <2>4 DEF Waits, Queued
    <3> QED BY <2>3, <2>4, <3>1 DEF FullOnly, Fresh, Versions
  <2>6. ~HandBackAgain BY <1>2 DEF HandBackAgain, EndRun, execVars
  <2>7. FullOnly(t)' BY <2>1, <2>5, <2>6, FullOnlyKept
  <2>8. Fresh(t)' BY <2>1, <2>3, <2>4, FreshKept, MarksAllMove
  <2> QED BY <2>1, <2>2, <2>3, <2>7, <2>8 DEF convVars
<1> QED BY <1>1, <1>2, ReportOwn

LEMMA SweptIsFullNext == ASSUME WayInv, Next PROVE SweptIsFull'
<1> SUFFICES ASSUME NEW t \in Tasks, Swept(t)', t \in handbacks' PROVE FullOnly(t)'
  BY DEF SweptIsFull
<1> USE DEF WayInv, OnceInv
<1>1. ~(HandBackAgain /\ t = sweep.task)
  <2> SUFFICES ASSUME HandBackAgain, t = sweep.task PROVE FALSE OBVIOUS
  <2>1. sweep.pc = "act" /\ sweep'.pc = "lost" /\ sweep'.todo = sweep.todo BY DEF HandBackAgain
  <2>2. t \notin sweep'.todo BY <2>1 DEF Decided
  <2> QED BY <2>1, <2>2 DEF Swept
<1>2. CASE t \notin handbacks
  <2>1. ReportRun /\ exec.pc = "report" /\ t = exec.task BY <1>1, <1>2, MarkedFrom
  <2> QED BY <1>1, <2>1, FullOnlyKept DEF ReportsFirst
<1>3. CASE t \in handbacks
  <2>1. task[t].state # "RUNNING" BY <1>3 DEF UnrunIsFresh
  <2>2. Swept(t) BY <1>3, <2>1, SweptFrom
  <2> QED BY <1>1, <1>3, <2>2, FullOnlyKept DEF SweptIsFull
<1> QED BY <1>2, <1>3

(* Closing an orphan goes on with the other ones. *)
LEMMA ClosingStays == ASSUME Inv, CloseOrphan PROVE sweep'.pc = "closing"
<1>1. sweep.pc = "closing" /\ \E found, w : sweep' = [sweep EXCEPT !.todo = @ \ {found}, !.onWay = w]
  BY DEF CloseOrphan
<1>2. sweep \in [pc : {"closing"}, running : SUBSET Tasks, onWay : SUBSET Tasks,
                 todo : SUBSET (Tasks \X Nat)]
  BY <1>1 DEF Inv, TypeOK, SweepTyped, SweepStates, IdleSweep
<1> QED BY <1>1, <1>2

LEMMA DecidedNext == ASSUME WayInv, Next PROVE Decided'
<1> USE DEF WayInv, OnceInv
<1>1. ASSUME sweep'.pc \in {"lost", "act"}, NEW t \in Tasks, Swept(t)'
      PROVE  task'[t].state \in Finished \cup {"CANCELLED"}
  <2>1. CASE FindLost
    <3>1. Owed(t) /\ task' = task
      BY <1>1, <2>1 DEF FindLost, Swept, rows
    <3> QED BY <3>1 DEF Owed
  <2>2. CASE ~FindLost
    <3>1. sweep.pc \in {"lost", "act"} /\ Swept(t)
      <4>1. CASE UNCHANGED sweep BY <1>1, <4>1 DEF Swept
      <4>2. CASE \E s \in Tasks : Decide(s) BY <1>1, <4>2 DEF Decide, Swept
      <4>3. CASE HandBackAgain \/ GiveUp
        <5>1. sweep.pc = "act" /\ sweep' = [pc |-> "lost", todo |-> sweep.todo]
          BY <4>3 DEF HandBackAgain, GiveUp
        <5> QED BY <1>1, <5>1 DEF Swept
      <4>4. CASE BeginSweep \/ FindOrphans \/ EndSweep \/ sweep' = IdleSweep
        BY <1>1, <4>4 DEF BeginSweep, FindOrphans, EndSweep, IdleSweep
      <4>5. CASE CloseOrphan BY <1>1, <4>5, ClosingStays
      <4> QED BY <2>2, <4>1, <4>2, <4>3, <4>4, <4>5, SweepOwn DEF SweepStep
    <3>2. task[t].state \in Finished \cup {"CANCELLED"} BY <3>1 DEF Decided
    <3> QED BY <3>2, EndedStays
  <2> QED BY <2>1, <2>2
<1>2. ASSUME sweep'.pc = "act", NEW t \in Tasks, t = sweep'.task
      PROVE  /\ t \notin sweep'.todo
             /\ sweep'.step = "short" => ~Fresh(t)'
             /\ sweep'.step = "give_up" => turn'[t]["short"] # "NONE" \/ task'[t].shortFailed
  <2>1. CASE UNCHANGED sweep
    <3>1. MarksMove(t) BY MarksAllMove
    <3>2. /\ t \notin sweep.todo
          /\ sweep.step = "short" => ~Fresh(t)
          /\ sweep.step = "give_up" => turn[t]["short"] # "NONE" \/ task[t].shortFailed
      BY <1>2, <2>1 DEF Decided
    <3>3. Fresh(t)' => Fresh(t)
      <4>1. task[t] \in TaskRows /\ task'[t] \in TaskRows
        <5>1. Inv' BY InvNext
        <5> QED BY <5>1 DEF Inv, TypeOK, RowsTyped
      <4> QED BY <3>1, <4>1 DEF MarksMove, Fresh, TaskRows
    <3> QED BY <2>1, <3>1, <3>2, <3>3 DEF MarksMove, Versions
  <2>2. CASE \E s \in Tasks : Decide(s)
    <3>1. /\ sweep' = [pc |-> "act", todo |-> sweep.todo \ {t}, task |-> t, step |-> NextStep(t)]
          /\ task' = task /\ turn' = turn
      BY <1>2, <2>2 DEF Decide, rows
    <3>2. NextStep(t) = "short" => ~Fresh(t)
      BY DEF NextStep, Failed, Fresh, Versions, ReportFailuresBeforeShort
    <3>3. NextStep(t) = "give_up" => turn[t]["short"] # "NONE" \/ task[t].shortFailed
      BY DEF NextStep, Failed
    <3>4. Fresh(t)' <=> Fresh(t) BY <3>1 DEF Fresh
    <3> HIDE DEF NextStep, Fresh
    <3> QED BY <3>1, <3>2, <3>3, <3>4
  <2>3. CASE sweep' = IdleSweep BY <1>2, <2>3 DEF IdleSweep
  <2>4. CASE BeginSweep \/ FindOrphans \/ FindLost \/ HandBackAgain \/ GiveUp \/ EndSweep
    <3>1. CASE BeginSweep \/ FindOrphans \/ FindLost
      BY <1>2, <3>1 DEF BeginSweep, FindOrphans, FindLost
    <3>2. CASE HandBackAgain \/ GiveUp
      <4>1. sweep' = [pc |-> "lost", todo |-> sweep.todo] BY <3>2 DEF HandBackAgain, GiveUp
      <4> QED BY <1>2, <4>1
    <3>3. CASE EndSweep BY <1>2, <3>3 DEF EndSweep, IdleSweep
    <3> QED BY <2>4, <3>1, <3>2, <3>3
  <2>5. CASE CloseOrphan BY <1>2, <2>5, ClosingStays
  <2> QED BY <2>1, <2>2, <2>3, <2>4, <2>5, SweepOwn DEF SweepStep
<1> QED BY <1>1, <1>2 DEF Decided

(* Giving up a result that the worker holds would take it from her turn. *)
LEMMA NotGivenUpInHand ==
    ASSUME WayInv, NEW t \in Tasks, Held(t), sweep.pc = "act", sweep.step = "give_up", t = sweep.task
    PROVE  FALSE
<1>1. t \in handbacks /\ Swept(t) BY DEF WayInv, OnceInv, MarkedOnWay, Swept
<1>2. FullOnly(t) BY <1>1 DEF WayInv, SweptIsFull
<1> QED BY <1>2 DEF WayInv, Decided, FullOnly

LEMMA IdleWhenDownNext == ASSUME IdleWhenDown, Next PROVE IdleWhenDown'
<1>1. CASE ExecStep
  BY <1>1 DEF ExecStep, TakeTask, Claim, LeaveUnclaimed, FinishRun, FailRun, EndRun, AbandonRun,
              ReportRun, lifecycle, convVars, IdleWhenDown
<1>2. CASE TakeHandback BY <1>2 DEF TakeHandback, lifecycle, IdleWhenDown
<1>3. CASE ConvStep /\ ~TakeHandback
  <2>1. conv.pc # "idle" /\ UNCHANGED lifecycle
    BY <1>3 DEF ConvStep, HoldHandback, RefuseFeedback, BeginFeedback, Advance, EndTurn, SaveFeedback,
                SettleAsking, ReturnResult, RaiseInFeedback, RecordFailure, LeaveHandback
  <2> QED BY <2>1 DEF lifecycle, IdleWhenDown
<1>4. CASE SweepStep
  BY <1>4 DEF SweepStep, BeginSweep, FindOrphans, CloseOrphan, FindLost, Decide, HandBackAgain,
              GiveUp, EndSweep, lifecycle, convVars, IdleWhenDown
<1>5. CASE HostStep
  BY <1>5 DEF HostStep, RestartPends, RestartWithdrawn, BeginStop, StopCancels, EndProcess, Start,
              lifecycle, convVars, IdleConv, IdleWhenDown
<1>6. CASE Environment
  BY <1>6 DEF Environment, Cancel, PolicyChanges, LeaseExpires, FollowUpSettles, lifecycle, convVars,
              IdleWhenDown
<1> QED BY <1>1, <1>2, <1>3, <1>4, <1>5, <1>6 DEF Next

(* A turn on a result goes on with it, or begins on one that may be handed back. *)
LEMMA TurnFrom ==
    ASSUME Inv, Next, conv'.pc \in {"advance", "turn", "save"}
    PROVE  /\ conv.pc # "idle" /\ conv'.item = conv.item
           /\ \/ conv.pc \in {"advance", "turn", "save"}
              \/ UNCHANGED task /\ Owed(conv.item.task)
<1>1. CASE ElsewhereStep \/ ReportRun \/ HandBackAgain
  <2>1. conv' = conv
    <3>1. CASE ElsewhereStep BY <3>1, ElsewhereKeeps DEF convVars
    <3>2. CASE ReportRun \/ HandBackAgain BY <3>2, HandsBack
    <3> QED BY <1>1, <3>1, <3>2
  <2> QED BY <2>1
<1>2. CASE BeginFeedback
  <2>1. conv.pc = "begin" /\ task' = task /\ Owed(conv.item.task)
        /\ \E pc, v : conv' = At(pc, v)
    BY <1>2 DEF BeginFeedback, MayHandBack
  <2> QED BY <2>1 DEF At
<1>3. CASE Advance \/ \E outcome \in TurnOutcomes : EndTurn(outcome)
  <2>1. conv.pc \in {"advance", "turn"} /\ \E pc, v : conv' = At(pc, v)
    BY <1>3 DEF Advance, EndTurn
  <2> QED BY <2>1 DEF At
<1>4. CASE RecordFailure
  <2>1. conv \in [pc : {"begin", "leave", "raised"}, item : Handbacks, kept : BOOLEAN]
    BY <1>4, ConvParts DEF Inv, TypeOK, RecordFailure
  <2>2. conv'.pc = "leave" BY <1>4, <2>1 DEF RecordFailure
  <2> QED BY <2>2
<1>5. CASE RefuseFeedback \/ SaveFeedback \/ SettleAsking \/ RaiseInFeedback
  <2>1. conv'.pc \in {"leave", "settle", "result", "raised"}
    BY <1>5 DEF RefuseFeedback, SaveFeedback, SettleAsking, RaiseInFeedback, Leave, Raise, At
  <2> QED BY <2>1
<1>6. CASE TakeHandback \/ HoldHandback \/ ReturnResult
  <2>1. conv'.pc \in {"held", "leave", "begin", "raised"}
    BY <1>6 DEF TakeHandback, HoldHandback, ReturnResult
  <2> QED BY <2>1
<1>7. CASE LeaveHandback \/ EndProcess BY <1>7 DEF LeaveHandback, EndProcess, IdleConv
<1> QED BY <1>1, <1>2, <1>3, <1>4, <1>5, <1>6, <1>7, NextByQueue DEF WithinHandback

LEMMA HeldIsOwedNext == ASSUME WayInv, Next PROVE HeldIsOwed'
<1> SUFFICES ASSUME NEW t, t = conv'.item.task, conv'.pc \in {"advance", "turn", "save"}
             PROVE  Owed(t)' \/ task'[t].state = "CANCELLED"
  BY DEF HeldIsOwed
<1> USE DEF WayInv, OnceInv
<1>1. conv.pc # "idle" /\ conv.item.task = t /\ t \in Tasks /\ Held(t)
  BY TurnFrom, ConvParts DEF Inv, TypeOK, Held
<1>2. CASE UNCHANGED task /\ Owed(t) BY <1>2 DEF Owed
<1>3. CASE conv.pc \in {"advance", "turn", "save"}
  <2>1. Owed(t) \/ task[t].state = "CANCELLED" BY <1>1, <1>3 DEF HeldIsOwed
  <2>2. CASE task[t].state = "CANCELLED" BY <1>1, <2>2, RowsMove DEF RowMoves
  <2>3. CASE Owed(t)
    <3>1. task[t].state \in Finished BY <2>3 DEF Owed
    <3>2. FeedbackMoves(t) BY <1>1, FeedbacksMove
    <3>3. up BY <1>1 DEF IdleWhenDown
    <3>4. ~(sweep.pc = "act" /\ sweep.step = "give_up" /\ t = sweep.task)
      BY <1>1, NotGivenUpInHand
    <3>5. \/ task'[t].state = task[t].state /\ task'[t].fb = task[t].fb
          \/ task'[t].state = "CANCELLED"
      BY <1>3, <3>1, <3>2, <3>3, <3>4 DEF FeedbackMoves, Finished
    <3> QED BY <2>3, <3>5 DEF Owed
  <2> QED BY <2>1, <2>2, <2>3
<1> QED BY <1>1, <1>2, <1>3, TurnFrom

LEMMA WayNext == ASSUME WayInv, [Next]_vars PROVE WayInv'
<1>1. CASE Next
  <2>1. OnceInv' BY <1>1, OnceNext DEF WayInv
  <2> QED BY <1>1, <2>1, UnrunIsFreshNext, ReportsFirstNext, SweptIsFullNext, DecidedNext,
             HeldIsOwedNext, IdleWhenDownNext DEF WayInv
<1>2. CASE UNCHANGED vars
  <2>1. OnceInv' BY <1>2, OnceNext DEF WayInv
  <2>2. /\ UNCHANGED <<task, turn, exec, handbacks, pending, conv, sweep, up>>
    BY <1>2 DEF vars, rows, execVars, convVars, lifecycle
  <2>3. \A t : (Fresh(t)' <=> Fresh(t)) /\ (Swept(t)' <=> Swept(t))
    BY <2>2 DEF Fresh, Swept
  <2>4. \A t : FullOnly(t)' <=> FullOnly(t) BY <2>2 DEF FullOnly, Held, Waits
  <2> QED BY <2>4, <2>1, <2>2, <2>3 DEF WayInv, UnrunIsFresh, ReportsFirst, SweptIsFull, Decided,
             HeldIsOwed, Owed, IdleWhenDown
<1> QED BY <1>1, <1>2

LEMMA WayInit == ASSUME Bound["restart"] = 0, Init PROVE WayInv
<1>1. OnceInv BY OnceInit
<1>2. UnrunIsFresh BY DEF Init, UnrunIsFresh, Fresh
<1>3. exec.pc = "idle" /\ sweep.pc = "idle" /\ conv.pc = "idle" /\ up
  BY DEF Init, IdleExec, IdleSweep, IdleConv
<1> QED BY <1>1, <1>2, <1>3 DEF WayInv, ReportsFirst, SweptIsFull, Decided, Swept, HeldIsOwed,
           IdleWhenDown

(* The phase of a result by its row, in a state and in the next one. *)
LEMMA PhaseIs == ASSUME NEW t \in Tasks, task[t] \in TaskRows PROVE
    /\ Phase(t) = "open" <=> task[t].state \in {"READY", "RUNNING"}
    /\ Phase(t) = "cancelled" <=> task[t].state = "CANCELLED"
    /\ task[t].state \in Finished =>
           /\ Phase(t) \in {"owed", "taken", "closed"}
           /\ Phase(t) = "taken" <=> task[t].fb \in {"DELIVERED", "WAITING_TASK"}
           /\ Phase(t) = "closed" <=> task[t].fb \in {"SUPPRESSED", "UNDELIVERABLE"}
    /\ Phase(t) \in {"open", "owed", "taken", "closed", "cancelled"}
BY DEF Phase, TaskRows, Finished

LEMMA PhaseWillBe == ASSUME NEW t \in Tasks, task'[t] \in TaskRows PROVE
    /\ Phase(t)' = "open" <=> task'[t].state \in {"READY", "RUNNING"}
    /\ Phase(t)' = "cancelled" <=> task'[t].state = "CANCELLED"
    /\ task'[t].state \in Finished =>
           /\ Phase(t)' \in {"owed", "taken", "closed"}
           /\ Phase(t)' = "taken" <=> task'[t].fb \in {"DELIVERED", "WAITING_TASK"}
           /\ Phase(t)' = "closed" <=> task'[t].fb \in {"SUPPRESSED", "UNDELIVERABLE"}
    /\ Phase(t)' \in {"open", "owed", "taken", "closed", "cancelled"}
BY DEF Phase, TaskRows, Finished

(* One step of the code moves the result of one task as ResultDelivery says. *)
LEMMA PhaseMoves ==
    ASSUME WayInv, Next, NEW t \in Tasks
    PROVE  Phase(t)' = Phase(t) \/ <<Phase(t), Phase(t)'>> \in Delivery!Moves
<1> USE DEF WayInv, OnceInv
<1>a. task[t] \in TaskRows /\ task'[t] \in TaskRows
  <2>1. Inv' BY InvNext
  <2> QED BY <2>1 DEF Inv, TypeOK, RowsTyped
<1>b. Phase(t) \in {"open", "owed", "taken", "closed", "cancelled"} BY DEF Phase
<1>c. FeedbackMoves(t) BY FeedbacksMove
<1>1. CASE task'[t].state = task[t].state /\ task'[t].fb = task[t].fb BY <1>1 DEF Phase
<1>2. CASE task[t].state = "READY" /\ task'[t].state = "RUNNING"
  BY <1>2, <1>a, PhaseIs, PhaseWillBe
<1>3. CASE task[t].state = "RUNNING" /\ task'[t].state \in Finished /\ task'[t].fb = "READY"
  <2>1. Phase(t) = "open" /\ Phase(t)' = "owed" BY <1>3 DEF Phase, Finished
  <2> QED BY <2>1 DEF Delivery!Moves
<1>4. CASE task'[t].state = "CANCELLED"
  <2>1. Phase(t)' = "cancelled" BY <1>4, <1>a, PhaseWillBe
  <2> QED BY <1>b, <2>1 DEF Delivery!Moves, Delivery!Phases
<1>5. CASE task'[t].state = task[t].state /\ task[t].state = "CANCELLED" BY <1>5 DEF Phase
<1>6. CASE task'[t].state = task[t].state /\ Owed(t)
  <2>1. Phase(t) = "owed" /\ Phase(t)' \in {"owed", "taken", "closed"}
    BY <1>6 DEF Phase, Owed, Taken, Finished
  <2> QED BY <2>1 DEF Delivery!Moves
<1>7. CASE /\ task'[t].state = task[t].state /\ sweep.pc = "act" /\ sweep.step = "give_up"
           /\ t = sweep.task /\ task[t].fb \notin Taken /\ task'[t].fb = "UNDELIVERABLE"
  <2>1. task[t].state \in Finished \cup {"CANCELLED"} BY <1>7 DEF Decided, Swept
  <2>2. CASE task[t].state \in Finished
    <3>1. Phase(t) = "owed" /\ Phase(t)' = "closed" BY <1>7, <2>2 DEF Phase, Taken, Finished
    <3> QED BY <3>1 DEF Delivery!Moves
  <2> QED BY <1>5, <1>7, <2>1, <2>2
<1>8. CASE task'[t].state = task[t].state /\ ReadTurn(t) /\ task'[t].fb = "DELIVERED"
  <2>1. task[t].state \in Finished
    BY <1>8, <1>a DEF ReadTurn, FeedbackTaken, UnrunIsFresh, Fresh, TaskRows
  <2>2. Phase(t) \in {"owed", "taken", "closed"} /\ Phase(t)' = "taken"
    BY <1>8, <2>1 DEF Phase, Finished
  <2> QED BY <2>2 DEF Delivery!Moves
<1>9. CASE conv.pc = "save" /\ t = conv.item.task /\ task'[t].state = task[t].state
  BY <1>5, <1>6, <1>9 DEF HeldIsOwed
<1> QED BY <1>c, <1>1, <1>2, <1>3, <1>4, <1>6, <1>7, <1>8, <1>9 DEF FeedbackMoves

(* The way of a result implements ResultDelivery as long as no worker restart *)
(* pends: she is owed a result once, however the run, the worker, the watchdog, *)
(* the requester and crashes interleave, and nothing taken, closed or cancelled *)
(* is owed again.                                                            *)
THEOREM DeliversResults == Bound["restart"] = 0 => (Spec => DeliverySpec)
<1> SUFFICES ASSUME Bound["restart"] = 0 PROVE Spec => DeliverySpec OBVIOUS
<1> DEFINE phases == [t \in Tasks |-> Phase(t)]
<1>1. Init => Delivery!Init
  BY DEF Init, Delivery!Init, Phase
<1>2. ASSUME WayInv, [Next]_vars PROVE [Delivery!Next]_phases
  <2>1. CASE UNCHANGED vars BY <2>1 DEF vars, rows, Phase
  <2>2. CASE Next
    <3>1. phases' \in [Tasks -> Delivery!Phases] BY DEF Phase, Delivery!Phases
    <3>2. \A t \in Tasks : phases'[t] = phases[t] \/ <<phases[t], phases'[t]>> \in Delivery!Moves
      BY <1>2, <2>2, PhaseMoves
    <3> QED BY <3>1, <3>2 DEF Delivery!Next
  <2> QED BY <1>2, <2>1, <2>2
<1>3. Init => WayInv BY WayInit
<1>4. WayInv /\ [Next]_vars => WayInv' BY WayNext
<1> QED BY <1>1, <1>2, <1>3, <1>4, PTL DEF Spec, DeliverySpec, Delivery!Spec
----------------------------------------------------------------------------
(* Her turns on the two versions of a result.                                *)

(* A hand-back of one version in the queue, and in the worker's hands. *)
WaitsAs(short, t) == \E item \in Handbacks : Waits(item) /\ item.task = t /\ item.short = short
HeldAs(short, t)  == Held(t) /\ conv.item.short = short

(* The watchdog is about to act on the result, and a report about to hand it back. *)
Acts(step, t) == sweep.pc = "act" /\ sweep.step = step /\ sweep.task = t
Reports(t)    == exec.pc = "report" /\ exec.task = t

(* The hand-back is done with, and not queued again. *)
Leaves(t) == Held(t) /\ conv.pc = "leave" /\ ~conv.kept

(* No turn on a result delegated further work so far. *)
NothingDelegated == left["delegate"] = Bound["delegate"]

(* The full version is over for the short one: its turn failed, two of its   *)
(* hand-backs never reached a turn, or work it delegated has ended it since. *)
Behind(t) == \/ Failed(turn[t]["full"])
             \/ turn[t]["full"] = "NONE" /\ task[t].failures = 2
             \/ turn[t]["full"] = "COMMITTED" /\ ~NothingDelegated

(* Only what was delegated is waited for. *)
WaitsOnlyDelegated ==
    /\ left["delegate"] <= Bound["delegate"]
    /\ NothingDelegated => \A t \in Tasks, v \in Versions : turn[t][v] # "WAITING_TASK"
(* The row names a turn that there is. *)
NamedTurnIs == \A t \in Tasks : task[t].fbEp # "none" => turn[t][task[t].fbEp] # "NONE"
(* As long as a full version is on its way, no short one came into play. *)
FullComesFirst == \A t \in Tasks :
    WaitsAs(FALSE, t) \/ HeldAs(FALSE, t) \/ Acts("full", t) \/ Reports(t) => FullOnly(t)
(* A hand-back's turn is on its own version. *)
TurnIsOfVersion == conv.pc \in {"advance", "turn", "save", "settle", "result"} =>
    conv.ep = Version(conv.item.short)
(* The worker runs a turn that is open. *)
RunsOpenTurn == conv.pc \in {"advance", "turn"} =>
    turn[conv.item.task][conv.ep] \in Resumable \cup {"FAILED_PROTOCOL"}
(* A hand-back queued again had a turn. *)
KeptHasTurn == Kept /\ ~conv.item.short => turn[conv.item.task]["full"] # "NONE"
(* Two hand-backs that reached no turn are the last ones of the full version. *)
TwoFailuresEndFull == \A t \in Tasks : task[t].failures = 2 =>
    /\ turn[t]["full"] = "NONE" /\ ~WaitsAs(FALSE, t) /\ ~Acts("full", t) /\ ~Reports(t)
    /\ HeldAs(FALSE, t) => Leaves(t)
(* After a first one that reached none, one more is on its way at most. *)
OneMoreTry == \A t \in Tasks : task[t].failures # 0 /\ t \in handbacks =>
    Leaves(t) \/ (~Swept(t) /\ ~Reports(t))
(* The short version comes into play behind the full one. *)
ShortIsBehind == \A t \in Tasks :
    /\ turn[t]["short"] # "NONE" \/ HeldAs(TRUE, t) => Behind(t)
    /\ WaitsAs(TRUE, t) \/ Acts("short", t) => stopping \/ Behind(t)
(* A result given up is on nobody's way. *)
GivenUpIsGone == \A t \in Tasks : task[t].fb = "UNDELIVERABLE" =>
    t \notin handbacks /\ ~Reports(t) /\ ~(sweep.pc \in {"lost", "act"} /\ Swept(t))
(* It was given up, or will be, behind a short version that failed. *)
GivenUpBehindShort == \A t \in Tasks :
    NothingDelegated /\ (task[t].fb = "UNDELIVERABLE" \/ Acts("give_up", t)) =>
        task[t].shortFailed \/ Failed(turn[t]["short"])

(* The inductive invariant of the versions. *)
VersionsInv ==
    /\ WayInv /\ WaitsOnlyDelegated /\ NamedTurnIs /\ FullComesFirst /\ TurnIsOfVersion
    /\ RunsOpenTurn /\ KeptHasTurn /\ TwoFailuresEndFull /\ OneMoreTry /\ ShortIsBehind
    /\ GivenUpIsGone /\ GivenUpBehindShort

(* The invariant says what it should. *)
LEMMA VersionsInvImplies == VersionsInv => VersionsInTurn
<1> SUFFICES ASSUME VersionsInv PROVE VersionsInTurn OBVIOUS
<1> USE DEF VersionsInv
<1>1. OneOpenTurn
  BY DEF OneOpenTurn, ShortIsBehind, Behind, Failed, NotFailed, Resumable
<1>2. ReadOnceUnlessHandedOn
  BY DEF ReadOnceUnlessHandedOn, ReadOnce, Ran, ShortIsBehind, Behind, Failed, NotFailed,
         WaitsOnlyDelegated, NothingDelegated, Versions
<1>3. GivenUpAfterShortUnlessHandedOn
  BY DEF GivenUpAfterShortUnlessHandedOn, GivenUpAfterShort, GivenUpBehindShort, NothingDelegated
<1> QED BY <1>1, <1>2, <1>3 DEF VersionsInTurn

LEMMA VersionsInit == ASSUME Bound["restart"] = 0, Init PROVE VersionsInv
<1>1. WayInv BY WayInit
<1>2. /\ exec.pc = "idle" /\ sweep.pc = "idle" /\ conv.pc = "idle" /\ handbacks = {}
      /\ pending = <<>> /\ left = Bound
  BY DEF Init, IdleExec, IdleSweep, IdleConv
<1>3. \A t \in Tasks : /\ \A v \in Versions : turn[t][v] = "NONE"
                       /\ task[t].fb = "NONE" /\ task[t].fbEp = "none" /\ task[t].failures = 0
  BY DEF Init
<1>4. \A t, s : ~WaitsAs(s, t) /\ ~HeldAs(s, t)
  BY <1>2, EmptySeq DEF WaitsAs, Waits, HeldAs, Held
<1>5. Bound["delegate"] \in Nat BY TaskHandbackAssumption DEF Disturbances
<1>6. WaitsOnlyDelegated BY <1>2, <1>3, <1>5 DEF WaitsOnlyDelegated
<1>7. FullComesFirst BY <1>2, <1>4 DEF FullComesFirst, Acts, Reports
<1>8. TurnIsOfVersion /\ RunsOpenTurn /\ KeptHasTurn
  BY <1>2 DEF TurnIsOfVersion, RunsOpenTurn, KeptHasTurn, Kept
<1>9. \A t \in Tasks : task[t].failures # 2 BY <1>3
<1>13. TwoFailuresEndFull BY <1>9 DEF TwoFailuresEndFull
<1>14. OneMoreTry BY <1>3 DEF OneMoreTry
<1>10. ShortIsBehind BY <1>2, <1>3, <1>4 DEF ShortIsBehind, Acts, Versions
<1>11. GivenUpIsGone /\ GivenUpBehindShort BY <1>2, <1>3 DEF GivenUpIsGone, GivenUpBehindShort, Acts
<1>12. NamedTurnIs BY <1>3 DEF NamedTurnIs
<1> QED BY <1>1, <1>6, <1>7, <1>8, <1>10, <1>11, <1>12, <1>13, <1>14 DEF VersionsInv

(* Bounds are spent, never earned. *)
LEMMA DelegatesSpent == ASSUME Inv, Next PROVE left'["delegate"] <= left["delegate"]
<1>1. left \in [Disturbances -> Nat] BY DEF Inv, TypeOK, LeftTyped
<1>2. ASSUME NEW kind \in Disturbances, Spend(kind) PROVE left'["delegate"] <= left["delegate"]
  BY <1>1, <1>2 DEF Spend, Disturbances
<1>3. left' = left => left'["delegate"] <= left["delegate"] BY <1>1 DEF Disturbances
<1> USE DEF Disturbances
<1>4. CASE ExecStep
  BY <1>2, <1>3, <1>4 DEF ExecStep, TakeTask, Claim, LeaveUnclaimed, FinishRun, FailRun,
     EndRun, AbandonRun, ReportRun
<1>5. CASE ConvStep
  BY <1>2, <1>3, <1>5 DEF ConvStep, TakeHandback, HoldHandback, RefuseFeedback, BeginFeedback,
     Advance, EndTurn, SaveFeedback, SettleAsking, ReturnResult, RaiseInFeedback, RecordFailure,
     LeaveHandback
<1>6. CASE SweepStep
  BY <1>2, <1>3, <1>6 DEF SweepStep, BeginSweep, FindOrphans, CloseOrphan, FindLost, Decide,
     HandBackAgain, GiveUp, EndSweep
<1>7. CASE HostStep
  BY <1>2, <1>3, <1>7 DEF HostStep, RestartPends, RestartWithdrawn, BeginStop, StopCancels,
     EndProcess, Start
<1>8. CASE Environment
  BY <1>2, <1>3, <1>8 DEF Environment, Cancel, PolicyChanges, LeaseExpires, FollowUpSettles
<1> QED BY <1>4, <1>5, <1>6, <1>7, <1>8 DEF Next

(* A stop ends with the process. *)
LEMMA StoppingStays == ASSUME Next, stopping PROVE stopping' \/ EndProcess
<1>1. CASE ElsewhereStep BY <1>1, ElsewhereKeeps
<1>2. CASE WithinHandback
  BY <1>2 DEF WithinHandback, RefuseFeedback, BeginFeedback, Advance, SaveFeedback, SettleAsking,
              RaiseInFeedback, RecordFailure, EndTurn, lifecycle
<1>3. CASE ReportRun \/ HandBackAgain \/ TakeHandback \/ HoldHandback \/ ReturnResult \/ LeaveHandback
  BY <1>3 DEF ReportRun, HandBackAgain, TakeHandback, HoldHandback, ReturnResult, LeaveHandback,
              lifecycle
<1> QED BY <1>1, <1>2, <1>3, NextByQueue

(* What a step does to her turns on one result and to what its hand-backs    *)
(* left: nothing but the end of a wait, or a step of the worker that has it. *)
Still(t) ==
    /\ Marks(t)' = Marks(t)
    /\ \A v \in Versions : \/ turn'[t][v] = turn[t][v]
                           \/ turn[t][v] = "WAITING_TASK" /\ turn'[t][v] = "COMMITTED"
OwnTurn(t) == Version(conv.item.short)
OtherTurn(t) == Version(~conv.item.short)
Begins(t) == /\ conv.pc = "begin" /\ conv'.pc = "advance" /\ Marks(t)' = Marks(t)
             /\ turn[t][OwnTurn(t)] = "NONE" /\ turn'[t][OwnTurn(t)] = "TURN"
Runs(t)   == /\ conv.pc \in {"advance", "turn"} /\ Marks(t)' = Marks(t)
             /\ turn'[t][OwnTurn(t)] \notin {"NONE", "INTERRUPTED"}
             /\ turn'[t][OwnTurn(t)] = "WAITING_TASK" => left'["delegate"] < left["delegate"]
Saves(t)  == /\ conv.pc = "save" /\ turn'[t] = turn[t] /\ turn[t][OwnTurn(t)] # "NONE"
             /\ task'[t].failures = task[t].failures /\ task'[t].shortFailed = task[t].shortFailed
             /\ task'[t].fbEp \in {task[t].fbEp, OwnTurn(t)}
Raises(t) == /\ conv.pc = "raised" /\ Marks(t)' = Marks(t)
             /\ turn[t][OwnTurn(t)] \notin {"NONE", "COMMITTED", "WAITING_TASK"}
             /\ turn'[t][OwnTurn(t)] = IF stopping THEN "INTERRUPTED" ELSE "FAILED_RUNTIME"
Fails(t)  == /\ conv.pc = "raised" /\ conv'.pc = "leave" /\ conv'.item = conv.item
             /\ conv'.kept = conv.kept
             /\ UNCHANGED <<pending, handbacks, sweep, exec>>
             /\ turn'[t] = turn[t] /\ turn[t][OwnTurn(t)] = "NONE" /\ task'[t].fbEp = task[t].fbEp
             /\ IF conv.item.short
                THEN task'[t].failures = task[t].failures
                ELSE /\ task[t].failures < 2 => task'[t].failures = task[t].failures + 1
                     /\ task[t].failures = 2 => task'[t].failures = 2
             /\ task[t].shortFailed => task'[t].shortFailed
HeldMoves(t) ==
    /\ Held(t) /\ WithinHandback
    /\ turn'[t][OtherTurn(t)] = turn[t][OtherTurn(t)]
    /\ Begins(t) \/ Runs(t) \/ Saves(t) \/ Raises(t) \/ Fails(t)

LEMMA TurnsMove == ASSUME VersionsInv, Next, NEW t \in Tasks PROVE Still(t) \/ HeldMoves(t)
<1> USE DEF VersionsInv, WayInv, OnceInv
<1>a. task \in [Tasks -> TaskRows] /\ turn \in [Tasks -> [Versions -> TurnStates]]
  BY DEF Inv, TypeOK, RowsTyped
<1>b. task[t] \in TaskRows /\ turn[t] \in [Versions -> TurnStates] BY <1>a
<1>c. MarksMove(t) BY MarksAllMove
<1>d. ~Held(t) \/ conv' = conv => Still(t) BY <1>c DEF MarksMove, Still
<1>1. CASE ~WithinHandback
  <2>1. CASE ElsewhereStep BY <1>d, <2>1, ElsewhereKeeps DEF convVars
  <2>2. CASE ReportRun \/ HandBackAgain BY <1>d, <2>2, HandsBack
  <2>3. CASE TakeHandback \/ HoldHandback \/ ReturnResult \/ LeaveHandback \/ EndProcess
    <3>1. task' = task /\ turn' = turn
      BY <2>3 DEF TakeHandback, HoldHandback, ReturnResult, LeaveHandback, EndProcess, rows
    <3> QED BY <3>1 DEF Still, Marks
  <2> QED BY <1>1, <2>1, <2>2, <2>3, NextByQueue
<1>2. CASE WithinHandback /\ ~Held(t) BY <1>2, <1>d
<1>3. CASE WithinHandback /\ Held(t)
  <2> DEFINE v == OwnTurn(t)
             w == OtherTurn(t)
  <2>1. /\ conv.item.task = t /\ conv.item.short \in BOOLEAN
        /\ v \in Versions /\ w \in Versions /\ v # w /\ v = Version(conv.item.short)
    <3>1. conv.item.short \in BOOLEAN BY <1>3, ConvParts DEF Inv, TypeOK, Held
    <3> QED BY <1>3, <3>1 DEF Held, Version, Versions, OwnTurn, OtherTurn
  <2>2. Versions = {v, w} BY <2>1 DEF OwnTurn, OtherTurn, Version, Versions
  <2> HIDE DEF v, w
  <2>3. task' = task /\ turn' = turn => Still(t) BY DEF Still, Marks
  <2>4. CASE RefuseFeedback
    <3>1. turn' = turn /\ (task' = task \/ task' = [task EXCEPT ![t].fb = "SUPPRESSED"])
      BY <2>1, <2>4 DEF RefuseFeedback
    <3>2. Marks(t)' = Marks(t) BY <1>a, <1>b, <3>1 DEF Marks, TaskRows
    <3> QED BY <3>1, <3>2 DEF Still
  <2>5. CASE BeginFeedback
    <3> DEFINE u == IF ~conv.item.short /\ task[t].fbEp # "none" THEN task[t].fbEp
                    ELSE Version(conv.item.short)
    <3>1. u = v
      <4>1. CASE conv.item.short BY <2>1, <4>1
      <4>2. CASE ~conv.item.short
        <5>1. FullOnly(t) BY <1>3, <2>1, <4>2 DEF FullComesFirst, HeldAs
        <5> QED BY <1>b, <2>1, <4>2, <5>1 DEF FullOnly, Version, TaskRows, Versions
      <4> QED BY <2>1, <4>1, <4>2
    <3>2. /\ conv.pc = "begin" /\ task' = task
          /\ turn' = IF turn[t][u] = "NONE" THEN [turn EXCEPT ![t][u] = "TURN"] ELSE turn
          /\ conv'.pc = IF turn[t][u] \in Resumable \cup {"NONE", "FAILED_PROTOCOL"}
                        THEN "advance" ELSE "save"
      BY <2>1, <2>5 DEF BeginFeedback, At
    <3> HIDE DEF u
    <3>3. CASE turn[t][v] = "NONE"
      <4>1. turn'[t][v] = "TURN" /\ turn'[t][w] = turn[t][w]
        BY <1>a, <1>b, <2>1, <3>1, <3>2, <3>3
      <4>2. Begins(t) BY <3>1, <3>2, <3>3, <4>1 DEF Begins, Marks, v
      <4> QED BY <1>3, <4>1, <4>2 DEF HeldMoves, w
    <3>4. CASE turn[t][v] # "NONE" BY <2>3, <3>1, <3>2, <3>4
    <3> QED BY <3>3, <3>4
  <2>6. CASE Advance \/ \E outcome \in TurnOutcomes : EndTurn(outcome)
    <3>1. conv.pc \in {"advance", "turn"} /\ conv.ep = v /\ task' = task
      BY <2>1, <2>6 DEF Advance, EndTurn, TurnIsOfVersion
    <3>2. PICK new : /\ turn' = [turn EXCEPT ![t][v] = new] /\ new \notin {"NONE", "INTERRUPTED"}
                     /\ new = "WAITING_TASK" => Spend("delegate")
      <4>1. CASE Advance
        <5>1. \E new \in {"SUPPRESSED", "TURN"} : turn' = [turn EXCEPT ![t][v] = new]
          BY <2>1, <3>1, <4>1 DEF Advance
        <5> QED BY <5>1
      <4>2. ASSUME NEW outcome \in TurnOutcomes, EndTurn(outcome)
            PROVE  /\ turn' = [turn EXCEPT ![t][v] = outcome]
                   /\ outcome \notin {"NONE", "INTERRUPTED"}
                   /\ outcome = "WAITING_TASK" => Spend("delegate")
        BY <2>1, <3>1, <4>2 DEF EndTurn, TurnOutcomes
      <4> QED BY <2>6, <4>1, <4>2
    <3>3. turn'[t][v] = new /\ turn'[t][w] = turn[t][w] BY <1>a, <1>b, <2>1, <3>2
    <3>4. new = "WAITING_TASK" => left'["delegate"] < left["delegate"]
      BY <3>2 DEF Spend, Inv, TypeOK, LeftTyped, Disturbances
    <3>5. Runs(t) BY <3>1, <3>2, <3>3, <3>4 DEF Runs, Marks, v
    <3> QED BY <1>3, <3>3, <3>5 DEF HeldMoves, w
  <2>7. CASE SaveFeedback
    <3>1. /\ conv.pc = "save" /\ conv.ep = v /\ turn' = turn
          /\ turn[t][v] # "NONE"
          /\ \/ task' = task
             \/ \E fb : task' = [task EXCEPT ![t].fb = fb, ![t].fbEp = v]
      BY <2>1, <2>7 DEF SaveFeedback, TurnIsOfVersion, Inv, EndedTurnSaved
    <3>2. task'[t] = task[t] \/ \E fb : task'[t] = [task[t] EXCEPT !.fb = fb, !.fbEp = v]
      BY <1>a, <3>1
    <3>3. Saves(t) BY <1>b, <3>1, <3>2 DEF Saves, TaskRows, v
    <3> QED BY <1>3, <3>1, <3>3 DEF HeldMoves
  <2>8. CASE SettleAsking \/ RaiseInFeedback
    BY <2>3, <2>8 DEF SettleAsking, RaiseInFeedback, rows
  <2>9. CASE RecordFailure
    <3>1. conv.pc = "raised" /\ UNCHANGED <<pending, handbacks, sweep, exec>>
      BY <2>9 DEF RecordFailure, execVars
    <3>2. conv'.pc = "leave" /\ conv'.item = conv.item /\ conv'.kept = conv.kept
      BY <2>9, ConvParts DEF RecordFailure, Inv, TypeOK
    <3>3. \/ /\ turn[t][v] \notin {"NONE", "COMMITTED", "WAITING_TASK"} /\ task' = task
             /\ turn' = [turn EXCEPT ![t][v] = IF stopping THEN "INTERRUPTED" ELSE "FAILED_RUNTIME"]
          \/ turn[t][v] = "NONE" /\ turn' = turn /\ task' = HandbackFailed(t, conv.item.short)
          \/ task' = task /\ turn' = turn
      BY <2>1, <2>9 DEF RecordFailure
    <3>4. CASE /\ turn[t][v] \notin {"NONE", "COMMITTED", "WAITING_TASK"} /\ task' = task
               /\ turn' = [turn EXCEPT ![t][v] = IF stopping THEN "INTERRUPTED" ELSE "FAILED_RUNTIME"]
      <4>1. /\ turn'[t][v] = IF stopping THEN "INTERRUPTED" ELSE "FAILED_RUNTIME"
            /\ turn'[t][w] = turn[t][w]
        BY <1>a, <1>b, <2>1, <3>4
      <4>2. Raises(t) BY <3>1, <3>4, <4>1 DEF Raises, Marks, v
      <4> QED BY <1>3, <4>1, <4>2 DEF HeldMoves, w
    <3>5. CASE turn[t][v] = "NONE" /\ turn' = turn /\ task' = HandbackFailed(t, conv.item.short)
      <4>1. task[t].failures \in 0..2 BY <1>b DEF TaskRows, ReportFailuresBeforeShort
      <4>2. /\ task'[t].fbEp = task[t].fbEp
            /\ task[t].shortFailed => task'[t].shortFailed
            /\ IF conv.item.short THEN task'[t].failures = task[t].failures
               ELSE /\ task[t].failures < 2 => task'[t].failures = task[t].failures + 1
                    /\ task[t].failures = 2 => task'[t].failures = 2
        BY <1>a, <1>b, <2>1, <3>5, <4>1 DEF HandbackFailed, TaskRows, ReportFailuresBeforeShort
      <4>3. Fails(t) BY <3>1, <3>2, <3>5, <4>2 DEF Fails, v
      <4> QED BY <1>3, <3>5, <4>3 DEF HeldMoves
    <3> QED BY <2>3, <3>3, <3>4, <3>5
  <2> QED BY <1>3, <2>4, <2>5, <2>6, <2>7, <2>8, <2>9 DEF WithinHandback
<1> QED BY <1>1, <1>2, <1>3

(* Where a hand-back comes from. *)
LEMMA WaitsFrom ==
    ASSUME WayInv, Next, NEW t \in Tasks, NEW short \in BOOLEAN, WaitsAs(short, t)'
    PROVE  \/ WaitsAs(short, t)
           \/ ReportRun /\ Reports(t) /\ ~short
           \/ HandBackAgain /\ (short => Acts("short", t)) /\ (~short => Acts("full", t))
           \/ ReturnResult /\ HeldAs(short, t) /\ conv.pc = "result"
<1> USE DEF WayInv, OnceInv
<1>a. Typed BY InvTyped
<1>b. PICK item \in Handbacks : Waits(item)' /\ item.task = t /\ item.short = short
  BY DEF WaitsAs
<1>1. CASE pending' = pending BY <1>b, <1>1 DEF WaitsAs, Waits
<1>2. CASE TakeHandback
  <2>1. pending # <<>> /\ pending' = Tail(pending) BY <1>2 DEF TakeHandback
  <2> QED BY <1>a, <1>b, <2>1, WaitsTail DEF WaitsAs
<1>3. CASE EndProcess
  <2>1. pending' = <<>> BY <1>3 DEF EndProcess
  <2> QED BY <1>b, <2>1, EmptySeq DEF Waits
<1>4. CASE ReportRun /\ pending' # pending
  <2> DEFINE new == [task |-> exec.task, short |-> FALSE, again |-> FALSE]
  <2>1. exec.pc = "report" /\ pending' = Append(pending, new) BY <1>4 DEF ReportRun, HandBack
  <2>2. new \in Handbacks BY <2>1, ExecParts DEF Inv, TypeOK, Handbacks
  <2>3. Waits(item) \/ item = new BY <1>a, <1>b, <2>1, <2>2, WaitsAppend
  <2> QED BY <1>4, <1>b, <2>1, <2>3 DEF WaitsAs, Reports
<1>5. CASE HandBackAgain /\ pending' # pending
  <2> DEFINE again == sweep.step = "short"
             new == [task |-> sweep.task, short |-> again, again |-> TRUE]
  <2>1. sweep.pc = "act" /\ sweep.step # "give_up" /\ pending' = Append(pending, new)
    BY <1>5 DEF HandBackAgain, HandBack
  <2>2. sweep.task \in Tasks /\ sweep.step \in {"full", "short"}
    BY <2>1, SweepParts DEF Inv, TypeOK
  <2>3. new \in Handbacks /\ again \in BOOLEAN BY <2>2 DEF Handbacks
  <2>4. Waits(item) \/ item = new BY <1>a, <1>b, <2>1, <2>3, WaitsAppend
  <2>5. CASE Waits(item) BY <1>b, <2>5 DEF WaitsAs
  <2>6. CASE item = new
    <3>1. t = sweep.task /\ (short <=> sweep.step = "short") BY <1>b, <2>3, <2>6
    <3> QED BY <1>5, <2>1, <2>2, <3>1 DEF Acts
  <2> QED BY <2>4, <2>5, <2>6
<1>6. CASE ReturnResult /\ pending' # pending
  <2>1. conv.pc = "result" /\ pending' = Append(pending, conv.item) BY <1>6, Returns
  <2>2. conv.item \in Handbacks BY <2>1, ConvParts DEF Inv, TypeOK
  <2>3. Waits(item) \/ item = conv.item BY <1>a, <1>b, <2>1, <2>2, WaitsAppend
  <2> QED BY <1>b, <1>6, <2>1, <2>3 DEF WaitsAs, HeldAs, Held
<1>7. CASE ElsewhereStep \/ WithinHandback \/ HoldHandback \/ LeaveHandback
  <2>1. pending' = pending
    <3>1. CASE ElsewhereStep BY <3>1, ElsewhereKeeps DEF convVars
    <3>2. CASE WithinHandback BY <3>2, WithinKeeps
    <3>3. CASE HoldHandback \/ LeaveHandback
      BY <3>3 DEF HoldHandback, LeaveHandback, NoRestart
    <3> QED BY <1>7, <3>1, <3>2, <3>3
  <2> QED BY <1>1, <2>1
<1> QED BY <1>1, <1>2, <1>3, <1>4, <1>5, <1>6, <1>7, NextByQueue

LEMMA HeldFrom ==
    ASSUME WayInv, Next, NEW t \in Tasks, NEW short, HeldAs(short, t)'
    PROVE  \/ HeldAs(short, t) /\ conv'.item = conv.item
           \/ WaitsAs(short, t) /\ TakeHandback /\ conv'.pc = "held" /\ ~stopping
<1> USE DEF WayInv, OnceInv
<1>1. CASE ElsewhereStep \/ ReportRun \/ HandBackAgain
  <2>1. conv' = conv
    <3>1. CASE ElsewhereStep BY <3>1, ElsewhereKeeps DEF convVars
    <3>2. CASE ReportRun \/ HandBackAgain BY <3>2, HandsBack
    <3> QED BY <1>1, <3>1, <3>2
  <2> QED BY <2>1 DEF HeldAs, Held
<1>2. CASE WithinHandback BY <1>2, WithinKeeps DEF HeldAs, Held
<1>3. CASE TakeHandback
  <2>1. pending # <<>> /\ pending' = Tail(pending) /\ conv' = [pc |-> "held", item |-> Head(pending)]
        /\ ~stopping
    BY <1>3 DEF TakeHandback
  <2>2. Head(pending) \in Handbacks BY <2>1, InvTyped, QueuedTail
  <2>3. Waits(Head(pending)) BY <2>1, <2>2, InvTyped, WaitsTail
  <2> QED BY <1>3, <2>1, <2>2, <2>3 DEF HeldAs, Held, WaitsAs
<1>4. CASE HoldHandback
  <2>1. conv.pc = "held" /\ conv'.item = conv.item BY <1>4 DEF HoldHandback
  <2> QED BY <2>1 DEF HeldAs, Held
<1>5. CASE ReturnResult BY <1>5, Returns DEF HeldAs, Held
<1>6. CASE LeaveHandback \/ EndProcess BY <1>6 DEF LeaveHandback, EndProcess, IdleConv, HeldAs, Held
<1> QED BY <1>1, <1>2, <1>3, <1>4, <1>5, <1>6, NextByQueue

(* Who is leaving goes. *)
LEMMA LeavesGoes ==
    ASSUME WayInv, Next, NEW t \in Tasks, Leaves(t)
    PROVE  conv' = conv \/ (conv'.pc = "idle" /\ t \notin handbacks')
<1> USE DEF WayInv, OnceInv
<1>0. conv.pc = "leave" /\ ~conv.kept /\ conv.item.task = t BY DEF Leaves, Held
<1>1. CASE ElsewhereStep BY <1>1, ElsewhereKeeps DEF convVars
<1>2. CASE ReportRun \/ HandBackAgain BY <1>2, HandsBack
<1>3. CASE WithinHandback
  BY <1>0, <1>3 DEF WithinHandback, RefuseFeedback, BeginFeedback, Advance, EndTurn, SaveFeedback,
                    SettleAsking, RaiseInFeedback, RecordFailure
<1>4. CASE TakeHandback \/ HoldHandback \/ ReturnResult
  BY <1>0, <1>4 DEF TakeHandback, HoldHandback, ReturnResult
<1>5. CASE LeaveHandback BY <1>0, <1>5 DEF LeaveHandback, IdleConv
<1>6. CASE EndProcess BY <1>6 DEF EndProcess, IdleConv
<1> QED BY <1>1, <1>2, <1>3, <1>4, <1>5, <1>6, NextByQueue

(* The watchdog acts as it just decided, or as it was about to. *)
LEMMA ActsFrom ==
    ASSUME Next, NEW t \in Tasks, NEW step, Acts(step, t)'
    PROVE  \/ Acts(step, t) /\ UNCHANGED sweep
           \/ Decide(t) /\ NextStep(t) = step
<1>1. CASE UNCHANGED sweep BY <1>1 DEF Acts
<1>2. CASE sweep' = IdleSweep BY <1>2 DEF Acts, IdleSweep
<1>3. CASE SweepStep
  <2>1. CASE \E s \in Tasks : Decide(s)
    <3>1. PICK s \in Tasks : Decide(s) BY <2>1
    <3>2. sweep'.task = s /\ sweep'.step = NextStep(s) BY <3>1 DEF Decide
    <3> HIDE DEF Decide, NextStep
    <3> QED BY <3>1, <3>2 DEF Acts
  <2>2. CASE CloseOrphan
    <3>1. (sweep'.pc = sweep.pc /\ sweep.pc = "closing") \/ sweep'.pc # "act"
      <4>1. sweep.pc = "closing" /\ \E x, w : sweep' = [sweep EXCEPT !.todo = x, !.onWay = w]
        BY <2>2 DEF CloseOrphan
      <4> QED BY <4>1
    <3> QED BY <3>1 DEF Acts
  <2>3. CASE BeginSweep \/ FindOrphans \/ FindLost \/ HandBackAgain \/ GiveUp \/ EndSweep
    <3>1. sweep'.pc # "act"
      <4>1. CASE BeginSweep \/ FindOrphans \/ FindLost
        BY <4>1 DEF BeginSweep, FindOrphans, FindLost
      <4>2. CASE HandBackAgain \/ GiveUp
        <5>1. sweep' = [pc |-> "lost", todo |-> sweep.todo] BY <4>2 DEF HandBackAgain, GiveUp
        <5> QED BY <5>1
      <4>3. CASE EndSweep BY <4>3 DEF EndSweep, IdleSweep
      <4> QED BY <2>3, <4>1, <4>2, <4>3
    <3> QED BY <3>1 DEF Acts
  <2> QED BY <1>3, <2>1, <2>2, <2>3 DEF SweepStep
<1> QED BY <1>1, <1>2, <1>3, SweepOwn

(* What is to be reported was to be, or its run just ended: then nothing of  *)
(* it was on its way before.                                                 *)
LEMMA ReportsFrom ==
    ASSUME WayInv, Next, NEW t \in Tasks, Reports(t)'
    PROVE  \/ Reports(t) /\ exec' = exec
           \/ Fresh(t) /\ t \notin handbacks /\ FullOnly(t) /\ ~HandBackAgain /\ task'[t].fb = "READY"
<1> USE DEF WayInv, OnceInv
<1>1. CASE exec' = exec BY <1>1 DEF Reports
<1>2. CASE \E outcome \in Finished : EndRun(outcome) /\ StillMine /\ exec.pc = "running"
                                     /\ exec'.task = exec.task
  <2>1. exec.task = t /\ task[t].state = "RUNNING" BY <1>2 DEF StillMine, EndRun, Reports
  <2>2. Fresh(t) /\ t \notin handbacks BY <2>1 DEF UnrunIsFresh
  <2>3. ~Held(t) /\ ~Queued(t) BY <2>2 DEF MarkedOnWay
  <2>4. \A item \in Handbacks : item.task = t => ~Waits(item) BY <2>3 DEF Waits, Queued
  <2>5. FullOnly(t) BY <2>2, <2>3, <2>4 DEF FullOnly, Fresh, Versions
  <2>6. ~HandBackAgain
    <3>1. exec'.pc = "report" /\ exec.pc = "running" BY <1>2 DEF EndRun
    <3>2. HandBackAgain => exec' = exec BY DEF HandBackAgain, execVars
    <3> QED BY <3>1, <3>2
  <2>7. task'[t].fb = "READY"
    <3>1. task \in [Tasks -> TaskRows] /\ task[t] \in TaskRows BY DEF Inv, TypeOK, RowsTyped
    <3> QED BY <1>2, <2>1, <3>1 DEF EndRun, TaskRows
  <2> QED BY <2>2, <2>5, <2>6, <2>7
<1> QED BY <1>1, <1>2, ReportOwn DEF Reports

LEMMA WaitsOnlyDelegatedNext == ASSUME VersionsInv, Next PROVE WaitsOnlyDelegated'
<1> USE DEF VersionsInv
<1>0. left \in [Disturbances -> Nat] /\ left' \in [Disturbances -> Nat]
  <2>1. Inv' BY InvNext DEF WayInv, OnceInv
  <2> QED BY <2>1 DEF WayInv, OnceInv, Inv, TypeOK, LeftTyped
<1>1. left'["delegate"] <= left["delegate"] BY DelegatesSpent DEF WayInv, OnceInv
<1>2. /\ Bound["delegate"] \in Nat /\ left["delegate"] \in Nat /\ left'["delegate"] \in Nat
  BY <1>0, TaskHandbackAssumption DEF Disturbances
<1>3. ASSUME NothingDelegated', NEW t \in Tasks, NEW v \in Versions, turn'[t][v] = "WAITING_TASK"
      PROVE  FALSE
  <2>1. NothingDelegated /\ left'["delegate"] = left["delegate"]
    BY <1>1, <1>2, <1>3 DEF NothingDelegated, WaitsOnlyDelegated
  <2>2. turn[t][v] # "WAITING_TASK" BY <2>1 DEF WaitsOnlyDelegated
  <2>3. ~Still(t) BY <1>3, <2>2 DEF Still
  <2>4. HeldMoves(t) BY <2>3, TurnsMove
  <2>5. v = OwnTurn(t)
    <3>1. OwnTurn(t) \in Versions /\ Versions \ {OwnTurn(t)} = {OtherTurn(t)}
      <4>1. conv.item.short \in BOOLEAN
        BY <2>4, ConvParts DEF HeldMoves, Held, WayInv, OnceInv, Inv, TypeOK
      <4> QED BY <4>1 DEF OwnTurn, OtherTurn, Version, Versions
    <3> QED BY <1>3, <2>2, <2>4, <3>1 DEF HeldMoves
  <2> QED BY <1>2, <1>3, <2>1, <2>2, <2>4, <2>5 DEF HeldMoves, Begins, Runs, Saves, Raises, Fails
<1> QED BY <1>1, <1>2, <1>3 DEF WaitsOnlyDelegated

LEMMA NamedTurnIsNext == ASSUME VersionsInv, Next PROVE NamedTurnIs'
<1> SUFFICES ASSUME NEW t \in Tasks, task'[t].fbEp # "none" PROVE turn'[t][task'[t].fbEp] # "NONE"
  BY DEF NamedTurnIs
<1> USE DEF VersionsInv, WayInv, OnceInv
<1>0. task'[t].fbEp \in Versions
  <2>1. Inv' BY InvNext
  <2> QED BY <2>1 DEF Inv, TypeOK, RowsTyped, TaskRows
<1>1. MarksMove(t) BY MarksAllMove
<1>2. CASE task'[t].fbEp = task[t].fbEp BY <1>0, <1>1, <1>2 DEF NamedTurnIs, MarksMove
<1>3. CASE task'[t].fbEp # task[t].fbEp
  <2>1. HeldMoves(t) BY <1>3, TurnsMove DEF Still, Marks
  <2>2. Saves(t) BY <1>3, <2>1 DEF HeldMoves, Begins, Runs, Raises, Fails, Marks
  <2> QED BY <1>3, <2>2 DEF Saves
<1> QED BY <1>2, <1>3

LEMMA FullComesFirstNext == ASSUME VersionsInv, Next PROVE FullComesFirst'
<1> SUFFICES ASSUME NEW t \in Tasks,
                    WaitsAs(FALSE, t)' \/ HeldAs(FALSE, t)' \/ Acts("full", t)' \/ Reports(t)'
             PROVE  FullOnly(t)'
  BY DEF FullComesFirst
<1> USE DEF VersionsInv, WayInv, OnceInv
<1>1. FullOnly(t)
  <2>1. CASE WaitsAs(FALSE, t)' BY <2>1, WaitsFrom DEF FullComesFirst
  <2>2. CASE HeldAs(FALSE, t)' BY <2>2, HeldFrom DEF FullComesFirst
  <2>3. CASE Acts("full", t)'
    <3>1. CASE Acts("full", t) BY <3>1 DEF FullComesFirst
    <3>2. CASE Decide(t) /\ NextStep(t) = "full"
      <4>1. turn[t]["short"] = "NONE" /\ ~task[t].shortFailed BY <3>2 DEF NextStep
      <4>2. task[t].fbEp # "short" BY <4>1 DEF NamedTurnIs
      <4>3. CASE t \in handbacks
        <5>1. Swept(t) BY <3>2 DEF Decide, Swept
        <5> QED BY <4>3, <5>1 DEF SweptIsFull
      <4>4. CASE t \notin handbacks
        <5>1. ~Held(t) /\ ~Queued(t) BY <4>4 DEF MarkedOnWay
        <5>2. \A item \in Handbacks : item.task = t => ~Waits(item) BY <5>1 DEF Waits, Queued
        <5> QED BY <4>1, <4>2, <5>1, <5>2 DEF FullOnly
      <4> QED BY <4>3, <4>4
    <3> QED BY <2>3, <3>1, <3>2, ActsFrom
  <2>4. CASE Reports(t)' BY <2>4, ReportsFrom DEF FullComesFirst
  <2> QED BY <2>1, <2>2, <2>3, <2>4
<1>2. CASE ~(HandBackAgain /\ t = sweep.task /\ sweep.step = "short") BY <1>1, <1>2, FullOnlyKept
<1>3. CASE HandBackAgain /\ t = sweep.task /\ sweep.step = "short"
  <2>0. sweep.pc = "act" /\ HandBack(t, TRUE, TRUE) /\ UNCHANGED <<rows, execVars, conv>>
        /\ sweep' = [pc |-> "lost", todo |-> sweep.todo]
    BY <1>3 DEF HandBackAgain
  <2>1. CASE t \in handbacks
    <3>1. UNCHANGED <<pending, conv, task, turn>> BY <2>0, <2>1 DEF HandBack, rows
    <3> QED BY <1>1, <3>1 DEF FullOnly, Held, Waits
  <2>2. CASE t \notin handbacks
    <3>1. ~Held(t) /\ ~Queued(t) BY <2>2 DEF MarkedOnWay
    <3>2. ~HeldAs(FALSE, t)' BY <2>0, <3>1 DEF HeldAs, Held
    <3>3. ~WaitsAs(FALSE, t)'
      <4>1. ~WaitsAs(FALSE, t) BY <3>1 DEF WaitsAs, Waits, Queued
      <4>2. ~Acts("full", t) BY <1>3 DEF Acts
      <4>3. ~Reports(t)
        <5>1. Swept(t) /\ ~Fresh(t) BY <1>3, <2>0 DEF Swept, Decided
        <5> QED BY <5>1 DEF Reports, ReportsFirst
      <4>4. ~HeldAs(FALSE, t) BY <3>1 DEF HeldAs
      <4> QED BY <4>1, <4>2, <4>3, <4>4, WaitsFrom
    <3>4. ~Acts("full", t)' BY <2>0 DEF Acts
    <3>5. ~Reports(t)'
      <4>1. Swept(t) /\ ~Fresh(t) BY <1>3, <2>0 DEF Swept, Decided
      <4>2. exec' = exec BY <2>0 DEF execVars
      <4> QED BY <4>1, <4>2 DEF Reports, ReportsFirst
    <3> QED BY <3>2, <3>3, <3>4, <3>5
  <2> QED BY <2>1, <2>2
<1> QED BY <1>2, <1>3

(* A turn begins on the hand-back's own version, and goes on with it. *)
LEMMA EpFrom ==
    ASSUME VersionsInv, Next, conv'.pc \in {"advance", "turn", "save", "settle", "result"}
    PROVE  /\ conv'.item = conv.item
           /\ \/ conv.pc \in {"advance", "turn", "save", "settle", "result"} /\ conv'.ep = conv.ep
              \/ BeginFeedback /\ conv'.ep = Version(conv.item.short)
<1> USE DEF VersionsInv, WayInv, OnceInv
<1>1. CASE ElsewhereStep \/ ReportRun \/ HandBackAgain
  <2>1. conv' = conv
    <3>1. CASE ElsewhereStep BY <3>1, ElsewhereKeeps DEF convVars
    <3>2. CASE ReportRun \/ HandBackAgain BY <3>2, HandsBack
    <3> QED BY <1>1, <3>1, <3>2
  <2> QED BY <2>1
<1>2. CASE BeginFeedback
  <2> DEFINE t == conv.item.task
             u == IF ~conv.item.short /\ task[t].fbEp # "none" THEN task[t].fbEp
                  ELSE Version(conv.item.short)
  <2>1. conv.pc = "begin" /\ \E pc : conv' = At(pc, u) BY <1>2 DEF BeginFeedback
  <2>2. t \in Tasks /\ task[t] \in TaskRows BY <2>1, ConvParts DEF Inv, TypeOK, RowsTyped
  <2>3. u = Version(conv.item.short)
    <3>1. CASE conv.item.short BY <3>1
    <3>2. CASE ~conv.item.short
      <4>1. FullOnly(t)
        <5>1. conv.item.short = FALSE BY <2>1, <3>2, ConvParts DEF Inv, TypeOK
        <5> QED BY <2>1, <2>2, <5>1 DEF FullComesFirst, HeldAs, Held
      <4> QED BY <2>2, <3>2, <4>1 DEF FullOnly, Version, TaskRows, Versions
    <3> QED BY <3>1, <3>2
  <2> HIDE DEF u
  <2> QED BY <1>2, <2>1, <2>3 DEF At
<1>3. CASE \/ Advance \/ SaveFeedback \/ SettleAsking
           \/ \E outcome \in TurnOutcomes : EndTurn(outcome)
  <2>1. conv.pc \in {"advance", "turn", "save", "settle"} /\ \E pc : conv' = At(pc, conv.ep)
    BY <1>3 DEF Advance, SaveFeedback, SettleAsking, EndTurn
  <2> QED BY <2>1 DEF At
<1>4. CASE RefuseFeedback \/ RaiseInFeedback BY <1>4 DEF RefuseFeedback, RaiseInFeedback, Leave, Raise
<1>5. CASE RecordFailure
  <2>1. conv'.pc = "leave" BY <1>5, ConvParts DEF RecordFailure, Inv, TypeOK
  <2> QED BY <2>1
<1>6. CASE TakeHandback \/ HoldHandback \/ ReturnResult
  <2>1. conv'.pc \in {"held", "leave", "begin", "raised"}
    BY <1>6 DEF TakeHandback, HoldHandback, ReturnResult
  <2> QED BY <2>1
<1>7. CASE LeaveHandback \/ EndProcess BY <1>7 DEF LeaveHandback, EndProcess, IdleConv
<1> QED BY <1>1, <1>2, <1>3, <1>4, <1>5, <1>6, <1>7, NextByQueue DEF WithinHandback

LEMMA TurnIsOfVersionNext == ASSUME VersionsInv, Next PROVE TurnIsOfVersion'
BY EpFrom DEF VersionsInv, TurnIsOfVersion

LEMMA RunsOpenTurnNext == ASSUME VersionsInv, Next PROVE RunsOpenTurn'
<1> SUFFICES ASSUME conv'.pc \in {"advance", "turn"}
             PROVE  turn'[conv'.item.task][conv'.ep] \in Resumable \cup {"FAILED_PROTOCOL"}
  BY DEF RunsOpenTurn
<1> USE DEF VersionsInv, WayInv, OnceInv
<1> DEFINE t == conv.item.task
<1>1. conv'.item = conv.item /\ conv'.pc \notin {"idle", "held", "begin", "leave", "raised"} BY EpFrom
<1>2. conv'.ep \in Versions /\ t \in Tasks
  <2>1. conv.pc # "idle" BY EpFrom DEF BeginFeedback
  <2>2. t \in Tasks /\ Version(conv.item.short) \in Versions
    BY <2>1, ConvParts DEF Inv, TypeOK, Version, Versions
  <2> QED BY <2>2, EpFrom, ConvParts DEF Inv, TypeOK
<1>3. turn \in [Tasks -> [Versions -> TurnStates]] /\ turn[t] \in [Versions -> TurnStates]
  BY <1>2 DEF Inv, TypeOK, RowsTyped
<1>4. CASE conv' = conv
  <2>1. MarksMove(t) BY <1>2, MarksAllMove
  <2>2. turn[t][conv.ep] \in Resumable \cup {"FAILED_PROTOCOL"} BY <1>4 DEF RunsOpenTurn
  <2> QED BY <1>2, <1>4, <2>1, <2>2 DEF MarksMove, Resumable
<1>5. CASE BeginFeedback
  <2>1. \E v : /\ turn' = IF turn[t][v] = "NONE" THEN [turn EXCEPT ![t][v] = "TURN"] ELSE turn
               /\ conv' = At(IF turn[t][v] \in Resumable \cup {"NONE", "FAILED_PROTOCOL"}
                             THEN "advance" ELSE "save", v)
    BY <1>5 DEF BeginFeedback
  <2>2. /\ turn' = IF turn[t][conv'.ep] = "NONE" THEN [turn EXCEPT ![t][conv'.ep] = "TURN"] ELSE turn
        /\ turn[t][conv'.ep] \in Resumable \cup {"NONE", "FAILED_PROTOCOL"}
    BY <2>1 DEF At
  <2> QED BY <1>1, <1>2, <1>3, <2>2 DEF Resumable
<1>6. CASE Advance
  <2>1. /\ turn' = [turn EXCEPT ![t][conv.ep] = IF StaleResult(t) THEN "SUPPRESSED" ELSE "TURN"]
        /\ conv'.ep = conv.ep /\ conv'.pc = IF StaleResult(t) THEN "save" ELSE "turn"
    BY <1>6 DEF Advance, At
  <2> HIDE DEF StaleResult
  <2>2. turn' = [turn EXCEPT ![t][conv'.ep] = "TURN"] BY <2>1
  <2> QED BY <1>1, <1>2, <1>3, <2>2 DEF Resumable
<1>7. CASE WithinHandback /\ ~BeginFeedback /\ ~Advance
  <2>1. conv'.pc \in {"leave", "raised", "save", "settle", "result"}
    <3>1. RecordFailure => conv'.pc = "leave" BY ConvParts DEF RecordFailure, Inv, TypeOK
    <3>2. RefuseFeedback \/ RaiseInFeedback => conv'.pc \in {"leave", "raised"}
      BY DEF RefuseFeedback, RaiseInFeedback, Leave, Raise
    <3>3. CASE SaveFeedback \/ SettleAsking \/ \E outcome \in TurnOutcomes : EndTurn(outcome)
      <4>1. \E pc \in {"save", "settle", "result"} : conv' = At(pc, conv.ep)
        BY <3>3 DEF SaveFeedback, SettleAsking, EndTurn
      <4> QED BY <4>1 DEF At
    <3> QED BY <1>7, <3>1, <3>2, <3>3 DEF WithinHandback
  <2> QED BY <2>1
<1>8. CASE ElsewhereStep \/ ReportRun \/ HandBackAgain
  <2>1. conv' = conv
    <3>1. CASE ElsewhereStep BY <3>1, ElsewhereKeeps DEF convVars
    <3>2. CASE ReportRun \/ HandBackAgain BY <3>2, HandsBack
    <3> QED BY <1>8, <3>1, <3>2
  <2> QED BY <1>4, <2>1
<1>9. CASE TakeHandback \/ HoldHandback \/ ReturnResult
  <2>1. conv'.pc \in {"held", "leave", "begin", "raised"}
    BY <1>9 DEF TakeHandback, HoldHandback, ReturnResult
  <2> QED BY <2>1
<1>10. CASE LeaveHandback \/ EndProcess BY <1>10 DEF LeaveHandback, EndProcess, IdleConv
<1> QED BY <1>5, <1>6, <1>7, <1>8, <1>9, <1>10, NextByQueue

LEMMA KeptHasTurnNext == ASSUME VersionsInv, Next PROVE KeptHasTurn'
<1> SUFFICES ASSUME Kept', ~conv'.item.short PROVE turn'[conv'.item.task]["full"] # "NONE"
  BY DEF KeptHasTurn
<1> USE DEF VersionsInv, WayInv, OnceInv
<1>1. ASSUME Kept, conv'.item = conv.item PROVE turn'[conv'.item.task]["full"] # "NONE"
  <2>1. conv.item.task \in Tasks BY <1>1, ConvParts DEF Kept, Inv, TypeOK
  <2>2. MarksMove(conv.item.task) BY <2>1, MarksAllMove
  <2> QED BY <1>1, <2>2 DEF KeptHasTurn, MarksMove, Versions
<1>2. CASE ElsewhereStep \/ ReportRun \/ HandBackAgain
  <2>1. conv' = conv
    <3>1. CASE ElsewhereStep BY <3>1, ElsewhereKeeps DEF convVars
    <3>2. CASE ReportRun \/ HandBackAgain BY <3>2, HandsBack
    <3> QED BY <1>2, <3>1, <3>2
  <2> QED BY <1>1, <2>1 DEF Kept
<1>3. CASE WithinHandback BY <1>1, <1>3, WithinKeeps
<1>4. CASE TakeHandback \/ HoldHandback
  <2>1. conv'.pc = "held" \/ conv'.kept = FALSE BY <1>4 DEF TakeHandback, HoldHandback
  <2> QED BY <2>1 DEF Kept
<1>5. CASE ReturnResult
  <2>1. /\ conv.pc = "result" /\ conv'.item = conv.item /\ turn' = turn
        /\ conv'.kept = (turn[conv.item.task][conv.ep] = "FAILED_PROTOCOL")
    BY <1>5 DEF ReturnResult, rows
  <2>2. conv.ep = "full" BY <2>1 DEF TurnIsOfVersion, Version
  <2>3. turn[conv.item.task][conv.ep] = "FAILED_PROTOCOL" BY <2>1 DEF Kept
  <2> QED BY <2>1, <2>2, <2>3
<1>6. CASE LeaveHandback \/ EndProcess BY <1>6 DEF LeaveHandback, EndProcess, IdleConv, Kept
<1> QED BY <1>2, <1>3, <1>4, <1>5, <1>6, NextByQueue

(* The row of a task and her turns on it. *)
LEMMA RowOf == ASSUME Inv, NEW t \in Tasks PROVE
    /\ task[t] \in TaskRows /\ task[t].failures \in 0..2
    /\ turn[t] \in [Versions -> TurnStates]
BY DEF Inv, TypeOK, RowsTyped, TaskRows, ReportFailuresBeforeShort

(* The worker moves a turn of one of the two versions it has in its hands. *)
LEMMA HeldVersion == ASSUME Inv, NEW t \in Tasks, Held(t) PROVE
    /\ conv.pc # "idle" /\ conv.item.task = t
    /\ HeldAs(TRUE, t) \/ HeldAs(FALSE, t)
    /\ conv.item.short => OwnTurn(t) = "short" /\ OtherTurn(t) = "full"
    /\ ~conv.item.short => OwnTurn(t) = "full" /\ OtherTurn(t) = "short"
<1>1. conv.pc # "idle" /\ conv.item.task = t BY DEF Held
<1>2. conv.item.short \in BOOLEAN BY <1>1, ConvParts DEF Inv, TypeOK
<1> QED BY <1>1, <1>2 DEF HeldAs, OwnTurn, OtherTurn, Version

(* A hand-back that fails before it reached a turn leaves for good. *)
LEMMA FailedLeaves ==
    ASSUME VersionsInv, NEW t \in Tasks, Held(t), Fails(t), ~conv.item.short
    PROVE  /\ Leaves(t)' /\ t \in handbacks
           /\ ~Queued(t)
           /\ turn[t]["full"] = "NONE" /\ turn'[t]["full"] = "NONE"
           /\ UNCHANGED <<pending, sweep, exec>> /\ conv.pc = "raised"
<1> USE DEF VersionsInv, WayInv, OnceInv
<1>1. /\ conv.pc = "raised" /\ conv'.pc = "leave" /\ conv'.item = conv.item /\ conv'.kept = conv.kept
      /\ UNCHANGED <<pending, sweep, exec>> /\ turn'[t] = turn[t]
      /\ turn[t]["full"] = "NONE" /\ conv.item.task = t
  BY HeldVersion DEF Fails
<1>2. ~conv.kept BY <1>1 DEF KeptHasTurn, Kept
<1>3. ~Queued(t) /\ t \in handbacks BY <1>1, <1>2 DEF HeldOnce, MarkedOnWay, Kept
<1>4. Leaves(t)' BY <1>1, <1>2 DEF Leaves, Held
<1> QED BY <1>1, <1>3, <1>4

LEMMA TwoFailuresEndFullNext == ASSUME VersionsInv, Next PROVE TwoFailuresEndFull'
<1> SUFFICES ASSUME NEW t \in Tasks, task'[t].failures = 2
             PROVE  /\ turn'[t]["full"] = "NONE" /\ ~WaitsAs(FALSE, t)' /\ ~Acts("full", t)'
                    /\ ~Reports(t)'
                    /\ HeldAs(FALSE, t)' => Leaves(t)'
  BY DEF TwoFailuresEndFull
<1> USE DEF VersionsInv, WayInv, OnceInv
<1>a. task[t].failures \in 0..2 BY RowOf
<1>1. CASE task[t].failures = 2
  <2>1. /\ turn[t]["full"] = "NONE" /\ ~WaitsAs(FALSE, t) /\ ~Acts("full", t) /\ ~Reports(t)
        /\ HeldAs(FALSE, t) => Leaves(t)
    BY <1>1 DEF TwoFailuresEndFull
  <2>2. turn'[t]["full"] = "NONE"
    <3>1. CASE Still(t) BY <2>1, <3>1 DEF Still, Versions
    <3>2. CASE HeldMoves(t)
      <4>1. conv.pc # "leave" BY <3>2 DEF HeldMoves, Begins, Runs, Saves, Raises, Fails
      <4>2. ~HeldAs(FALSE, t) BY <2>1, <4>1 DEF Leaves
      <4>3. conv.item.short BY <3>2, <4>2 DEF HeldMoves, HeldAs, Inv, TypeOK, Held
      <4> QED BY <2>1, <3>2, <4>3, HeldVersion DEF HeldMoves
    <3> QED BY <3>1, <3>2, TurnsMove
  <2>3. ~WaitsAs(FALSE, t)'
    <3> SUFFICES ASSUME WaitsAs(FALSE, t)' PROVE FALSE OBVIOUS
    <3>1. HeldAs(FALSE, t) /\ conv.pc = "result" BY <2>1, WaitsFrom
    <3> QED BY <2>1, <3>1 DEF Leaves
  <2>4. ~Acts("full", t)'
    <3>1. NextStep(t) # "full" BY <1>1 DEF NextStep, ReportFailuresBeforeShort
    <3> QED BY <2>1, <3>1, ActsFrom
  <2>5. ~Reports(t)' BY <1>1, <2>1, ReportsFrom DEF Fresh
  <2>6. ASSUME HeldAs(FALSE, t)' PROVE Leaves(t)'
    <3>1. HeldAs(FALSE, t) BY <2>1, <2>6, HeldFrom
    <3>2. Leaves(t) BY <2>1, <3>1
    <3>3. conv' = conv BY <2>6, <3>2, LeavesGoes DEF HeldAs, Held
    <3> QED BY <3>2, <3>3 DEF Leaves, Held
  <2> QED BY <2>2, <2>3, <2>4, <2>5, <2>6
<1>2. CASE task[t].failures # 2
  <2>1. HeldMoves(t) BY <1>2, TurnsMove DEF Still, Marks
  <2>2. Fails(t) /\ Held(t) BY <1>2, <2>1 DEF HeldMoves, Begins, Runs, Saves, Raises, Marks
  <2>3. ~conv.item.short /\ task[t].failures = 1 BY <1>a, <1>2, <2>2 DEF Fails
  <2>4. /\ Leaves(t)' /\ t \in handbacks /\ ~Queued(t)
        /\ turn[t]["full"] = "NONE" /\ turn'[t]["full"] = "NONE"
        /\ UNCHANGED <<pending, sweep, exec>> /\ conv.pc = "raised"
    BY <2>2, <2>3, FailedLeaves
  <2>5. ~Leaves(t) BY <2>4 DEF Leaves
  <2>6. ~Swept(t) /\ ~Reports(t) BY <2>3, <2>4, <2>5 DEF OneMoreTry
  <2>7. ~WaitsAs(FALSE, t)'
    <3>1. ~WaitsAs(FALSE, t) BY <2>4 DEF WaitsAs, Waits, Queued
    <3> QED BY <2>4, <3>1 DEF WaitsAs, Waits
  <2>8. ~Acts("full", t)' BY <2>4, <2>6 DEF Acts, Swept
  <2>9. ~Reports(t)' BY <2>4, <2>6 DEF Reports
  <2> QED BY <2>4, <2>7, <2>8, <2>9
<1> QED BY <1>1, <1>2

LEMMA OneMoreTryNext == ASSUME VersionsInv, Next PROVE OneMoreTry'
<1> SUFFICES ASSUME NEW t \in Tasks, task'[t].failures # 0, t \in handbacks'
             PROVE  Leaves(t)' \/ (~Swept(t)' /\ ~Reports(t)')
  BY DEF OneMoreTry
<1> USE DEF VersionsInv, WayInv, OnceInv
<1>1. CASE task[t].failures = 0
  <2>1. HeldMoves(t) BY <1>1, TurnsMove DEF Still, Marks
  <2>2. Fails(t) /\ Held(t) BY <1>1, <2>1 DEF HeldMoves, Begins, Runs, Saves, Raises, Marks
  <2>3. ~conv.item.short BY <1>1, <2>2 DEF Fails
  <2> QED BY <2>2, <2>3, FailedLeaves
<1>2. CASE task[t].failures # 0 /\ t \notin handbacks
  <2>0. ~Fresh(t) BY <1>2 DEF Fresh
  <2>1. CASE ReportRun /\ exec.pc = "report" /\ t = exec.task
    <3>1. ~Swept(t) BY <2>0, <2>1 DEF ReportsFirst
    <3>2. sweep' = sweep /\ exec'.pc = "idle" BY <2>1 DEF ReportRun, IdleExec
    <3> QED BY <3>1, <3>2 DEF Swept, Reports
  <2>2. CASE HandBackAgain /\ sweep.pc = "act" /\ t = sweep.task
    <3>1. Swept(t) /\ t \notin sweep.todo BY <2>2 DEF Swept, Decided
    <3>2. ~Reports(t) BY <2>0, <3>1 DEF ReportsFirst, Reports
    <3>3. sweep' = [pc |-> "lost", todo |-> sweep.todo] /\ exec' = exec
      BY <2>2 DEF HandBackAgain, execVars
    <3> QED BY <3>1, <3>2, <3>3 DEF Swept, Reports
  <2> QED BY <1>2, <2>1, <2>2, MarkedFrom
<1>3. CASE task[t].failures # 0 /\ t \in handbacks
  <2>1. CASE Leaves(t)
    <3>1. conv' = conv BY <2>1, LeavesGoes
    <3> QED BY <2>1, <3>1 DEF Leaves, Held
  <2>2. CASE ~Swept(t) /\ ~Reports(t)
    <3>1. task[t].state # "RUNNING" BY <1>3 DEF UnrunIsFresh
    <3>2. ~Swept(t)' BY <1>3, <2>2, <3>1, SweptFrom
    <3>3. ~Reports(t)' BY <1>3, <2>2, ReportsFrom
    <3> QED BY <3>2, <3>3
  <2> QED BY <1>3, <2>1, <2>2 DEF OneMoreTry
<1> QED BY <1>1, <1>2, <1>3

(* Work delegated stays delegated. *)
LEMMA DelegatedStays == ASSUME VersionsInv, Next PROVE NothingDelegated' => NothingDelegated
<1>1. /\ left \in [Disturbances -> Nat] /\ left' \in [Disturbances -> Nat]
      /\ Bound["delegate"] \in Nat
  <2>1. Inv' BY InvNext DEF VersionsInv, WayInv, OnceInv
  <2> QED BY <2>1, TaskHandbackAssumption
          DEF VersionsInv, WayInv, OnceInv, Inv, TypeOK, LeftTyped, Disturbances
<1>2. left'["delegate"] <= left["delegate"] /\ left["delegate"] <= Bound["delegate"]
  BY DelegatesSpent DEF VersionsInv, WayInv, OnceInv, WaitsOnlyDelegated
<1>3. left["delegate"] \in Nat /\ left'["delegate"] \in Nat BY <1>1 DEF Disturbances
<1> QED BY <1>1, <1>2, <1>3 DEF NothingDelegated

(* What the short version came into play behind stays over, unless the      *)
(* worker fails during a stop with the full version in its hands.           *)
LEMMA BehindKept ==
    ASSUME VersionsInv, Next, NEW t \in Tasks, Behind(t)
    PROVE  Behind(t)' \/ (stopping /\ HeldAs(FALSE, t) /\ conv.pc = "raised")
<1> USE DEF VersionsInv, WayInv, OnceInv
<1>a. ~NothingDelegated => ~NothingDelegated' BY DelegatedStays
<1>b. "full" \in Versions BY DEF Versions
<1>1. CASE Still(t)
  <2>1. \/ turn'[t]["full"] = turn[t]["full"]
        \/ turn[t]["full"] = "WAITING_TASK" /\ turn'[t]["full"] = "COMMITTED"
    BY <1>1, <1>b DEF Still
  <2>2. task'[t].failures = task[t].failures BY <1>1 DEF Still, Marks
  <2>3. turn[t]["full"] = "WAITING_TASK" => ~NothingDelegated BY <1>b DEF WaitsOnlyDelegated
  <2> HIDE DEF NothingDelegated
  <2> QED BY <1>a, <2>1, <2>2, <2>3 DEF Behind
<1>2. CASE HeldMoves(t) /\ conv.item.short
  <2>1. OtherTurn(t) = "full" BY <1>2, HeldVersion DEF HeldMoves
  <2>2. turn'[t]["full"] = turn[t]["full"] BY <1>2, <2>1 DEF HeldMoves
  <2>3. task'[t].failures = task[t].failures
    BY <1>2 DEF HeldMoves, Begins, Runs, Saves, Raises, Fails, Marks
  <2> HIDE DEF NothingDelegated
  <2> QED BY <1>a, <2>2, <2>3 DEF Behind
<1>3. CASE HeldMoves(t) /\ ~conv.item.short
  <2>1. /\ OwnTurn(t) = "full" /\ HeldAs(FALSE, t) /\ conv.item.task = t
    BY <1>3, HeldVersion DEF HeldMoves, HeldAs
  <2>2. turn[t]["full"] # "NONE"
    <3>1. conv.pc # "leave" BY <1>3 DEF HeldMoves, Begins, Runs, Saves, Raises, Fails
    <3> QED BY <2>1, <3>1 DEF Behind, TwoFailuresEndFull, Leaves, Failed
  <2>3. ~Begins(t) /\ ~Fails(t) BY <2>1, <2>2 DEF Begins, Fails
  <2>4. ~Runs(t)
    <3> SUFFICES ASSUME Runs(t) PROVE FALSE OBVIOUS
    <3>1. conv.pc \in {"advance", "turn"} BY DEF Runs
    <3>2. conv.ep = "full" BY <2>1, <3>1 DEF TurnIsOfVersion, OwnTurn
    <3>3. turn[t]["full"] \in Resumable \cup {"FAILED_PROTOCOL"} BY <2>1, <3>1, <3>2 DEF RunsOpenTurn
    <3> QED BY <2>2, <3>3 DEF Behind, Failed, NotFailed, Resumable
  <2>5. CASE Saves(t)
    <3>1. turn'[t]["full"] = turn[t]["full"] BY <2>5 DEF Saves
    <3> HIDE DEF NothingDelegated
    <3> QED BY <1>a, <2>2, <3>1 DEF Behind
  <2>6. CASE Raises(t)
    <3>1. turn'[t]["full"] = IF stopping THEN "INTERRUPTED" ELSE "FAILED_RUNTIME"
      BY <2>1, <2>6 DEF Raises
    <3>2. ~stopping => Failed(turn'[t]["full"]) BY <3>1 DEF Failed, NotFailed, Resumable
    <3>3. conv.pc = "raised" BY <2>6 DEF Raises
    <3> QED BY <2>1, <3>2, <3>3 DEF Behind
  <2> QED BY <1>3, <2>3, <2>4, <2>5, <2>6 DEF HeldMoves
<1> QED BY <1>1, <1>2, <1>3, TurnsMove

LEMMA ShortIsBehindNext == ASSUME VersionsInv, Next PROVE ShortIsBehind'
<1> USE DEF VersionsInv, WayInv, OnceInv
<1> SUFFICES ASSUME NEW t \in Tasks
             PROVE  /\ turn'[t]["short"] # "NONE" \/ HeldAs(TRUE, t)' => Behind(t)'
                    /\ WaitsAs(TRUE, t)' \/ Acts("short", t)' => stopping' \/ Behind(t)'
  BY DEF ShortIsBehind
<1>1. ASSUME turn'[t]["short"] # "NONE" \/ HeldAs(TRUE, t)' PROVE Behind(t)'
  <2>1. turn[t]["short"] # "NONE" \/ HeldAs(TRUE, t) \/ (WaitsAs(TRUE, t) /\ ~stopping)
    <3>1. CASE HeldAs(TRUE, t)' BY <3>1, HeldFrom
    <3>2. CASE turn'[t]["short"] # "NONE" /\ Still(t) BY <3>2 DEF Still, Versions
    <3>3. CASE turn'[t]["short"] # "NONE" /\ HeldMoves(t)
      <4>1. HeldAs(TRUE, t) \/ (~conv.item.short /\ OtherTurn(t) = "short")
        BY <3>3, HeldVersion DEF HeldMoves, HeldAs
      <4> QED BY <3>3, <4>1 DEF HeldMoves
    <3> QED BY <1>1, <3>1, <3>2, <3>3, TurnsMove
  <2>2. Behind(t) BY <2>1 DEF ShortIsBehind
  <2>3. ~(stopping /\ HeldAs(FALSE, t))
    <3> SUFFICES ASSUME stopping, HeldAs(FALSE, t) PROVE FALSE OBVIOUS
    <3>1. turn[t]["short"] = "NONE" BY DEF FullComesFirst, FullOnly
    <3>2. ~HeldAs(TRUE, t) BY DEF HeldAs
    <3> QED BY <2>1, <3>1, <3>2
  <2> QED BY <2>2, <2>3, BehindKept
<1>2. ASSUME WaitsAs(TRUE, t)' \/ Acts("short", t)' PROVE stopping' \/ Behind(t)'
  <2>1. CASE stopping
    <3>1. ~EndProcess
      <4> SUFFICES ASSUME EndProcess PROVE FALSE OBVIOUS
      <4>1. pending' = <<>> /\ sweep'.pc = "idle" BY DEF EndProcess, IdleSweep
      <4> QED BY <1>2, <4>1, EmptySeq DEF WaitsAs, Waits, Acts
    <3> QED BY <2>1, <3>1, StoppingStays
  <2>2. CASE ~stopping
    <3>1. CASE WaitsAs(TRUE, t)'
      <4>1. WaitsAs(TRUE, t) \/ Acts("short", t) \/ HeldAs(TRUE, t) BY <3>1, WaitsFrom
      <4>2. Behind(t) BY <2>2, <4>1 DEF ShortIsBehind
      <4> QED BY <2>2, <4>2, BehindKept
    <3>2. CASE Acts("short", t)'
      <4>1. CASE Acts("short", t)
        <5>1. Behind(t) BY <2>2, <4>1 DEF ShortIsBehind
        <5> QED BY <2>2, <5>1, BehindKept
      <4>2. CASE NextStep(t) = "short"
        <5>1. turn[t]["short"] # "NONE" \/ Failed(turn[t]["full"]) \/ task[t].failures = 2
          BY <4>2, RowOf DEF NextStep, ReportFailuresBeforeShort
        <5>2. Behind(t) BY <5>1 DEF ShortIsBehind, Behind, TwoFailuresEndFull
        <5> QED BY <2>2, <5>2, BehindKept
      <4> QED BY <3>2, <4>1, <4>2, ActsFrom
    <3> QED BY <1>2, <3>1, <3>2
  <2> QED BY <2>1, <2>2
<1> QED BY <1>1, <1>2

(* What the watchdog still has to decide was found lost before, or just now. *)
LEMMA SweptAgain ==
    ASSUME Inv, Next, NEW t \in Tasks, sweep'.pc \in {"lost", "act"}, Swept(t)'
    PROVE  (sweep.pc \in {"lost", "act"} /\ Swept(t)) \/ (FindLost /\ Owed(t) /\ UNCHANGED task)
<1>1. CASE UNCHANGED sweep BY <1>1 DEF Swept
<1>2. CASE \E s \in Tasks : Decide(s) BY <1>2 DEF Decide, Swept
<1>3. CASE HandBackAgain \/ GiveUp
  <2>1. sweep.pc = "act" /\ sweep' = [pc |-> "lost", todo |-> sweep.todo]
    BY <1>3 DEF HandBackAgain, GiveUp
  <2> QED BY <2>1 DEF Swept
<1>4. CASE BeginSweep \/ FindOrphans \/ EndSweep \/ sweep' = IdleSweep
  BY <1>4 DEF BeginSweep, FindOrphans, EndSweep, IdleSweep
<1>5. CASE CloseOrphan BY <1>5, ClosingStays
<1>6. CASE FindLost
  <2>1. sweep'.pc = "lost" /\ sweep'.todo \subseteq {u \in Tasks : Owed(u)} /\ UNCHANGED task
    BY <1>6 DEF FindLost, rows
  <2>2. Owed(t) BY <2>1 DEF Swept
  <2> QED BY <1>6, <2>1, <2>2
<1> QED BY <1>1, <1>2, <1>3, <1>4, <1>5, <1>6, SweepOwn DEF SweepStep

(* The watchdog gives up a result on nobody's way. *)
LEMMA GivesUpBehindShort ==
    ASSUME WayInv, NEW t \in Tasks, Acts("give_up", t)
    PROVE  ~FullOnly(t) /\ t \notin handbacks /\ ~Reports(t) /\ t \notin sweep.todo
<1>1. /\ Swept(t) /\ t \notin sweep.todo
      /\ turn[t]["short"] # "NONE" \/ task[t].shortFailed
  BY DEF Acts, Swept, WayInv, Decided
<1>2. ~FullOnly(t) BY <1>1 DEF FullOnly
<1> QED BY <1>1, <1>2 DEF WayInv, SweptIsFull, ReportsFirst, Reports

LEMMA GivenUpIsGoneNext == ASSUME VersionsInv, Next PROVE GivenUpIsGone'
<1> SUFFICES ASSUME NEW t \in Tasks, task'[t].fb = "UNDELIVERABLE"
             PROVE  t \notin handbacks' /\ ~Reports(t)'
                    /\ ~(sweep'.pc \in {"lost", "act"} /\ Swept(t)')
  BY DEF GivenUpIsGone
<1> USE DEF VersionsInv, WayInv, OnceInv
<1>1. CASE task[t].fb = "UNDELIVERABLE"
  <2>1. t \notin handbacks /\ ~Reports(t) /\ ~(sweep.pc \in {"lost", "act"} /\ Swept(t))
    BY <1>1 DEF GivenUpIsGone
  <2>2. t \notin handbacks' BY <2>1, MarkedFrom DEF Reports, Swept
  <2>3. ~Reports(t)' BY <1>1, <2>1, ReportsFrom
  <2>4. ~Owed(t) BY <1>1 DEF Owed, Taken
  <2> QED BY <2>1, <2>2, <2>3, <2>4, SweptAgain
<1>2. CASE task[t].fb # "UNDELIVERABLE"
  <2>1. Acts("give_up", t) /\ sweep'.pc = "lost" /\ sweep'.todo = sweep.todo
    <3>1. FeedbackMoves(t) BY FeedbacksMove
    <3>2. ASSUME conv.pc = "save", t = conv.item.task,
                 task'[t].fb = FeedbackState(turn[t][conv.ep])
          PROVE  FALSE
      <4>1. turn[t][conv.ep] \in TurnStates BY <3>2, ConvParts, RowOf DEF Inv, TypeOK
      <4> QED BY <3>2, <4>1 DEF FeedbackState, TurnStates, Resumable
    <3> QED BY <1>2, <3>1, <3>2 DEF FeedbackMoves, Acts
  <2>2. t \notin handbacks /\ ~Reports(t) /\ t \notin sweep.todo BY <2>1, GivesUpBehindShort
  <2>3. ~HandBackAgain BY <2>1 DEF Acts, HandBackAgain
  <2>4. t \notin handbacks' BY <2>2, <2>3, MarkedFrom DEF Reports
  <2>5. ~Reports(t)' BY <2>2, ReportsFrom
  <2>6. ~Swept(t)' BY <2>1, <2>2 DEF Swept
  <2> QED BY <2>4, <2>5, <2>6
<1> QED BY <1>1, <1>2

LEMMA GivenUpBehindShortNext == ASSUME VersionsInv, Next PROVE GivenUpBehindShort'
<1> SUFFICES ASSUME NEW t \in Tasks, NothingDelegated',
                    task'[t].fb = "UNDELIVERABLE" \/ Acts("give_up", t)'
             PROVE  task'[t].shortFailed \/ Failed(turn'[t]["short"])
  BY DEF GivenUpBehindShort
<1> USE DEF VersionsInv, WayInv, OnceInv
<1>1. NothingDelegated BY DelegatedStays
<1>2. (task[t].shortFailed \/ Failed(turn[t]["short"])) /\ t \notin handbacks
  <2>1. CASE task[t].fb = "UNDELIVERABLE" \/ Acts("give_up", t)
    BY <1>1, <2>1, GivesUpBehindShort DEF GivenUpBehindShort, GivenUpIsGone
  <2>2. CASE Decide(t) /\ NextStep(t) = "give_up"
    <3>1. task[t].shortFailed \/ Failed(turn[t]["short"]) BY <2>2 DEF NextStep
    <3>2. Swept(t) BY <2>2 DEF Decide, Swept
    <3>3. ~FullOnly(t) BY <3>1 DEF FullOnly, Failed
    <3> QED BY <3>1, <3>2, <3>3 DEF SweptIsFull
  <2>3. CASE task'[t].fb = "UNDELIVERABLE" /\ task[t].fb # "UNDELIVERABLE"
    <3>1. FeedbackMoves(t) BY FeedbacksMove
    <3>2. ASSUME conv.pc = "save", t = conv.item.task,
                 task'[t].fb = FeedbackState(turn[t][conv.ep])
          PROVE  FALSE
      <4>1. turn[t][conv.ep] \in TurnStates BY <3>2, ConvParts, RowOf DEF Inv, TypeOK
      <4> QED BY <2>3, <3>2, <4>1 DEF FeedbackState, TurnStates, Resumable
    <3>3. Acts("give_up", t) BY <2>3, <3>1, <3>2 DEF FeedbackMoves, Acts
    <3> QED BY <2>1, <3>3
  <2> QED BY <2>1, <2>2, <2>3, ActsFrom
<1>3. ~Held(t) BY <1>2 DEF MarkedOnWay
<1>4. Still(t) BY <1>3, TurnsMove DEF HeldMoves
<1>5. turn[t]["short"] # "WAITING_TASK" BY <1>1 DEF WaitsOnlyDelegated, Versions
<1>6. turn'[t]["short"] = turn[t]["short"] /\ task'[t].shortFailed = task[t].shortFailed
  BY <1>4, <1>5 DEF Still, Marks, Versions
<1> QED BY <1>2, <1>6

(* VersionsInv is inductive. *)
LEMMA VersionsNext == ASSUME VersionsInv, [Next]_vars PROVE VersionsInv'
<1>1. WayInv' BY WayNext DEF VersionsInv
<1>2. CASE Next
  BY <1>1, <1>2, WaitsOnlyDelegatedNext, NamedTurnIsNext, FullComesFirstNext, TurnIsOfVersionNext,
     RunsOpenTurnNext, KeptHasTurnNext, TwoFailuresEndFullNext, OneMoreTryNext, ShortIsBehindNext,
     GivenUpIsGoneNext, GivenUpBehindShortNext DEF VersionsInv
<1>3. CASE UNCHANGED vars
  <2>1. UNCHANGED <<task, turn, exec, handbacks, pending, conv, sweep, stopping, left>>
    BY <1>3 DEF vars, rows, execVars, convVars, lifecycle
  <2>2. \A t, s : /\ WaitsAs(s, t)' <=> WaitsAs(s, t)
                  /\ HeldAs(s, t)' <=> HeldAs(s, t)
    BY <2>1 DEF WaitsAs, Waits, HeldAs, Held
  <2>3. \A t, s : Acts(s, t)' <=> Acts(s, t) BY <2>1 DEF Acts
  <2>4. \A t : /\ Reports(t)' <=> Reports(t)
               /\ Leaves(t)' <=> Leaves(t)
               /\ Swept(t)' <=> Swept(t)
    BY <2>1 DEF Reports, Leaves, Held, Swept
  <2>5. \A t : FullOnly(t)' <=> FullOnly(t) BY <2>1 DEF FullOnly, Held, Waits
  <2>6. NothingDelegated' <=> NothingDelegated BY <2>1 DEF NothingDelegated
  <2>7. \A t : Behind(t)' <=> Behind(t) BY <2>1, <2>6 DEF Behind
  <2>8. (WaitsOnlyDelegated /\ NamedTurnIs /\ TurnIsOfVersion /\ RunsOpenTurn /\ KeptHasTurn)'
    BY <2>1, <2>6 DEF VersionsInv, WaitsOnlyDelegated, NamedTurnIs, TurnIsOfVersion, RunsOpenTurn,
                      KeptHasTurn, Kept
  <2>9. (FullComesFirst /\ TwoFailuresEndFull /\ OneMoreTry)'
    BY <2>1, <2>2, <2>3, <2>4, <2>5 DEF VersionsInv, FullComesFirst, TwoFailuresEndFull, OneMoreTry
  <2>10. (ShortIsBehind /\ GivenUpIsGone /\ GivenUpBehindShort)'
    BY <2>1, <2>2, <2>3, <2>4, <2>6, <2>7 DEF VersionsInv, ShortIsBehind, GivenUpIsGone,
       GivenUpBehindShort
  <2> QED BY <1>1, <2>8, <2>9, <2>10 DEF VersionsInv
<1> QED BY <1>2, <1>3

(* The two versions of a result take turns as long as no worker restart      *)
(* pends: however the run, the worker, the watchdog, cancellations, stops    *)
(* and crashes interleave, she never has a turn open on the full version and *)
(* one on the short version; and, while no turn of hers handed work on, she  *)
(* reads a result in one turn only and it is given up behind a short version *)
(* that failed.                                                              *)
THEOREM VersionsTakeTurns == Bound["restart"] = 0 => (Spec => []VersionsInTurn)
<1> SUFFICES ASSUME Bound["restart"] = 0 PROVE Spec => []VersionsInTurn OBVIOUS
<1>1. Init => VersionsInv BY VersionsInit
<1>2. VersionsInv /\ [Next]_vars => VersionsInv' BY VersionsNext
<1> QED BY <1>1, <1>2, VersionsInvImplies, PTL DEF Spec
=============================================================================

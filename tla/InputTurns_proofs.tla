-------------------------- MODULE InputTurns_proofs --------------------------
(***************************************************************************)
(* For any number of lines and any bounds: every state of InputTurns is    *)
(* well typed; a line taken by another turn gets no turn of its own, nor    *)
(* does one that a turn that ended was the first to show; what a turn saved *)
(* stands; an accepted line is carried to the worker, once; and turns begin *)
(* in the order the lines came.                                             *)
(*                                                                         *)
(* None of them is inductive by itself. The types need StageSaved: a turn  *)
(* that ends reads the view of a saved stage. The lines taken need that a   *)
(* line has a turn only after it stopped waiting (TurnUnlessWaiting), and   *)
(* that the worker's own line was taken by none (OwnTurn). What is saved    *)
(* needs OpenInTheWorker. Together they are Inv. CarryInv follows a line    *)
(* through a post, `pending`, `enqueued` and the worker, and the order of   *)
(* the queue; SeenInv what became of the lines in view of a stage.          *)
(***************************************************************************)
EXTENDS InputTurns, FiniteSetTheorems, TLAPS

(* The parts of TypeOK. *)
RowsTyped ==
    /\ input \in [Lines -> {"none", "ACCEPTED", "PROCESSING"} \cup Settled]
    /\ absorbed \in [Lines -> Lines \cup {NoLine}]
    /\ episode \in [Lines -> {"none", "COMMITTED", "FAILED_PROTOCOL", "FAILED_RUNTIME"} \cup Resumable]
    /\ receipt \in [Lines -> Stage \cup {None}]
PostTyped   == posting \in {Nothing} \cup [at : {"read"}, line : Lines,
                                           state : {"ACCEPTED", "PROCESSING"} \cup Settled]
HostTyped   == host \in {"up", "stopping", "down"} /\ restart \in BOOLEAN
QueueTyped  == pending \in Seq(Lines) /\ enqueued \subseteq Lines
WorkerTyped == worker \in {Idle} \cup Working \cup Failing
SeenTyped   == marked \subseteq Lines /\ shownBefore \subseteq Lines /\ answered \subseteq Lines
LeftTyped   == left \in [Disturbances -> Nat]

LEMMA TypeParts == TypeOK <=> /\ RowsTyped /\ PostTyped /\ HostTyped /\ QueueTyped
                              /\ WorkerTyped /\ SeenTyped /\ LeftTyped
BY DEF TypeOK, RowsTyped, PostTyped, HostTyped, QueueTyped, WorkerTyped, SeenTyped, LeftTyped

LEMMA TypePartsNext == TypeOK' <=> /\ RowsTyped' /\ PostTyped' /\ HostTyped' /\ QueueTyped'
                                   /\ WorkerTyped' /\ SeenTyped' /\ LeftTyped'
BY DEF TypeOK, RowsTyped, PostTyped, HostTyped, QueueTyped, WorkerTyped, SeenTyped, LeftTyped

----------------------------------------------------------------------------
(* What the worker knows of its line. *)

(* Lines are marked as seen from a stage that was saved. *)
StageSaved == At("absorb") => receipt[Line].saved

(* A line has a turn only once it no longer waits. *)
TurnUnlessWaiting == \A l \in Lines : episode[l] # "none" => input[l] \notin {"none", "ACCEPTED"}

(* What the worker gives a turn no longer waits, and no other turn took it. *)
OwnTurn == worker.pc \in Raises \ {"taken"} =>
    input[Line] \notin {"none", "ACCEPTED"} /\ absorbed[Line] = NoLine

(* A turn that is run is not committed, and asks the lane only if nothing of it is saved. *)
OpenInTheWorker ==
    /\ worker.pc \in {"turn", "ask", "stage", "absorb"} => episode[Line] # "COMMITTED"
    /\ worker.pc \in {"ask", "stage"} => ~receipt[Line].saved

Inv == /\ TypeOK /\ StageSaved
       /\ TurnUnlessWaiting /\ OwnTurn /\ AbsorbedGetsNoTurn
       /\ OpenInTheWorker

----------------------------------------------------------------------------
(* What a typed worker holds at each of its program counters. *)
LEMMA WorkerParts == ASSUME WorkerTyped PROVE
    /\ worker.pc # "idle" => worker.line \in Lines
    /\ worker.pc \in Raises => worker \in Working
    /\ worker.pc \in {"raised", "input failed"} => worker \in Failing
    /\ worker.pc \in Raises \cup {"idle", "raised", "input failed", "finally"}
<1>1. CASE worker = Idle BY <1>1 DEF Idle, Raises
<1>2. CASE worker \in Working BY <1>2 DEF Working, Raises
<1>3. CASE worker \in Failing BY <1>3 DEF Failing, Raises
<1> QED BY <1>1, <1>2, <1>3 DEF WorkerTyped

(* Going on within a turn, and leaving it. *)
LEMMA GoToTyped == ASSUME worker \in Working, NEW pc \in Raises \cup {"finally"}, GoTo(pc)
    PROVE  /\ WorkerTyped' /\ worker'.pc = pc /\ worker'.line = worker.line
BY DEF Working, GoTo, WorkerTyped

(* The handler's way to the end. *)
LEMMA FailingGoes == ASSUME worker \in Failing, NEW pc \in {"input failed", "finally"}, GoTo(pc)
    PROVE  WorkerTyped' /\ worker'.pc = pc /\ worker'.line = worker.line
BY DEF Failing, GoTo, WorkerTyped

LEMMA SpendTyped == ASSUME LeftTyped, NEW kind \in Disturbances, Spend(kind) PROVE LeftTyped'
BY DEF LeftTyped, Spend

LEMMA UndisturbedTyped == ASSUME LeftTyped, Undisturbed PROVE LeftTyped'
BY DEF LeftTyped, Undisturbed

(* The lines a start takes up again, in whatever order. *)
LEMMA RecoveredTyped == ASSUME NEW order \in [1..Cardinality(Recovered) -> Recovered]
    PROVE order \in Seq(Lines)
<1>1. IsFiniteSet(Lines) BY InputAssumption, FS_Interval DEF Lines
<1>2. Recovered \subseteq Lines BY DEF Recovered
<1>3. Cardinality(Recovered) \in Nat BY <1>1, <1>2, FS_Subset, FS_CardinalityType
<1> QED BY <1>2, <1>3

LEMMA TypeInit == Init => TypeOK
<1> SUFFICES ASSUME Init PROVE TypeOK OBVIOUS
<1>1. RowsTyped BY DEF Init, RowsTyped
<1>2. PostTyped /\ HostTyped /\ WorkerTyped BY DEF Init, PostTyped, HostTyped, WorkerTyped
<1>3. QueueTyped BY DEF Init, QueueTyped
<1>4. SeenTyped BY DEF Init, SeenTyped
<1>5. LeftTyped BY InputAssumption DEF Init, LeftTyped
<1> QED BY <1>1, <1>2, <1>3, <1>4, <1>5, TypeParts

(* A step that leaves a part alone keeps its type. *)
LEMMA Unchanged == ASSUME TypeOK PROVE
    /\ UNCHANGED rows => RowsTyped'
    /\ UNCHANGED posting => PostTyped'
    /\ UNCHANGED <<host, restart>> => HostTyped'
    /\ UNCHANGED <<pending, enqueued>> => QueueTyped'
    /\ UNCHANGED worker => WorkerTyped'
    /\ UNCHANGED <<marked, shownBefore, answered>> => SeenTyped'
    /\ UNCHANGED left => LeftTyped'
BY TypeParts DEF rows, RowsTyped, PostTyped, HostTyped, QueueTyped, WorkerTyped, SeenTyped, LeftTyped

----------------------------------------------------------------------------
(* The posts. *)
LEMMA PostsKeepTypes == ASSUME TypeOK, (\E l \in Lines : Receive(l)) \/ Enqueue PROVE TypeOK'
<1> USE TypeParts DEF rows, memory
<1>1. CASE \E l \in Lines : Receive(l)
  <2> PICK l \in Lines : Receive(l) BY <1>1
  <2>1. CASE PersistInput(l)
    <3>1. RowsTyped' BY <2>1 DEF Receive, PersistInput, RowsTyped
    <3>2. PostTyped' BY <2>1 DEF PersistInput, Reading, PostTyped
    <3> QED BY <2>1, <3>1, <3>2, Unchanged, UndisturbedTyped, TypePartsNext DEF Receive, PersistInput
  <2>2. CASE ReadDuplicate(l)
    <3>1. input[l] \in {"ACCEPTED", "PROCESSING"} \cup Settled
      BY <2>2 DEF ReadDuplicate, Arrived, RowsTyped
    <3>2. PostTyped' BY <2>2, <3>1 DEF ReadDuplicate, Reading, PostTyped
    <3>3. LeftTyped' BY <2>2, SpendTyped DEF ReadDuplicate, Disturbances
    <3> QED BY <2>2, <3>2, <3>3, Unchanged, TypePartsNext DEF Receive, ReadDuplicate
  <2> QED BY <2>1, <2>2 DEF Receive
<1>2. CASE Enqueue
  <2>1. posting.line \in Lines BY <1>2 DEF Enqueue, PostTyped
  <2>2. QueueTyped' BY <1>2, <2>1 DEF Enqueue, QueueTyped
  <2>3. PostTyped' BY <1>2 DEF Enqueue, PostTyped
  <2> QED BY <1>2, <2>2, <2>3, Unchanged, TypePartsNext DEF Enqueue
<1> QED BY <1>1, <1>2

(* The worker before its turn. *)
LEMMA TakingKeepsTypes == ASSUME TypeOK, Take \/ Hold \/ Start \/ Begin PROVE TypeOK'
<1> USE TypeParts DEF rows, memory
<1>1. CASE Take
  <2>1. Head(pending) \in Lines /\ Tail(pending) \in Seq(Lines) BY <1>1 DEF Take, QueueTyped
  <2>2. WorkerTyped' BY <1>1, <2>1 DEF Take, WorkerTyped, Working, Raises
  <2>3. QueueTyped' BY <1>1, <2>1 DEF Take, QueueTyped
  <2> QED BY <1>1, <2>2, <2>3, Unchanged, TypePartsNext DEF Take
<1>2. CASE Hold
  <2>1. worker \in Working /\ Line \in Lines BY <1>2, WorkerParts DEF Hold, At, Raises, Line
  <2>2. WorkerTyped' BY <1>2, <2>1, GoToTyped DEF Hold
  <2>3. QueueTyped' BY <1>2, <2>1 DEF Hold, QueueTyped
  <2> QED BY <1>2, <2>2, <2>3, Unchanged, TypePartsNext DEF Hold
<1>3. CASE Start
  <2>1. worker \in Working /\ Line \in Lines BY <1>3, WorkerParts DEF Start, At, Raises, Line
  <2>2. WorkerTyped' BY <1>3, <2>1, GoToTyped DEF Start, Raises
  <2>3. RowsTyped' BY <1>3, <2>1 DEF Start, RowsTyped, Settled
  <2> QED BY <1>3, <2>2, <2>3, Unchanged, TypePartsNext DEF Start
<1>4. CASE Begin
  <2>1. worker \in Working /\ Line \in Lines BY <1>4, WorkerParts DEF Begin, At, Raises, Line
  <2>2. WorkerTyped'
    <3> DEFINE pc == CASE episode[Line] = "SPEAK_ACCEPTED" -> "publish"
                       [] episode[Line] \in Resumable \cup {"none"} -> "turn"
                       [] OTHER -> "complete"
    <3>1. pc \in Raises BY DEF Raises, Resumable
    <3>2. GoTo(pc) BY <1>4 DEF Begin
    <3> HIDE DEF pc
    <3> QED BY <2>1, <3>1, <3>2, GoToTyped
  <2>3. RowsTyped'
    <3>1. episode[Line] \in {"none", "COMMITTED", "FAILED_PROTOCOL", "FAILED_RUNTIME"} \cup Resumable
      BY <2>1 DEF RowsTyped
    <3> DEFINE begun == CASE episode[Line] = "none" -> "PREPARED"
                          [] episode[Line] = "INTERRUPTED" -> "TURN"
                          [] OTHER -> episode[Line]
    <3>2. begun \in {"none", "COMMITTED", "FAILED_PROTOCOL", "FAILED_RUNTIME"} \cup Resumable
      BY <3>1 DEF Resumable
    <3>3. episode' = [episode EXCEPT ![Line] = begun] BY <1>4 DEF Begin
    <3> HIDE DEF begun
    <3> QED BY <1>4, <3>2, <3>3 DEF Begin, RowsTyped
  <2> QED BY <1>4, <2>2, <2>3, Unchanged, TypePartsNext DEF Begin
<1> QED BY <1>1, <1>2, <1>3, <1>4

(* Her turn. *)
LEMMA TurnKeepsTypes ==
    ASSUME TypeOK, RunTurn \/ Request \/ EndStage \/ (\E l \in Lines : Absorb(l)) PROVE TypeOK'
<1> USE TypeParts DEF rows, memory
<1>1. CASE RunTurn
  <2>1. worker \in Working /\ Line \in Lines BY <1>1, WorkerParts DEF RunTurn, At, Raises, Line
  <2>2. RowsTyped' BY <1>1, <2>1 DEF RunTurn, RowsTyped, Resumable
  <2>3. SeenTyped' BY <1>1 DEF RunTurn, SeenTyped
  <2>4. WorkerTyped'
    <3>1. CASE Replayed(Line)
      <4>1. receipt[Line] \in Stage BY <2>1, <3>1 DEF Replayed, RowsTyped, None
      <4>2. receipt[Line].seen \subseteq Lines BY <4>1 DEF Stage
      <4>3. worker' = [worker EXCEPT !.pc = "absorb", !.seen = receipt[Line].seen]
        BY <1>1, <3>1 DEF RunTurn
      <4> QED BY <2>1, <4>2, <4>3 DEF WorkerTyped, Working, Raises
    <3>2. CASE ~Replayed(Line)
      <4>1. worker' = [worker EXCEPT !.pc = "ask", !.base = marked] BY <1>1, <3>2 DEF RunTurn
      <4> QED BY <2>1, <4>1 DEF WorkerTyped, Working, Raises, SeenTyped
    <3> QED BY <3>1, <3>2
  <2> QED BY <1>1, <2>2, <2>3, <2>4, Unchanged, TypePartsNext DEF RunTurn
<1>2. CASE Request
  <2>1. worker \in Working BY <1>2, WorkerParts DEF Request, At, Raises
  <2>2. WorkerTyped' BY <1>2, <2>1, GoToTyped DEF Request, Raises
  <2>3. SeenTyped' BY <1>2 DEF Request, SeenTyped, Arrived
  <2> QED BY <1>2, <2>2, <2>3, Unchanged, TypePartsNext DEF Request
<1>3. CASE EndStage
  <2>1. worker \in Working /\ Line \in Lines BY <1>3, WorkerParts DEF EndStage, At, Raises, Line
  <2>2. SeenInputs \subseteq Lines /\ marked \subseteq Lines BY DEF SeenInputs, SeenTyped
  <2>3. [saved |-> TRUE, seen |-> SeenInputs, view |-> marked] \in Stage BY <2>2 DEF Stage
  <2>4. RowsTyped' BY <1>3, <2>1, <2>3 DEF EndStage, RowsTyped
  <2>5. WorkerTyped'
    <3>1. worker' = [worker EXCEPT !.pc = "absorb", !.seen = SeenInputs] BY <1>3 DEF EndStage
    <3> QED BY <2>1, <2>2, <3>1 DEF WorkerTyped, Working, Raises
  <2> QED BY <1>3, <2>4, <2>5, Unchanged, TypePartsNext DEF EndStage
<1>4. CASE \E l \in Lines : Absorb(l)
  <2> PICK l \in Lines : Absorb(l) BY <1>4
  <2>1. Line \in Lines BY WorkerParts DEF Absorb, At, Line
  <2>2. RowsTyped' BY <2>1 DEF Absorb, RowsTyped
  <2> QED BY <2>2, Unchanged, TypePartsNext DEF Absorb
<1> QED BY <1>1, <1>2, <1>3, <1>4

(* The end of her turn and of her line. *)
LEMMA EndingKeepsTypes ==
    ASSUME TypeOK, StageSaved, EndTurn \/ Publish \/ Complete \/ Finish \/ Finally PROVE TypeOK'
<1> USE TypeParts DEF rows, memory
<1>1. CASE EndTurn
  <2>1. worker \in Working /\ Line \in Lines BY <1>1, WorkerParts DEF EndTurn, At, Raises, Line
  <2> PICK state \in Answered : /\ episode' = [episode EXCEPT ![Line] = state]
                                /\ GoTo(IF state = "SPEAK_ACCEPTED" THEN "publish" ELSE "complete")
    BY <1>1 DEF EndTurn
  <2>2. WorkerTyped' BY <2>1, GoToTyped DEF Raises
  <2>3. RowsTyped' BY <1>1, <2>1 DEF EndTurn, RowsTyped, Answered, Resumable
  <2>4. SeenTyped'
    <3>1. receipt[Line] \in Stage BY <1>1, <2>1 DEF EndTurn, StageSaved, RowsTyped, None
    <3>2. receipt[Line].view \subseteq Lines BY <3>1 DEF Stage
    <3> QED BY <1>1, <3>2 DEF EndTurn, SeenTyped
  <2> QED BY <1>1, <2>2, <2>3, <2>4, Unchanged, TypePartsNext DEF EndTurn
<1>2. CASE Publish
  <2>1. worker \in Working /\ Line \in Lines BY <1>2, WorkerParts DEF Publish, At, Raises, Line
  <2>2. WorkerTyped' BY <1>2, <2>1, GoToTyped DEF Publish, Raises
  <2>3. RowsTyped' BY <1>2, <2>1 DEF Publish, RowsTyped
  <2> QED BY <1>2, <2>2, <2>3, Unchanged, TypePartsNext DEF Publish
<1>3. CASE Complete
  <2>1. worker \in Working /\ Line \in Lines BY <1>3, WorkerParts DEF Complete, At, Raises, Line
  <2>2. WorkerTyped' BY <1>3, <2>1, GoToTyped DEF Complete, Raises
  <2>3. RowsTyped' BY <1>3, <2>1 DEF Complete, RowsTyped, Settled
  <2> QED BY <1>3, <2>2, <2>3, Unchanged, TypePartsNext DEF Complete
<1>4. CASE Finish
  <2>1. worker \in Working BY <1>4, WorkerParts DEF Finish, At, Raises
  <2>2. WorkerTyped' BY <1>4, <2>1, GoToTyped DEF Finish
  <2> QED BY <1>4, <2>2, Unchanged, TypePartsNext DEF Finish
<1>5. CASE Finally
  <2>1. WorkerTyped' BY <1>5 DEF Finally, WorkerTyped
  <2>2. QueueTyped' BY <1>5 DEF Finally, QueueTyped
  <2> QED BY <1>5, <2>1, <2>2, Unchanged, TypePartsNext DEF Finally
<1> QED BY <1>1, <1>2, <1>3, <1>4, <1>5

(* A turn that fails. *)
LEMMA FailureKeepsTypes ==
    ASSUME TypeOK, FailProtocol \/ Raise \/ InputFailed \/ TurnFailed \/ FailureUnsaved PROVE TypeOK'
<1> USE TypeParts DEF rows, memory
<1>1. CASE FailProtocol
  <2>1. worker \in Working /\ Line \in Lines BY <1>1, WorkerParts DEF FailProtocol, At, Raises, Line
  <2>2. WorkerTyped' BY <1>1, <2>1, GoToTyped DEF FailProtocol, Raises
  <2>3. RowsTyped' BY <1>1, <2>1 DEF FailProtocol, RowsTyped
  <2>4. LeftTyped' BY <1>1, SpendTyped DEF FailProtocol, Disturbances
  <2> QED BY <1>1, <2>2, <2>3, <2>4, Unchanged, TypePartsNext DEF FailProtocol
<1>2. CASE Raise
  <2>1. Line \in Lines BY <1>2, WorkerParts DEF Raise, Raises, Line
  <2>2. WorkerTyped'
    <3>1. PICK failure \in Settled : worker' = [pc |-> "raised", line |-> Line, failure |-> failure]
      BY <1>2 DEF Raise, Settled
    <3> QED BY <2>1, <3>1 DEF WorkerTyped, Failing
  <2>3. LeftTyped' BY <1>2, SpendTyped, UndisturbedTyped DEF Raise, Disturbances
  <2> QED BY <1>2, <2>2, <2>3, Unchanged, TypePartsNext DEF Raise
<1>3. CASE InputFailed
  <2>1. worker \in Failing /\ Line \in Lines BY <1>3, WorkerParts DEF InputFailed, At, Line
  <2>2. Failure \in Settled BY <2>1 DEF Failing, Failure
  <2>3. WorkerTyped' BY <1>3, <2>1, FailingGoes DEF InputFailed
  <2>4. RowsTyped' BY <1>3, <2>1, <2>2 DEF InputFailed, RowsTyped
  <2> QED BY <1>3, <2>3, <2>4, Unchanged, TypePartsNext DEF InputFailed
<1>4. CASE TurnFailed
  <2>1. worker \in Failing /\ Line \in Lines BY <1>4, WorkerParts DEF TurnFailed, At, Line
  <2>2. WorkerTyped' BY <1>4, <2>1, FailingGoes DEF TurnFailed
  <2>3. RowsTyped' BY <1>4, <2>1 DEF TurnFailed, RowsTyped, Resumable
  <2> QED BY <1>4, <2>2, <2>3, Unchanged, TypePartsNext DEF TurnFailed
<1>5. CASE FailureUnsaved
  <2>1. worker \in Failing BY <1>5, WorkerParts DEF FailureUnsaved, At
  <2>2. WorkerTyped' BY <1>5, <2>1, FailingGoes DEF FailureUnsaved
  <2>3. LeftTyped' BY <1>5, SpendTyped DEF FailureUnsaved, Disturbances
  <2> QED BY <1>5, <2>2, <2>3, Unchanged, TypePartsNext DEF FailureUnsaved
<1> QED BY <1>1, <1>2, <1>3, <1>4, <1>5

(* The process. *)
HostSteps == RestartPends \/ RestartWithdrawn \/ BeginStop \/ EndProcess \/ Crash \/ RecoverInputs

LEMMA HostKeepsTypes == ASSUME TypeOK, HostSteps PROVE TypeOK'
<1> USE TypeParts DEF rows, memory
<1>1. CASE RestartPends
  <2>1. HostTyped' BY <1>1 DEF RestartPends, HostTyped
  <2>2. LeftTyped' BY <1>1, SpendTyped DEF RestartPends, Disturbances
  <2> QED BY <1>1, <2>1, <2>2, Unchanged, TypePartsNext DEF RestartPends
<1>2. CASE RestartWithdrawn
  <2>1. HostTyped' BY <1>2 DEF RestartWithdrawn, HostTyped
  <2> QED BY <1>2, <2>1, Unchanged, TypePartsNext DEF RestartWithdrawn
<1>3. CASE BeginStop
  <2>1. HostTyped' BY <1>3 DEF BeginStop, HostTyped
  <2>2. LeftTyped' BY <1>3, SpendTyped, UndisturbedTyped DEF BeginStop, Disturbances
  <2> QED BY <1>3, <2>1, <2>2, Unchanged, TypePartsNext DEF BeginStop
<1>4. CASE EndProcess \/ Crash
  <2>1. ProcessGone BY <1>4 DEF EndProcess, Crash
  <2>2. HostTyped' /\ PostTyped' /\ WorkerTyped'
    BY <2>1 DEF ProcessGone, HostTyped, PostTyped, WorkerTyped
  <2>3. QueueTyped' BY <2>1 DEF ProcessGone, QueueTyped
  <2>4. LeftTyped' BY <1>4, SpendTyped, UndisturbedTyped DEF EndProcess, Crash, Disturbances
  <2> QED BY <2>1, <2>2, <2>3, <2>4, Unchanged, TypePartsNext DEF ProcessGone
<1>5. CASE RecoverInputs
  <2>1. HostTyped' BY <1>5 DEF RecoverInputs, HostTyped
  <2>2. pending' \in Seq(Lines) BY <1>5, RecoveredTyped DEF RecoverInputs
  <2>3. QueueTyped' BY <1>5, <2>2 DEF RecoverInputs, QueueTyped, Recovered
  <2> QED BY <1>5, <2>1, <2>3, Unchanged, TypePartsNext DEF RecoverInputs
<1> QED BY <1>1, <1>2, <1>3, <1>4, <1>5 DEF HostSteps

LEMMA TypeNext == ASSUME TypeOK, StageSaved, [Next]_vars PROVE TypeOK'
<1>1. CASE Next
  BY <1>1, PostsKeepTypes, TakingKeepsTypes, TurnKeepsTypes, EndingKeepsTypes, FailureKeepsTypes,
     HostKeepsTypes DEF Next, Work, HostSteps
<1>2. CASE UNCHANGED vars
  BY <1>2, Unchanged, TypePartsNext DEF vars, memory, rows
<1> QED BY <1>1, <1>2

----------------------------------------------------------------------------
(* A worker that is idle or past its turn claims nothing. *)
LEMMA NothingClaimed == ASSUME worker'.pc \notin Raises \ {"taken"}
    PROVE StageSaved' /\ OwnTurn' /\ OpenInTheWorker'
BY DEF StageSaved, OwnTurn, OpenInTheWorker, At, Raises

(* Steps that touch no row the worker's claims are about. *)
LEMMA RowsUntouched == ASSUME Inv, UNCHANGED rows PROVE TurnUnlessWaiting' /\ AbsorbedGetsNoTurn'
BY DEF Inv, rows, TurnUnlessWaiting, AbsorbedGetsNoTurn

LEMMA WorkerUntouched == ASSUME Inv, UNCHANGED <<rows, worker>> PROVE StageSaved' /\ OwnTurn' /\ OpenInTheWorker'
BY DEF Inv, rows, StageSaved, OwnTurn, OpenInTheWorker, At, Line

LEMMA InvInit == Init => Inv
<1> SUFFICES ASSUME Init PROVE Inv OBVIOUS
<1>1. TypeOK BY TypeInit
<1>2. StageSaved /\ OwnTurn /\ OpenInTheWorker
  BY DEF Init, StageSaved, OwnTurn, OpenInTheWorker, At, Idle, Raises
<1>3. TurnUnlessWaiting /\ AbsorbedGetsNoTurn BY DEF Init, TurnUnlessWaiting, AbsorbedGetsNoTurn
<1> QED BY <1>1, <1>2, <1>3 DEF Inv

(* The worker gives a line a turn and runs it. *)
LEMMA WorkKeepsClaims == ASSUME Inv, TypeOK', Start \/ Begin \/ RunTurn \/ EndStage PROVE Inv'
<1>t. RowsTyped /\ WorkerTyped BY TypeParts DEF Inv
<1>1. CASE Start
  <2>1. worker \in Working /\ Line \in Lines BY <1>t, <1>1, WorkerParts DEF Start, At, Raises, Line
  <2>2. CASE SeenInTurn(Line)
    <3>1. worker'.pc = "finally" BY <1>1, <2>1, <2>2, GoToTyped DEF Start
    <3>2. TurnUnlessWaiting' /\ AbsorbedGetsNoTurn'
      BY <1>1, <1>t, <2>1 DEF Start, Inv, RowsTyped, TurnUnlessWaiting, AbsorbedGetsNoTurn
    <3> QED BY <3>1, <3>2, NothingClaimed DEF Inv, Raises
  <2>3. CASE ~SeenInTurn(Line)
    <3>1. worker'.pc = "begin" /\ worker'.line = worker.line
      BY <1>1, <2>1, <2>3, GoToTyped DEF Start, Raises
    <3>2. input'[Line] = "PROCESSING" BY <1>1, <1>t, <2>1, <2>3 DEF Start, RowsTyped
    <3>3. StageSaved' /\ OpenInTheWorker' BY <3>1 DEF StageSaved, OpenInTheWorker, At
    <3>4. OwnTurn' BY <1>1, <2>3, <3>1, <3>2 DEF OwnTurn, Line, SeenInTurn, Start
    <3>5. TurnUnlessWaiting' /\ AbsorbedGetsNoTurn'
      BY <1>1, <1>t, <2>1 DEF Start, Inv, RowsTyped, TurnUnlessWaiting, AbsorbedGetsNoTurn
    <3> QED BY <3>3, <3>4, <3>5 DEF Inv
  <2> QED BY <2>2, <2>3
<1>2. CASE Begin
  <2>1. worker \in Working /\ Line \in Lines BY <1>t, <1>2, WorkerParts DEF Begin, At, Raises, Line
  <2>2. input[Line] \notin {"none", "ACCEPTED"} /\ absorbed[Line] = NoLine
    BY <1>2 DEF Begin, At, Inv, OwnTurn, Raises
  <2> DEFINE pc == CASE episode[Line] = "SPEAK_ACCEPTED" -> "publish"
                     [] episode[Line] \in Resumable \cup {"none"} -> "turn"
                     [] OTHER -> "complete"
  <2>3. pc \in Raises \ {"taken"} /\ pc \in {"publish", "turn", "complete"} BY DEF Raises
  <2>4. pc = "turn" => episode[Line] \in Resumable \cup {"none"} OBVIOUS
  <2>5. GoTo(pc) BY <1>2 DEF Begin
  <2> HIDE DEF pc
  <2>6. worker'.pc = pc /\ worker'.line = worker.line BY <2>1, <2>3, <2>5, GoToTyped
  <2>7. StageSaved' BY <2>3, <2>6 DEF StageSaved, At
  <2>8. OwnTurn' BY <1>2, <2>2, <2>6 DEF OwnTurn, Line, Begin
  <2>9. OpenInTheWorker'
    <3>1. ASSUME pc = "turn" PROVE episode'[Line] # "COMMITTED"
      BY <1>2, <1>t, <2>1, <2>4, <3>1 DEF Begin, RowsTyped, Resumable
    <3> QED BY <2>3, <2>6, <3>1 DEF OpenInTheWorker, Line
  <2>10. \A l \in Lines : l # Line => episode'[l] = episode[l]
    BY <1>2, <1>t DEF Begin, RowsTyped
  <2>11. TurnUnlessWaiting' BY <1>2, <2>2, <2>10 DEF Begin, Inv, TurnUnlessWaiting
  <2>12. AbsorbedGetsNoTurn' BY <1>2, <2>2, <2>10 DEF Begin, Inv, AbsorbedGetsNoTurn
  <2> QED BY <2>7, <2>8, <2>9, <2>11, <2>12 DEF Inv
<1>3. CASE RunTurn
  <2>1. worker \in Working /\ Line \in Lines BY <1>t, <1>3, WorkerParts DEF RunTurn, At, Raises, Line
  <2>2. input[Line] \notin {"none", "ACCEPTED"} /\ absorbed[Line] = NoLine
    BY <1>3 DEF RunTurn, At, Inv, OwnTurn, Raises
  <2>3. /\ worker'.line = worker.line
        /\ worker'.pc = IF receipt[Line].saved THEN "absorb" ELSE "ask"
    BY <1>3, <2>1 DEF RunTurn, Working, Replayed
  <2>4. episode'[Line] = "TURN" /\ \A l \in Lines : l # Line => episode'[l] = episode[l]
    BY <1>3, <1>t, <2>1 DEF RunTurn, RowsTyped
  <2>5. StageSaved' /\ OwnTurn' /\ OpenInTheWorker'
    BY <1>3, <2>2, <2>3, <2>4 DEF RunTurn, StageSaved, OwnTurn, OpenInTheWorker, At, Line
  <2>6. TurnUnlessWaiting' /\ AbsorbedGetsNoTurn'
    BY <1>3, <2>2, <2>4 DEF RunTurn, Inv, TurnUnlessWaiting, AbsorbedGetsNoTurn
  <2> QED BY <2>5, <2>6 DEF Inv
<1>4. CASE EndStage
  <2>1. worker \in Working /\ Line \in Lines BY <1>t, <1>4, WorkerParts DEF EndStage, At, Raises, Line
  <2>2. worker'.line = worker.line /\ worker'.pc = "absorb" BY <1>4, <2>1 DEF EndStage, Working
  <2>3. receipt'[Line].saved BY <1>4, <1>t, <2>1 DEF EndStage, RowsTyped
  <2>4. worker.pc = "stage" BY <1>4 DEF EndStage, At
  <2>5. StageSaved' /\ OwnTurn' /\ OpenInTheWorker'
    BY <1>4, <2>2, <2>3, <2>4 DEF EndStage, Inv, StageSaved, OwnTurn, OpenInTheWorker, At, Line, Raises
  <2>6. TurnUnlessWaiting' /\ AbsorbedGetsNoTurn'
    BY <1>4 DEF EndStage, Inv, TurnUnlessWaiting, AbsorbedGetsNoTurn
  <2> QED BY <2>5, <2>6 DEF Inv
<1> QED BY <1>1, <1>2, <1>3, <1>4

(* The turn goes on to its end. *)
LEMMA EndKeepsClaims ==
    ASSUME Inv, TypeOK', Request \/ (\E l \in Lines : Absorb(l)) \/ EndTurn \/ Publish \/ Complete
    PROVE  Inv'
<1>t. RowsTyped /\ WorkerTyped BY TypeParts DEF Inv
<1>1. CASE Request
  <2>1. worker \in Working /\ worker.pc \in {"ask", "stage"}
    BY <1>t, <1>1, WorkerParts DEF Request, At, Raises
  <2>2. worker'.pc = "stage" /\ worker'.line = worker.line
    BY <1>1, <2>1, GoToTyped DEF Request, Raises
  <2>3. StageSaved' /\ OwnTurn' /\ OpenInTheWorker'
    BY <1>1, <2>1, <2>2 DEF Request, rows, Inv, StageSaved, OwnTurn, OpenInTheWorker, At, Line, Raises
  <2> QED BY <1>1, <2>3, RowsUntouched DEF Request, Inv
<1>2. CASE \E l \in Lines : Absorb(l)
  <2> PICK l \in Lines : Absorb(l) BY <1>2
  <2>1. l # Line /\ input[l] = "ACCEPTED" /\ UNCHANGED <<input, episode, receipt, worker>>
    BY DEF Absorb, MayAbsorb, memory
  <2>2. \A k \in Lines : k # l => absorbed'[k] = absorbed[k] BY <1>t DEF Absorb, RowsTyped
  <2>3. worker.pc = "absorb" /\ Line \in Lines BY <1>t, WorkerParts DEF Absorb, At, Line
  <2>4. episode[l] = "none" BY <2>1 DEF Inv, TurnUnlessWaiting
  <2>5. AbsorbedGetsNoTurn' BY <2>1, <2>2, <2>4 DEF Inv, AbsorbedGetsNoTurn
  <2>6. StageSaved' /\ OwnTurn' /\ OpenInTheWorker'
    BY <2>1, <2>2, <2>3 DEF Inv, StageSaved, OwnTurn, OpenInTheWorker, At, Line
  <2>7. TurnUnlessWaiting' BY <2>1 DEF Inv, TurnUnlessWaiting
  <2> QED BY <2>5, <2>6, <2>7 DEF Inv
<1>3. CASE EndTurn \/ Publish
  <2>1. worker \in Working /\ Line \in Lines /\ worker.pc \in Raises \ {"taken"}
    BY <1>t, <1>3, WorkerParts DEF EndTurn, Publish, At, Raises, Line
  <2>2. input[Line] \notin {"none", "ACCEPTED"} /\ absorbed[Line] = NoLine
    BY <2>1 DEF Inv, OwnTurn
  <2>3. worker'.pc \in {"publish", "complete"} /\ worker'.line = worker.line
    BY <1>3, <2>1, GoToTyped DEF EndTurn, Publish, Raises
  <2>4. \A l \in Lines : l # Line => episode'[l] = episode[l]
    BY <1>3, <1>t DEF EndTurn, Publish, RowsTyped
  <2>5. StageSaved' /\ OwnTurn' /\ OpenInTheWorker'
    BY <1>3, <2>2, <2>3 DEF EndTurn, Publish, StageSaved, OwnTurn, OpenInTheWorker, At, Line
  <2>6. TurnUnlessWaiting' /\ AbsorbedGetsNoTurn'
    BY <1>3, <2>2, <2>4 DEF EndTurn, Publish, Inv, TurnUnlessWaiting, AbsorbedGetsNoTurn
  <2> QED BY <2>5, <2>6 DEF Inv
<1>4. CASE Complete
  <2>1. worker \in Working /\ Line \in Lines /\ worker.pc = "complete"
    BY <1>t, <1>4, WorkerParts DEF Complete, At, Raises, Line
  <2>2. worker'.pc = "after" /\ worker'.line = worker.line
    BY <1>4, <2>1, GoToTyped DEF Complete, Raises
  <2>3. input'[Line] = "COMPLETE" /\ \A l \in Lines : l # Line => input'[l] = input[l]
    BY <1>4, <1>t, <2>1 DEF Complete, RowsTyped
  <2>4. StageSaved' /\ OwnTurn' /\ OpenInTheWorker'
    BY <1>4, <2>1, <2>2, <2>3 DEF Complete, Inv, StageSaved, OwnTurn, OpenInTheWorker, At, Line, Raises
  <2>5. TurnUnlessWaiting' /\ AbsorbedGetsNoTurn'
    BY <1>4, <2>3 DEF Complete, Inv, TurnUnlessWaiting, AbsorbedGetsNoTurn
  <2> QED BY <2>4, <2>5 DEF Inv
<1> QED BY <1>1, <1>2, <1>3, <1>4

(* After its turn the worker claims nothing; a failure gives no line a turn. *)
LEMMA AfterwardsKeepsClaims ==
    ASSUME Inv, TypeOK', Take \/ Hold \/ Finish \/ Finally
                         \/ FailProtocol \/ Raise \/ InputFailed \/ TurnFailed \/ FailureUnsaved
    PROVE  Inv'
<1>t. RowsTyped /\ WorkerTyped BY TypeParts DEF Inv
<1>1. CASE Take \/ Hold \/ Finish \/ Finally \/ Raise \/ FailureUnsaved
  <2>1. worker'.pc \notin Raises \ {"taken"}
    <3>1. CASE Take \/ Finally \/ Raise BY <3>1 DEF Take, Finally, Raise, Idle, Raises
    <3>2. CASE Hold \/ Finish
      <4>1. worker \in Working /\ GoTo("finally")
        BY <1>t, <3>2, WorkerParts DEF Hold, Finish, At, Raises
      <4>2. worker'.pc = "finally" BY <4>1, GoToTyped
      <4> QED BY <4>2 DEF Raises
    <3>3. CASE FailureUnsaved
      BY <1>t, <3>3, WorkerParts, FailingGoes DEF FailureUnsaved, At, Raises
    <3> QED BY <1>1, <3>1, <3>2, <3>3
  <2>2. UNCHANGED rows BY <1>1 DEF Take, Hold, Finish, Finally, Raise, FailureUnsaved
  <2> QED BY <2>1, <2>2, NothingClaimed, RowsUntouched DEF Inv
<1>2. CASE FailProtocol
  <2>1. worker \in Working /\ Line \in Lines /\ worker.pc = "stage"
    BY <1>t, <1>2, WorkerParts DEF FailProtocol, At, Raises, Line
  <2>2. input[Line] \notin {"none", "ACCEPTED"} /\ absorbed[Line] = NoLine
    BY <2>1 DEF Inv, OwnTurn, Raises
  <2>3. worker'.pc = "complete" /\ worker'.line = worker.line
    BY <1>2, <2>1, GoToTyped DEF FailProtocol, Raises
  <2>4. \A l \in Lines : l # Line => episode'[l] = episode[l]
    BY <1>2, <1>t DEF FailProtocol, RowsTyped
  <2>5. StageSaved' /\ OwnTurn' /\ OpenInTheWorker'
    BY <1>2, <2>2, <2>3 DEF FailProtocol, StageSaved, OwnTurn, OpenInTheWorker, At, Line
  <2>6. TurnUnlessWaiting' /\ AbsorbedGetsNoTurn'
    BY <1>2, <2>2, <2>4 DEF FailProtocol, Inv, TurnUnlessWaiting, AbsorbedGetsNoTurn
  <2> QED BY <2>5, <2>6 DEF Inv
<1>3. CASE InputFailed
  <2>1. worker \in Failing /\ Line \in Lines BY <1>t, <1>3, WorkerParts DEF InputFailed, At, Line
  <2>2. worker'.pc = "input failed" BY <1>3, <2>1, FailingGoes DEF InputFailed
  <2>3. Failure \in Settled BY <2>1 DEF Failing, Failure
  <2>4. TurnUnlessWaiting' /\ AbsorbedGetsNoTurn'
    BY <1>3, <1>t, <2>1, <2>3
    DEF InputFailed, RowsTyped, Settled, Inv, TurnUnlessWaiting, AbsorbedGetsNoTurn
  <2> QED BY <2>2, <2>4, NothingClaimed DEF Inv, Raises
<1>4. CASE TurnFailed
  <2>1. worker \in Failing /\ Line \in Lines BY <1>t, <1>4, WorkerParts DEF TurnFailed, At, Line
  <2>2. worker'.pc = "finally" BY <1>4, <2>1, FailingGoes DEF TurnFailed
  <2>3. \A l \in Lines : episode[l] = "none" => episode'[l] = "none"
    BY <1>4, <1>t, <2>1 DEF TurnFailed, RowsTyped
  <2>4. TurnUnlessWaiting' /\ AbsorbedGetsNoTurn'
    BY <1>4, <2>3 DEF TurnFailed, Inv, TurnUnlessWaiting, AbsorbedGetsNoTurn
  <2> QED BY <2>2, <2>4, NothingClaimed DEF Inv, Raises
<1> QED BY <1>1, <1>2, <1>3, <1>4

(* Posts and the process. *)
LEMMA OutsideKeepsClaims ==
    ASSUME Inv, TypeOK', (\E l \in Lines : Receive(l)) \/ Enqueue \/ HostSteps
    PROVE  Inv'
<1>t. RowsTyped BY TypeParts DEF Inv
<1>1. CASE Enqueue \/ RestartPends \/ RestartWithdrawn \/ BeginStop
  <2>1. UNCHANGED <<rows, worker>> BY <1>1 DEF Enqueue, RestartPends, RestartWithdrawn, BeginStop
  <2> QED BY <2>1, RowsUntouched, WorkerUntouched DEF Inv
<1>2. CASE EndProcess \/ Crash
  <2>1. worker' = Idle /\ UNCHANGED rows BY <1>2 DEF EndProcess, Crash, ProcessGone
  <2> QED BY <2>1, RowsUntouched, NothingClaimed DEF Inv, Idle, Raises
<1>3. CASE RecoverInputs
  BY <1>3, RowsUntouched, WorkerUntouched DEF RecoverInputs, Inv
<1>4. CASE \E l \in Lines : Receive(l)
  <2> PICK l \in Lines : Receive(l) BY <1>4
  <2>1. UNCHANGED <<absorbed, episode, receipt, worker>> BY DEF Receive
  <2>2. CASE PersistInput(l)
    <3>1. input[l] = "none" /\ \A k \in Lines : k # l => input'[k] = input[k]
      BY <1>t, <2>2 DEF PersistInput, RowsTyped, Arrived
    <3>2. TurnUnlessWaiting' /\ AbsorbedGetsNoTurn'
      BY <2>1, <3>1 DEF Inv, TurnUnlessWaiting, AbsorbedGetsNoTurn
    <3>3. StageSaved' /\ OpenInTheWorker'
      BY <2>1 DEF Inv, StageSaved, OpenInTheWorker, At, Line
    <3>4. OwnTurn'
      <4>1. worker.pc \in Raises => Line \in Lines
        BY WorkerParts, TypeParts DEF Inv, Line, Raises
      <4> QED BY <2>1, <3>1, <4>1 DEF Inv, OwnTurn, Line
    <3> QED BY <3>2, <3>3, <3>4 DEF Inv
  <2>3. CASE ReadDuplicate(l)
    <3>1. UNCHANGED <<rows, worker>> BY <2>1, <2>3 DEF ReadDuplicate, rows
    <3> QED BY <3>1, RowsUntouched, WorkerUntouched DEF Inv
  <2> QED BY <2>2, <2>3 DEF Receive
<1> QED BY <1>1, <1>2, <1>3, <1>4 DEF HostSteps

LEMMA InvNext == ASSUME Inv, [Next]_vars PROVE Inv'
<1>1. TypeOK' BY TypeNext DEF Inv
<1>2. CASE Next
  BY <1>1, <1>2, WorkKeepsClaims, EndKeepsClaims, AfterwardsKeepsClaims, OutsideKeepsClaims
  DEF Next, Work, HostSteps
<1>3. CASE UNCHANGED vars
  BY <1>1, <1>3, RowsUntouched, WorkerUntouched DEF vars, memory, Inv
<1> QED BY <1>2, <1>3

----------------------------------------------------------------------------
(* For any number of lines and any bounds: rows, memory and session log     *)
(* hold what their readers expect of them, after any crash and put-back.     *)
THEOREM TypeCorrect == Spec => []TypeOK
<1>1. Inv => TypeOK BY DEF Inv
<1> QED BY InvInit, InvNext, <1>1, PTL DEF Spec

(* For any number of lines and any bounds: a line that another turn took    *)
(* (absorbed_by) gets no turn of its own, whatever was put back or cut.      *)
THEOREM TakenLinesGetNoTurn == Spec => []AbsorbedGetsNoTurn
<1>1. Inv => AbsorbedGetsNoTurn BY DEF Inv
<1> QED BY InvInit, InvNext, <1>1, PTL DEF Spec

(* For any number of lines and any bounds: a stage that was saved is never  *)
(* generated again, and no failure undoes a committed turn.                  *)
THEOREM SavedStands == Spec => SavedWorkStands
<1> DEFINE A == \A l \in Lines : /\ receipt[l].saved => receipt'[l] = receipt[l]
                                 /\ episode[l] = "COMMITTED" => episode'[l] = "COMMITTED"
<1>1. Inv /\ [Next]_vars => [A]_vars
  <2> SUFFICES ASSUME Inv, Next PROVE A OBVIOUS
  <2>t. RowsTyped /\ WorkerTyped BY TypeParts DEF Inv
  <2>1. CASE RunTurn \/ EndTurn \/ FailProtocol
    <3>1. episode[Line] # "COMMITTED" /\ UNCHANGED receipt
      BY <2>1 DEF RunTurn, EndTurn, FailProtocol, At, Inv, OpenInTheWorker
    <3>2. \A l \in Lines : l # Line => episode'[l] = episode[l]
      BY <2>1, <2>t DEF RunTurn, EndTurn, FailProtocol, RowsTyped
    <3> QED BY <3>1, <3>2
  <2>2. CASE Begin \/ Publish \/ TurnFailed
    <3>1. \A l \in Lines : episode[l] = "COMMITTED" => episode'[l] = "COMMITTED"
      BY <2>2, <2>t DEF Begin, Publish, TurnFailed, RowsTyped
    <3> QED BY <2>2, <3>1 DEF Begin, Publish, TurnFailed
  <2>3. CASE EndStage
    <3>1. ~receipt[Line].saved BY <2>3 DEF EndStage, At, Inv, OpenInTheWorker
    <3> QED BY <2>3, <2>t, <3>1 DEF EndStage, RowsTyped
  <2>4. CASE UNCHANGED <<episode, receipt>> BY <2>4
  <2>5. CASE (\E l \in Lines : Receive(l) \/ Absorb(l)) \/ Enqueue \/ Take \/ Hold \/ Start \/ Request
    BY <2>5, <2>4 DEF Receive, Absorb, Enqueue, Take, Hold, Start, Request, rows
  <2>6. CASE \/ Complete \/ Finish \/ InputFailed \/ Finally \/ Raise \/ FailureUnsaved \/ HostSteps
    BY <2>6, <2>4 DEF Complete, Finish, InputFailed, Finally, Raise, FailureUnsaved, HostSteps,
       RestartPends, RestartWithdrawn, BeginStop, EndProcess, Crash, ProcessGone, RecoverInputs, rows
  <2> QED BY <2>1, <2>2, <2>3, <2>5, <2>6 DEF Next, Work, HostSteps
<1> QED BY InvInit, InvNext, <1>1, PTL DEF Spec, SavedWorkStands


----------------------------------------------------------------------------
(* What waits in a queue. *)
Holds(s, l) == \E i \in 1..Len(s) : s[i] = l
Queued(l)   == Holds(pending, l)

(* Lines that rise in a queue are in it once each, and a later line may join. *)
Rising(s) == \A i, j \in 1..Len(s) : i < j => s[i] < s[j]
Once(s)   == \A i, j \in 1..Len(s) : s[i] = s[j] => i = j

LEMMA AppendHolds == ASSUME NEW s \in Seq(Lines), NEW l \in Lines PROVE
    /\ Append(s, l) \in Seq(Lines)
    /\ \A k : Holds(Append(s, l), k) <=> Holds(s, k) \/ k = l
    /\ Once(s) /\ ~Holds(s, l) => Once(Append(s, l))
    /\ Rising(s) /\ (\A k \in Lines : Holds(s, k) => k < l) => Rising(Append(s, l))
<1>1. /\ Append(s, l) \in Seq(Lines) /\ Len(Append(s, l)) = Len(s) + 1 /\ Len(s) \in Nat
      /\ \A i \in 1..Len(s) : Append(s, l)[i] = s[i] /\ s[i] \in Lines
      /\ Append(s, l)[Len(s) + 1] = l
  OBVIOUS
<1> DEFINE t == Append(s, l)
<1> HIDE DEF t
<1>2. \A i \in 1..Len(t) : i \in 1..Len(s) \/ i = Len(s) + 1 BY <1>1 DEF t
<1>3. 1..Len(s) \subseteq 1..Len(t) /\ Len(s) + 1 \in 1..Len(t) BY <1>1 DEF t
<1>4. \A k : Holds(t, k) <=> Holds(s, k) \/ k = l BY <1>1, <1>2, <1>3 DEF Holds, t
<1>5. Once(s) /\ ~Holds(s, l) => Once(t) BY <1>1, <1>2 DEF Once, Holds, t
<1>6. ASSUME Rising(s), \A k \in Lines : Holds(s, k) => k < l PROVE Rising(t)
  <2> SUFFICES ASSUME NEW i \in 1..Len(t), NEW j \in 1..Len(t), i < j PROVE t[i] < t[j] BY DEF Rising
  <2>1. i \in 1..Len(s) BY <1>1, <1>2
  <2>2. CASE j \in 1..Len(s) BY <1>1, <1>6, <2>1, <2>2 DEF Rising, t
  <2>3. CASE j = Len(s) + 1 BY <1>1, <1>6, <2>1, <2>3 DEF Holds, t
  <2> QED BY <1>2, <2>2, <2>3
<1> QED BY <1>1, <1>4, <1>5, <1>6 DEF t

LEMMA TailHolds == ASSUME NEW s \in Seq(Lines), s # <<>> PROVE
    /\ Head(s) \in Lines /\ Tail(s) \in Seq(Lines) /\ Holds(s, Head(s))
    /\ \A k : Holds(s, k) <=> Holds(Tail(s), k) \/ k = Head(s)
    /\ Once(s) => Once(Tail(s)) /\ ~Holds(Tail(s), Head(s))
    /\ Rising(s) => Rising(Tail(s)) /\ \A k \in Lines : Holds(Tail(s), k) => Head(s) < k
<1>1. /\ Head(s) = s[1] /\ Head(s) \in Lines /\ Tail(s) \in Seq(Lines)
      /\ Len(Tail(s)) = Len(s) - 1 /\ Len(s) \in Nat \ {0}
      /\ \A i \in 1..Len(Tail(s)) : Tail(s)[i] = s[i + 1] /\ i + 1 \in 1..Len(s)
  OBVIOUS
<1> DEFINE t == Tail(s)
           h == Head(s)
<1> HIDE DEF t, h
<1>2. \A i \in 1..Len(s) : i = 1 \/ (i - 1 \in 1..Len(t) /\ t[i - 1] = s[i]) BY <1>1 DEF t
<1>3. 1 \in 1..Len(s) /\ s[1] = h BY <1>1 DEF h
<1>4. Holds(s, h) BY <1>3 DEF Holds
<1>5. \A k : Holds(s, k) <=> Holds(t, k) \/ k = h
  <2> TAKE k
  <2>1. Holds(s, k) => Holds(t, k) \/ k = h BY <1>2, <1>3 DEF Holds
  <2>2. Holds(t, k) => Holds(s, k) BY <1>1 DEF Holds, t
  <2> QED BY <2>1, <2>2, <1>4
<1>6. ASSUME Once(s) PROVE Once(t) /\ ~Holds(t, h)
  <2>1. \A i, j \in 1..Len(t) : t[i] = t[j] => i + 1 = j + 1 BY <1>1, <1>6 DEF Once, t
  <2>2. Once(t) BY <1>1, <2>1 DEF Once, t
  <2>3. \A i \in 1..Len(t) : t[i] # h
    <3> TAKE i \in 1..Len(t)
    <3>1. t[i] = s[i + 1] /\ i + 1 \in 1..Len(s) /\ i + 1 # 1 BY <1>1 DEF t
    <3> QED BY <1>3, <1>6, <3>1 DEF Once
  <2> QED BY <2>2, <2>3 DEF Holds
<1>7. ASSUME Rising(s) PROVE Rising(t) /\ \A k \in Lines : Holds(t, k) => h < k
  <2>1. \A i, j \in 1..Len(t) : i < j => i + 1 < j + 1 BY <1>1 DEF t
  <2>2. Rising(t) BY <1>1, <1>7, <2>1 DEF Rising, t
  <2>3. \A i \in 1..Len(t) : h < t[i]
    <3> TAKE i \in 1..Len(t)
    <3>1. t[i] = s[i + 1] /\ i + 1 \in 1..Len(s) /\ 1 < i + 1 BY <1>1 DEF t
    <3> QED BY <1>3, <1>7, <3>1 DEF Rising
  <2> QED BY <2>2, <2>3 DEF Holds
<1> QED BY <1>1, <1>4, <1>5, <1>6, <1>7 DEF t, h

(* A start takes each recovered line up once, in the order they came. *)
LEMMA RecoveredHolds ==
    ASSUME NEW order \in [1..Cardinality(Recovered) -> Recovered],
           \A i, j \in DOMAIN order : i < j => ByReceivedAt(order[i], order[j])
    PROVE  /\ order \in Seq(Lines) /\ Once(order) /\ Rising(order)
           /\ \A k : Holds(order, k) <=> k \in Recovered
<1>1. IsFiniteSet(Lines) BY InputAssumption, FS_Interval DEF Lines
<1>2. Recovered \subseteq Lines BY DEF Recovered
<1>3. IsFiniteSet(Recovered) /\ Cardinality(Recovered) \in Nat BY <1>1, <1>2, FS_Subset, FS_CardinalityType
<1> DEFINE n == Cardinality(Recovered)
<1>4. order \in Seq(Lines) /\ Len(order) = n BY <1>2, <1>3
<1> HIDE DEF n
<1>5. \A i, j \in 1..n : i < j => order[i] < order[j] BY DEF ByReceivedAt, n
<1>6. \A i \in 1..n : order[i] \in Int
  <2>1. \A i \in 1..n : order[i] \in Recovered BY DEF n
  <2>2. Lines \subseteq Int BY InputAssumption DEF Lines
  <2> QED BY <1>2, <2>1, <2>2
<1>7. \A i, j \in 1..n : order[i] = order[j] => i = j BY <1>3, <1>5, <1>6 DEF n
<1>8. order \in Injection(1..n, Recovered) BY <1>7 DEF Injection, IsInjective, n
<1>9. IsFiniteSet(1..n) /\ Cardinality(1..n) = n BY <1>3, FS_Interval DEF n
<1>10. order \in Surjection(1..n, Recovered) BY <1>3, <1>8, <1>9, FS_Injection DEF n
<1>11. \A k \in Recovered : \E i \in 1..n : order[i] = k BY <1>10 DEF Surjection
<1>12. \A k : Holds(order, k) <=> k \in Recovered BY <1>4, <1>11 DEF Holds, n
<1>13. Rising(order) /\ Once(order) BY <1>4, <1>5, <1>7 DEF Rising, Once
<1> QED BY <1>4, <1>12, <1>13

----------------------------------------------------------------------------
(* How a line is carried to the worker. *)
Calm == Never("restart") /\ Never("unsaved")

(* A process that is down holds nothing. *)
DownIsEmpty == host = "down" => worker = Idle /\ posting = Nothing

BoundsKept == /\ \A d \in Disturbances : left[d] <= Bound[d]
              /\ Never("restart") => ~restart

(* Lines arrive in order; what is queued, held or posted has arrived. *)
ArrivedInOrder ==
    /\ \A k, l \in Lines : k < l /\ input[l] # "none" => input[k] # "none"
    /\ \A l \in Lines : Queued(l) \/ InHand(l) => input[l] # "none"
    /\ posting # Nothing => input[posting.line] # "none"

(* What a post has read is not behind the row in a way that matters to it. *)
PostReads == posting # Nothing =>
    /\ input[posting.line] = "ACCEPTED" => posting.state = "ACCEPTED"
    /\ Never("restart") /\ posting.state = "ACCEPTED" /\ posting.line \notin enqueued
         => input[posting.line] = "ACCEPTED"

(* The worker lets go of a line that is settled, or that it put back. *)
EndsSettled ==
    /\ worker.pc \in {"input failed", "after"} => input[Line] \in Settled
    /\ At("finally") /\ host = "up" /\ Never("unsaved") => input[Line] \in Settled \/ Queued(Line)

EnqueuedIsCarried == host = "up" => \A l \in enqueued : Queued(l) \/ InHand(l)

UnsettledIsCarried == host = "up" /\ Never("unsaved") => \A l \in Lines :
    /\ input[l] = "PROCESSING" => Queued(l) \/ InHand(l)
    /\ input[l] = "ACCEPTED" => \/ Queued(l) \/ InHand(l)
                                \/ posting # Nothing /\ posting.line = l

(* Without a put-back a line is in one place, `enqueued` while it is there. *)
InOnePlace == Never("restart") =>
    /\ Once(pending)
    /\ \A l \in Lines : InHand(l) => ~Queued(l)
    /\ \A l \in Lines : Queued(l) \/ InHand(l) => l \in enqueued
    /\ \A l \in Lines : Queued(l) => input[l] \notin Settled \ {"NO_RETRIEVAL"}

(* Without a put-back the queue rises from the worker's line, and a line    *)
(* that is on its way to the queue is the last that arrived.                *)
QueueRises == Calm /\ host = "up" =>
    /\ Rising(pending)
    /\ \A k, l \in Lines : InHand(k) /\ Queued(l) => k < l
    /\ \A l \in Lines : input[l] = "ACCEPTED" => \/ Queued(l) \/ InHand(l)
                                                 \/ \A m \in Lines : l < m => input[m] = "none"

(* What came before the line of a running turn is settled. *)
EarlierSettled == Calm /\ worker.pc \in Raises \ {"taken"} =>
    \A k \in Lines : k < Line => input[k] \in Settled

CarryInv == /\ DownIsEmpty /\ BoundsKept /\ ArrivedInOrder /\ PostReads /\ EndsSettled /\ EnqueuedIsCarried
            /\ UnsettledIsCarried /\ InOnePlace /\ QueueRises /\ EarlierSettled

(* What the parts of the invariants say of the worker and of the bounds. *)
LEMMA CarryFacts == ASSUME Inv PROVE
    /\ worker.pc # "idle" <=> worker # Idle
    /\ Idle.pc = "idle"
    /\ worker # Idle => worker.line \in Lines
    /\ posting # Nothing => posting.line \in Lines /\ posting.state \in {"ACCEPTED", "PROCESSING"} \cup Settled
    /\ worker.pc \in Raises => worker \in Working
    /\ worker.pc \in {"raised", "input failed"} => worker \in Failing
    /\ pending \in Seq(Lines) /\ enqueued \subseteq Lines
    /\ input \in [Lines -> {"none", "ACCEPTED", "PROCESSING"} \cup Settled]
    /\ Lines \subseteq Nat \ {0}
<1>t. PostTyped /\ WorkerTyped /\ QueueTyped /\ RowsTyped BY TypeParts DEF Inv
<1>1. worker.pc # "idle" <=> worker # Idle
  <2>1. CASE worker \in Working BY <2>1 DEF Working, Idle, Raises
  <2>2. CASE worker \in Failing
    <3>1. worker.pc \in {"raised", "input failed", "finally"} BY <2>2 DEF Failing
    <3>2. Idle.pc = "idle" BY DEF Idle
    <3> QED BY <3>1, <3>2
  <2> QED BY <1>t, <2>1, <2>2 DEF WorkerTyped, Idle
<1>2. worker # Idle => worker.line \in Lines BY <1>t, <1>1, WorkerParts
<1>3. posting # Nothing => posting.line \in Lines /\ posting.state \in {"ACCEPTED", "PROCESSING"} \cup Settled
  BY <1>t DEF PostTyped
<1>4. Lines \subseteq Nat \ {0} BY InputAssumption DEF Lines
<1> QED BY <1>t, <1>1, <1>2, <1>3, <1>4, WorkerParts DEF QueueTyped, RowsTyped, Idle

(* A disturbance that has happened has happened. *)
LEMMA NeverBefore == ASSUME Inv, BoundsKept, [Next]_vars PROVE
    /\ \A d \in Disturbances : left'[d] <= Bound[d]
    /\ \A d \in Disturbances : left'[d] = Bound[d] => left[d] = Bound[d]
    /\ FailureUnsaved => left'["unsaved"] # Bound["unsaved"]
    /\ RestartPends => left'["restart"] # Bound["restart"]
<1>t. LeftTyped BY TypeParts DEF Inv
<1>1. \A d \in Disturbances : left[d] \in Int /\ Bound[d] \in Int /\ left[d] <= Bound[d]
  BY <1>t, InputAssumption DEF LeftTyped, BoundsKept
<1>2. UNCHANGED left \/ \E kind \in Disturbances : Spend(kind)
  BY DEF Next, Work, Receive, PersistInput, ReadDuplicate, Enqueue, Take, Hold, Start, Begin, RunTurn, Request,
     EndStage, Absorb, EndTurn, Publish, Complete, Finish, InputFailed, TurnFailed, Finally, FailProtocol, Raise,
     FailureUnsaved, RestartPends, RestartWithdrawn, BeginStop, EndProcess, Crash, RecoverInputs, Undisturbed,
     Disturbances, vars
<1>3. ASSUME NEW kind \in Disturbances, Spend(kind) PROVE
         /\ \A d \in Disturbances : left'[d] <= left[d]
         /\ left'[kind] = left[kind] - 1
  BY <1>3, <1>t, <1>1 DEF Spend, LeftTyped
<1>4. \A d \in Disturbances : left'[d] <= left[d] BY <1>1, <1>2, <1>3
<1>5. \A d \in Disturbances : left'[d] <= Bound[d] /\ (left'[d] = Bound[d] => left[d] = Bound[d])
  <2>1. UNCHANGED left \/ left' \in [Disturbances -> Nat] BY <1>2, <1>t, SpendTyped DEF LeftTyped
  <2>2. \A d \in Disturbances : left'[d] \in Int BY <1>1, <2>1
  <2> QED BY <1>1, <1>4, <2>2
<1>6. ASSUME NEW kind \in Disturbances, Spend(kind) PROVE left'[kind] # Bound[kind]
  BY <1>1, <1>3, <1>6
<1>7. FailureUnsaved => left'["unsaved"] # Bound["unsaved"]
  BY <1>6 DEF FailureUnsaved, Disturbances
<1>8. RestartPends => left'["restart"] # Bound["restart"]
  BY <1>6 DEF RestartPends, Disturbances
<1> QED BY <1>5, <1>7, <1>8

(* Within a turn neither rows of inputs nor the queue change. *)
LEMMA TurnCarries == ASSUME Inv, CarryInv, [Next]_vars, Begin \/ RunTurn \/ Request \/ EndStage \/ (\E l \in Lines : Absorb(l)) \/ EndTurn \/ Publish \/ FailProtocol PROVE CarryInv'
<1> USE DEF At, Line, Never, Calm, InHand, Queued
<1>f. /\ DownIsEmpty /\ BoundsKept /\ ArrivedInOrder /\ PostReads /\ EndsSettled /\ EnqueuedIsCarried
      /\ UnsettledIsCarried /\ InOnePlace /\ QueueRises /\ EarlierSettled
  BY DEF CarryInv
<1>n. /\ \A d \in Disturbances : left'[d] <= Bound[d]
      /\ \A d \in Disturbances : left'[d] = Bound[d] => left[d] = Bound[d]
      /\ "restart" \in Disturbances /\ "unsaved" \in Disturbances
  BY <1>f, NeverBefore DEF Disturbances
<1>1w. worker.pc \in Raises \ {"taken"} /\ worker \in Working
  BY CarryFacts DEF Begin, RunTurn, Request, EndStage, Absorb, EndTurn, Publish, FailProtocol, Raises
<1>e. /\ worker.pc \in Raises \ {"taken"} /\ worker'.pc \in Raises \ {"taken", "after"}
      /\ worker # Idle /\ worker' # Idle
      /\ worker'.line = worker.line
      /\ UNCHANGED <<input, host, restart, pending, enqueued, posting>>
  <2> SUFFICES /\ worker'.pc \in Raises \ {"taken", "after"} /\ worker'.line = worker.line
               /\ UNCHANGED <<input, host, restart, pending, enqueued, posting>>
    BY <1>1w, CarryFacts DEF Raises
  <2>1. CASE Begin
    <3> DEFINE pc == CASE episode[Line] = "SPEAK_ACCEPTED" -> "publish"
                       [] episode[Line] \in Resumable \cup {"none"} -> "turn"
                       [] OTHER -> "complete"
    <3>1. pc \in Raises \ {"taken", "after"} BY DEF Raises
    <3>2. GoTo(pc) /\ UNCHANGED <<input, host, restart, pending, enqueued, posting>> BY <2>1 DEF Begin
    <3> HIDE DEF pc
    <3> QED BY <1>1w, <3>1, <3>2, GoToTyped
  <2>2. CASE RunTurn BY <1>1w, <2>2 DEF RunTurn, Working, Raises
  <2>3. CASE EndStage BY <1>1w, <2>3 DEF EndStage, Working, Raises
  <2>4. CASE \E l \in Lines : Absorb(l) BY <1>1w, <2>4 DEF Absorb, memory, Raises
  <2>5. CASE Request \/ EndTurn \/ Publish \/ FailProtocol
    <3>1. \E pc \in {"stage", "publish", "complete"} : GoTo(pc)
      BY <2>5 DEF Request, EndTurn, Publish, FailProtocol
    <3> QED BY <1>1w, <2>5, <3>1, GoToTyped DEF Request, EndTurn, Publish, FailProtocol, rows, Raises
  <2> QED BY <2>1, <2>2, <2>3, <2>4, <2>5
<1> USE DEF Raises
<1>1. DownIsEmpty' BY <1>f, <1>n, <1>e, CarryFacts DEF DownIsEmpty
<1>2. BoundsKept' BY <1>f, <1>n, <1>e, CarryFacts DEF BoundsKept
<1>3. ArrivedInOrder' BY <1>f, <1>n, <1>e, CarryFacts DEF ArrivedInOrder
<1>4. PostReads' BY <1>f, <1>n, <1>e, CarryFacts DEF PostReads
<1>5. EndsSettled' BY <1>f, <1>n, <1>e, CarryFacts DEF EndsSettled
<1>6. EnqueuedIsCarried' BY <1>f, <1>n, <1>e, CarryFacts DEF EnqueuedIsCarried
<1>7. UnsettledIsCarried' BY <1>f, <1>n, <1>e, CarryFacts DEF UnsettledIsCarried
<1>8. InOnePlace' BY <1>f, <1>n, <1>e, CarryFacts DEF InOnePlace
<1>9. QueueRises' BY <1>f, <1>n, <1>e, CarryFacts DEF QueueRises
<1>10. EarlierSettled' BY <1>f, <1>n, <1>e, CarryFacts DEF EarlierSettled
<1> QED BY <1>1, <1>2, <1>3, <1>4, <1>5, <1>6, <1>7, <1>8, <1>9, <1>10 DEF CarryInv

(* A turn that is over settles its line. *)
LEMMA CompletionCarries == ASSUME Inv, CarryInv, [Next]_vars, Complete PROVE CarryInv'
<1> USE DEF At, Line, Never, Calm, InHand, Queued
<1>f. /\ DownIsEmpty /\ BoundsKept /\ ArrivedInOrder /\ PostReads /\ EndsSettled /\ EnqueuedIsCarried
      /\ UnsettledIsCarried /\ InOnePlace /\ QueueRises /\ EarlierSettled
  BY DEF CarryInv
<1>n. /\ \A d \in Disturbances : left'[d] <= Bound[d]
      /\ \A d \in Disturbances : left'[d] = Bound[d] => left[d] = Bound[d]
      /\ "restart" \in Disturbances /\ "unsaved" \in Disturbances
  BY <1>f, NeverBefore DEF Disturbances
<1>e. /\ worker.pc = "complete" /\ worker'.pc = "after" /\ worker'.line = worker.line /\ worker.line \in Lines
      /\ worker # Idle /\ worker' # Idle
      /\ input'[worker.line] = "COMPLETE" /\ \A l \in Lines : l # worker.line => input'[l] = input[l]
      /\ UNCHANGED <<host, restart, pending, enqueued, posting>>
  <2>1. worker.pc = "complete" /\ worker \in Working BY CarryFacts DEF Complete, Raises
  <2> QED BY <2>1, GoToTyped, CarryFacts DEF Complete, Raises
<1> USE DEF Raises, Settled
<1>1. DownIsEmpty' BY <1>f, <1>n, <1>e, CarryFacts DEF DownIsEmpty
<1>2. BoundsKept' BY <1>f, <1>n, <1>e, CarryFacts DEF BoundsKept
<1>3. ArrivedInOrder' BY <1>f, <1>n, <1>e, CarryFacts DEF ArrivedInOrder
<1>4. PostReads' BY <1>f, <1>n, <1>e, CarryFacts DEF PostReads, InOnePlace
<1>5. EndsSettled' BY <1>f, <1>n, <1>e, CarryFacts DEF EndsSettled
<1>6. EnqueuedIsCarried' BY <1>f, <1>n, <1>e, CarryFacts DEF EnqueuedIsCarried
<1>7. UnsettledIsCarried' BY <1>f, <1>n, <1>e, CarryFacts DEF UnsettledIsCarried
<1>8. InOnePlace' BY <1>f, <1>n, <1>e, CarryFacts DEF InOnePlace
<1>9. QueueRises' BY <1>f, <1>n, <1>e, CarryFacts DEF QueueRises, ArrivedInOrder
<1>10. EarlierSettled' BY <1>f, <1>n, <1>e, CarryFacts DEF EarlierSettled
<1> QED BY <1>1, <1>2, <1>3, <1>4, <1>5, <1>6, <1>7, <1>8, <1>9, <1>10 DEF CarryInv

(* The worker leaves a settled line. *)
LEMMA FinishCarries == ASSUME Inv, CarryInv, [Next]_vars, Finish PROVE CarryInv'
<1> USE DEF At, Line, Never, Calm, InHand, Queued
<1>f. /\ DownIsEmpty /\ BoundsKept /\ ArrivedInOrder /\ PostReads /\ EndsSettled /\ EnqueuedIsCarried
      /\ UnsettledIsCarried /\ InOnePlace /\ QueueRises /\ EarlierSettled
  BY DEF CarryInv
<1>n. /\ \A d \in Disturbances : left'[d] <= Bound[d]
      /\ \A d \in Disturbances : left'[d] = Bound[d] => left[d] = Bound[d]
      /\ "restart" \in Disturbances /\ "unsaved" \in Disturbances
  BY <1>f, NeverBefore DEF Disturbances
<1>e. /\ worker.pc = "after" /\ worker'.pc = "finally" /\ worker'.line = worker.line /\ worker.line \in Lines
      /\ worker # Idle /\ worker' # Idle
      /\ UNCHANGED <<input, host, restart, pending, enqueued, posting>>
  <2>1. worker.pc = "after" /\ worker \in Working BY CarryFacts DEF Finish, Raises
  <2> QED BY <2>1, GoToTyped, CarryFacts DEF Finish, rows
<1> USE DEF Raises
<1>1. DownIsEmpty' BY <1>f, <1>n, <1>e, CarryFacts DEF DownIsEmpty
<1>2. BoundsKept' BY <1>f, <1>n, <1>e, CarryFacts DEF BoundsKept
<1>3. ArrivedInOrder' BY <1>f, <1>n, <1>e, CarryFacts DEF ArrivedInOrder
<1>4. PostReads' BY <1>f, <1>n, <1>e, CarryFacts DEF PostReads
<1>5. EndsSettled' BY <1>f, <1>n, <1>e, CarryFacts DEF EndsSettled
<1>6. EnqueuedIsCarried' BY <1>f, <1>n, <1>e, CarryFacts DEF EnqueuedIsCarried
<1>7. UnsettledIsCarried' BY <1>f, <1>n, <1>e, CarryFacts DEF UnsettledIsCarried
<1>8. InOnePlace' BY <1>f, <1>n, <1>e, CarryFacts DEF InOnePlace
<1>9. QueueRises' BY <1>f, <1>n, <1>e, CarryFacts DEF QueueRises
<1>10. EarlierSettled' BY <1>f, <1>n, <1>e, CarryFacts DEF EarlierSettled
<1> QED BY <1>1, <1>2, <1>3, <1>4, <1>5, <1>6, <1>7, <1>8, <1>9, <1>10 DEF CarryInv

(* A turn that raised still holds its line. *)
LEMMA RaiseCarries == ASSUME Inv, CarryInv, [Next]_vars, Raise PROVE CarryInv'
<1> USE DEF At, Line, Never, Calm, InHand, Queued
<1>f. /\ DownIsEmpty /\ BoundsKept /\ ArrivedInOrder /\ PostReads /\ EndsSettled /\ EnqueuedIsCarried
      /\ UnsettledIsCarried /\ InOnePlace /\ QueueRises /\ EarlierSettled
  BY DEF CarryInv
<1>n. /\ \A d \in Disturbances : left'[d] <= Bound[d]
      /\ \A d \in Disturbances : left'[d] = Bound[d] => left[d] = Bound[d]
      /\ "restart" \in Disturbances /\ "unsaved" \in Disturbances
  BY <1>f, NeverBefore DEF Disturbances
<1>e. /\ worker.pc \in Raises /\ worker'.pc = "raised" /\ worker'.line = worker.line /\ worker.line \in Lines
      /\ worker # Idle /\ worker' # Idle
      /\ UNCHANGED <<input, host, restart, pending, enqueued, posting>>
  <2>1. worker.pc \in Raises /\ worker # Idle BY CarryFacts DEF Raise, Raises
  <2>2. \E failure : worker' = [pc |-> "raised", line |-> worker.line, failure |-> failure]
    BY DEF Raise
  <2>3. worker'.pc = "raised" /\ worker'.line = worker.line BY <2>2
  <2> QED BY <2>1, <2>3, CarryFacts DEF Raise, rows
<1> USE DEF Raises
<1>1. DownIsEmpty' BY <1>f, <1>n, <1>e, CarryFacts DEF DownIsEmpty
<1>2. BoundsKept' BY <1>f, <1>n, <1>e, CarryFacts DEF BoundsKept
<1>3. ArrivedInOrder' BY <1>f, <1>n, <1>e, CarryFacts DEF ArrivedInOrder
<1>4. PostReads' BY <1>f, <1>n, <1>e, CarryFacts DEF PostReads
<1>5. EndsSettled' BY <1>f, <1>n, <1>e, CarryFacts DEF EndsSettled
<1>6. EnqueuedIsCarried' BY <1>f, <1>n, <1>e, CarryFacts DEF EnqueuedIsCarried
<1>7. UnsettledIsCarried' BY <1>f, <1>n, <1>e, CarryFacts DEF UnsettledIsCarried
<1>8. InOnePlace' BY <1>f, <1>n, <1>e, CarryFacts DEF InOnePlace
<1>9. QueueRises' BY <1>f, <1>n, <1>e, CarryFacts DEF QueueRises
<1>10. EarlierSettled' BY <1>f, <1>n, <1>e, CarryFacts DEF EarlierSettled
<1> QED BY <1>1, <1>2, <1>3, <1>4, <1>5, <1>6, <1>7, <1>8, <1>9, <1>10 DEF CarryInv

(* The failure settles the line. *)
LEMMA FailureCarries == ASSUME Inv, CarryInv, [Next]_vars, InputFailed PROVE CarryInv'
<1> USE DEF At, Line, Never, Calm, InHand, Queued
<1>f. /\ DownIsEmpty /\ BoundsKept /\ ArrivedInOrder /\ PostReads /\ EndsSettled /\ EnqueuedIsCarried
      /\ UnsettledIsCarried /\ InOnePlace /\ QueueRises /\ EarlierSettled
  BY DEF CarryInv
<1>n. /\ \A d \in Disturbances : left'[d] <= Bound[d]
      /\ \A d \in Disturbances : left'[d] = Bound[d] => left[d] = Bound[d]
      /\ "restart" \in Disturbances /\ "unsaved" \in Disturbances
  BY <1>f, NeverBefore DEF Disturbances
<1>e. /\ worker.pc = "raised" /\ worker'.pc = "input failed" /\ worker'.line = worker.line /\ worker.line \in Lines
      /\ worker # Idle /\ worker' # Idle
      /\ input'[worker.line] \in Settled /\ \A l \in Lines : l # worker.line => input'[l] = input[l]
      /\ UNCHANGED <<host, restart, pending, enqueued, posting>>
  <2>1. worker.pc = "raised" /\ worker \in Failing BY CarryFacts DEF InputFailed
  <2>2. worker.failure \in Settled BY <2>1 DEF Failing
  <2>3. worker'.pc = "input failed" /\ worker'.line = worker.line BY <2>1, FailingGoes DEF InputFailed
  <2> QED BY <2>1, <2>2, <2>3, CarryFacts DEF InputFailed, Failure
<1> USE DEF Raises, Settled
<1>1. DownIsEmpty' BY <1>f, <1>n, <1>e, CarryFacts DEF DownIsEmpty
<1>2. BoundsKept' BY <1>f, <1>n, <1>e, CarryFacts DEF BoundsKept
<1>3. ArrivedInOrder' BY <1>f, <1>n, <1>e, CarryFacts DEF ArrivedInOrder
<1>4. PostReads' BY <1>f, <1>n, <1>e, CarryFacts DEF PostReads, InOnePlace
<1>5. EndsSettled' BY <1>f, <1>n, <1>e, CarryFacts DEF EndsSettled
<1>6. EnqueuedIsCarried' BY <1>f, <1>n, <1>e, CarryFacts DEF EnqueuedIsCarried
<1>7. UnsettledIsCarried' BY <1>f, <1>n, <1>e, CarryFacts DEF UnsettledIsCarried
<1>8. InOnePlace' BY <1>f, <1>n, <1>e, CarryFacts DEF InOnePlace
<1>9. QueueRises' BY <1>f, <1>n, <1>e, CarryFacts DEF QueueRises, ArrivedInOrder
<1>10. EarlierSettled' BY <1>f, <1>n, <1>e, CarryFacts DEF EarlierSettled
<1> QED BY <1>1, <1>2, <1>3, <1>4, <1>5, <1>6, <1>7, <1>8, <1>9, <1>10 DEF CarryInv

(* The handler ends, or gives up. *)
LEMMA HandlerCarries == ASSUME Inv, CarryInv, [Next]_vars, TurnFailed \/ FailureUnsaved PROVE CarryInv'
<1> USE DEF At, Line, Never, Calm, InHand, Queued
<1>f. /\ DownIsEmpty /\ BoundsKept /\ ArrivedInOrder /\ PostReads /\ EndsSettled /\ EnqueuedIsCarried
      /\ UnsettledIsCarried /\ InOnePlace /\ QueueRises /\ EarlierSettled
  BY DEF CarryInv
<1>n. /\ \A d \in Disturbances : left'[d] <= Bound[d]
      /\ \A d \in Disturbances : left'[d] = Bound[d] => left[d] = Bound[d]
      /\ "restart" \in Disturbances /\ "unsaved" \in Disturbances
  BY <1>f, NeverBefore DEF Disturbances
<1>e. /\ worker.pc \in {"raised", "input failed"} /\ worker'.pc = "finally" /\ worker'.line = worker.line
      /\ worker # Idle /\ worker' # Idle
      /\ worker.line \in Lines /\ worker.pc = "raised" => left'["unsaved"] # Bound["unsaved"]
      /\ UNCHANGED <<input, host, restart, pending, enqueued, posting>>
  <2>1. worker.pc \in {"raised", "input failed"} /\ worker \in Failing
    BY CarryFacts DEF TurnFailed, FailureUnsaved
  <2>2. worker'.pc = "finally" /\ worker'.line = worker.line
    BY <2>1, FailingGoes DEF TurnFailed, FailureUnsaved
  <2>3. worker.pc = "raised" => FailureUnsaved BY DEF TurnFailed
  <2> QED BY <1>f, <2>1, <2>2, <2>3, CarryFacts, NeverBefore DEF TurnFailed, FailureUnsaved, rows
<1> USE DEF Raises
<1>1. DownIsEmpty' BY <1>f, <1>n, <1>e, CarryFacts DEF DownIsEmpty
<1>2. BoundsKept' BY <1>f, <1>n, <1>e, CarryFacts DEF BoundsKept
<1>3. ArrivedInOrder' BY <1>f, <1>n, <1>e, CarryFacts DEF ArrivedInOrder
<1>4. PostReads' BY <1>f, <1>n, <1>e, CarryFacts DEF PostReads
<1>5. EndsSettled' BY <1>f, <1>n, <1>e, CarryFacts DEF EndsSettled
<1>6. EnqueuedIsCarried' BY <1>f, <1>n, <1>e, CarryFacts DEF EnqueuedIsCarried
<1>7. UnsettledIsCarried' BY <1>f, <1>n, <1>e, CarryFacts DEF UnsettledIsCarried
<1>8. InOnePlace' BY <1>f, <1>n, <1>e, CarryFacts DEF InOnePlace
<1>9. QueueRises' BY <1>f, <1>n, <1>e, CarryFacts DEF QueueRises
<1>10. EarlierSettled' BY <1>f, <1>n, <1>e, CarryFacts DEF EarlierSettled
<1> QED BY <1>1, <1>2, <1>3, <1>4, <1>5, <1>6, <1>7, <1>8, <1>9, <1>10 DEF CarryInv

(* The worker forgets its line. *)
LEMMA ForgettingCarries == ASSUME Inv, CarryInv, [Next]_vars, Finally PROVE CarryInv'
<1> USE DEF At, Line, Never, Calm, InHand, Queued
<1>f. /\ DownIsEmpty /\ BoundsKept /\ ArrivedInOrder /\ PostReads /\ EndsSettled /\ EnqueuedIsCarried
      /\ UnsettledIsCarried /\ InOnePlace /\ QueueRises /\ EarlierSettled
  BY DEF CarryInv
<1>n. /\ \A d \in Disturbances : left'[d] <= Bound[d]
      /\ \A d \in Disturbances : left'[d] = Bound[d] => left[d] = Bound[d]
      /\ "restart" \in Disturbances /\ "unsaved" \in Disturbances
  BY <1>f, NeverBefore DEF Disturbances
<1>e. /\ worker.pc = "finally" /\ worker # Idle /\ worker' = Idle /\ worker'.pc = "idle" /\ worker.line \in Lines /\ posting = Nothing
      /\ enqueued' = enqueued \ {worker.line}
      /\ UNCHANGED <<input, host, restart, pending, posting>>
  BY CarryFacts DEF Finally, IngressFree, rows
<1> USE DEF Raises
<1>1. DownIsEmpty' BY <1>f, <1>n, <1>e, CarryFacts DEF DownIsEmpty
<1>2. BoundsKept' BY <1>f, <1>n, <1>e, CarryFacts DEF BoundsKept
<1>3. ArrivedInOrder' BY <1>f, <1>n, <1>e, CarryFacts DEF ArrivedInOrder
<1>4. PostReads' BY <1>f, <1>n, <1>e, CarryFacts DEF PostReads
<1>5. EndsSettled' BY <1>f, <1>n, <1>e, CarryFacts DEF EndsSettled
<1>6. EnqueuedIsCarried' BY <1>f, <1>n, <1>e, CarryFacts DEF EnqueuedIsCarried
<1>7. UnsettledIsCarried' BY <1>f, <1>n, <1>e, CarryFacts DEF UnsettledIsCarried, EndsSettled, Settled
<1>8. InOnePlace' BY <1>f, <1>n, <1>e, CarryFacts DEF InOnePlace
<1>9. QueueRises' BY <1>f, <1>n, <1>e, CarryFacts DEF QueueRises, EndsSettled, Settled
<1>10. EarlierSettled' BY <1>f, <1>n, <1>e, CarryFacts DEF EarlierSettled
<1> QED BY <1>1, <1>2, <1>3, <1>4, <1>5, <1>6, <1>7, <1>8, <1>9, <1>10 DEF CarryInv

(* The worker takes the first line. *)
LEMMA TakingCarries == ASSUME Inv, CarryInv, [Next]_vars, Take PROVE CarryInv'
<1> USE DEF At, Line, Never, Calm, InHand, Queued
<1>f. /\ DownIsEmpty /\ BoundsKept /\ ArrivedInOrder /\ PostReads /\ EndsSettled /\ EnqueuedIsCarried
      /\ UnsettledIsCarried /\ InOnePlace /\ QueueRises /\ EarlierSettled
  BY DEF CarryInv
<1>n. /\ \A d \in Disturbances : left'[d] <= Bound[d]
      /\ \A d \in Disturbances : left'[d] = Bound[d] => left[d] = Bound[d]
      /\ "restart" \in Disturbances /\ "unsaved" \in Disturbances
  BY <1>f, NeverBefore DEF Disturbances
<1>e. /\ worker.pc = "idle" /\ worker'.pc = "taken" /\ worker'.line = Head(pending) /\ Head(pending) \in Lines
      /\ host = "up" /\ pending' = Tail(pending)
      /\ worker = Idle /\ worker' # Idle
      /\ UNCHANGED <<input, host, restart, enqueued, posting>>
      /\ \A k : Holds(pending, k) <=> Holds(pending', k) \/ k = Head(pending)
      /\ Once(pending) => Once(pending') /\ ~Holds(pending', Head(pending))
      /\ Rising(pending) => Rising(pending') /\ \A k \in Lines : Holds(pending', k) => Head(pending) < k
  BY CarryFacts, TailHolds DEF Take, rows
<1> USE DEF Raises
<1>1. DownIsEmpty' BY <1>f, <1>n, <1>e, CarryFacts DEF DownIsEmpty
<1>2. BoundsKept' BY <1>f, <1>n, <1>e, CarryFacts DEF BoundsKept
<1>3. ArrivedInOrder' BY <1>f, <1>n, <1>e, CarryFacts DEF ArrivedInOrder
<1>4. PostReads' BY <1>f, <1>n, <1>e, CarryFacts DEF PostReads
<1>5. EndsSettled' BY <1>f, <1>n, <1>e, CarryFacts DEF EndsSettled
<1>6. EnqueuedIsCarried' BY <1>f, <1>n, <1>e, CarryFacts DEF EnqueuedIsCarried
<1>7. UnsettledIsCarried' BY <1>f, <1>n, <1>e, CarryFacts DEF UnsettledIsCarried
<1>8. InOnePlace' BY <1>f, <1>n, <1>e, CarryFacts DEF InOnePlace
<1>9. QueueRises' BY <1>f, <1>n, <1>e, CarryFacts DEF QueueRises
<1>10. EarlierSettled' BY <1>f, <1>n, <1>e, CarryFacts DEF EarlierSettled
<1> QED BY <1>1, <1>2, <1>3, <1>4, <1>5, <1>6, <1>7, <1>8, <1>9, <1>10 DEF CarryInv

(* A stop abandons the line, a pending restart puts it back. *)
LEMMA HoldingCarries == ASSUME Inv, CarryInv, [Next]_vars, Hold PROVE CarryInv'
<1> USE DEF At, Line, Never, Calm, InHand, Queued
<1>f. /\ DownIsEmpty /\ BoundsKept /\ ArrivedInOrder /\ PostReads /\ EndsSettled /\ EnqueuedIsCarried
      /\ UnsettledIsCarried /\ InOnePlace /\ QueueRises /\ EarlierSettled
  BY DEF CarryInv
<1>n. /\ \A d \in Disturbances : left'[d] <= Bound[d]
      /\ \A d \in Disturbances : left'[d] = Bound[d] => left[d] = Bound[d]
      /\ "restart" \in Disturbances /\ "unsaved" \in Disturbances
  BY <1>f, NeverBefore DEF Disturbances
<1>e. /\ worker.pc = "taken" /\ worker'.pc = "finally" /\ worker'.line = worker.line /\ worker.line \in Lines
      /\ worker # Idle /\ worker' # Idle
      /\ host = "up" => restart /\ \A k : Holds(pending', k) <=> Holds(pending, k) \/ k = worker.line
      /\ host # "up" => UNCHANGED pending
      /\ UNCHANGED <<input, host, restart, enqueued, posting>>
  <2>1. worker.pc = "taken" /\ worker \in Working /\ worker.line \in Lines BY CarryFacts DEF Hold, Raises
  <2>2. worker'.pc = "finally" /\ worker'.line = worker.line BY <2>1, GoToTyped DEF Hold
  <2>3. host \in {"up", "stopping", "down"} /\ (host = "stopping" \/ host = "up") BY DEF Hold
  <2>4. host = "up" => restart /\ pending' = Append(pending, worker.line) BY DEF Hold
  <2>5. host # "up" => pending' = pending BY DEF Hold
  <2>6. host = "up" => \A k : Holds(pending', k) <=> Holds(pending, k) \/ k = worker.line
    <3>1. \A k : Holds(Append(pending, worker.line), k) <=> Holds(pending, k) \/ k = worker.line
      BY <2>1, CarryFacts, AppendHolds
    <3> QED BY <2>4, <3>1
  <2> QED BY <2>1, <2>2, <2>4, <2>5, <2>6, CarryFacts DEF Hold, rows
<1> USE DEF Raises
<1>1. DownIsEmpty' BY <1>f, <1>n, <1>e, CarryFacts DEF DownIsEmpty
<1>2. BoundsKept' BY <1>f, <1>n, <1>e, CarryFacts DEF BoundsKept
<1>3. ArrivedInOrder' BY <1>f, <1>n, <1>e, CarryFacts DEF ArrivedInOrder
<1>4. PostReads' BY <1>f, <1>n, <1>e, CarryFacts DEF PostReads
<1>5. EndsSettled' BY <1>f, <1>n, <1>e, CarryFacts DEF EndsSettled
<1>6. EnqueuedIsCarried' BY <1>f, <1>n, <1>e, CarryFacts DEF EnqueuedIsCarried
<1>7. UnsettledIsCarried' BY <1>f, <1>n, <1>e, CarryFacts DEF UnsettledIsCarried
<1>8. InOnePlace' BY <1>f, <1>n, <1>e, CarryFacts DEF InOnePlace, BoundsKept
<1>9. QueueRises' BY <1>f, <1>n, <1>e, CarryFacts DEF QueueRises, BoundsKept
<1>10. EarlierSettled' BY <1>f, <1>n, <1>e, CarryFacts DEF EarlierSettled
<1> QED BY <1>1, <1>2, <1>3, <1>4, <1>5, <1>6, <1>7, <1>8, <1>9, <1>10 DEF CarryInv

(* The worker gives its line a turn, or settles one that another turn took. *)
LEMMA StartCarries == ASSUME Inv, CarryInv, [Next]_vars, Start PROVE CarryInv'
<1> USE DEF At, Line, Never, Calm, InHand, Queued
<1>f. /\ DownIsEmpty /\ BoundsKept /\ ArrivedInOrder /\ PostReads /\ EndsSettled /\ EnqueuedIsCarried
      /\ UnsettledIsCarried /\ InOnePlace /\ QueueRises /\ EarlierSettled
  BY DEF CarryInv
<1>n. /\ \A d \in Disturbances : left'[d] <= Bound[d]
      /\ \A d \in Disturbances : left'[d] = Bound[d] => left[d] = Bound[d]
      /\ "restart" \in Disturbances /\ "unsaved" \in Disturbances
  BY <1>f, NeverBefore DEF Disturbances
<1>e. /\ worker.pc = "taken" /\ worker'.line = worker.line /\ worker.line \in Lines /\ host = "up" /\ ~restart
      /\ worker # Idle /\ worker' # Idle
      /\ \/ worker'.pc = "finally" /\ input'[worker.line] = "COMPLETE"
         \/ worker'.pc = "begin" /\ input'[worker.line] = "PROCESSING"
      /\ \A l \in Lines : l # worker.line => input'[l] = input[l]
      /\ UNCHANGED <<host, restart, pending, enqueued, posting>>
  <2>1. worker.pc = "taken" /\ worker \in Working /\ worker.line \in Lines BY CarryFacts DEF Start, Raises
  <2>2. \E pc \in {"finally", "begin"} : GoTo(pc) /\ (pc = "finally" => input'[worker.line] = "COMPLETE")
                                                  /\ (pc = "begin" => input'[worker.line] = "PROCESSING")
    BY <2>1, CarryFacts DEF Start
  <2>3. /\ worker'.line = worker.line
        /\ \/ worker'.pc = "finally" /\ input'[worker.line] = "COMPLETE"
           \/ worker'.pc = "begin" /\ input'[worker.line] = "PROCESSING"
    BY <2>1, <2>2, GoToTyped DEF Raises
  <2> QED BY <2>1, <2>3, CarryFacts DEF Start
<1> USE DEF Raises, Settled
<1>1. DownIsEmpty' BY <1>f, <1>n, <1>e, CarryFacts DEF DownIsEmpty
<1>2. BoundsKept' BY <1>f, <1>n, <1>e, CarryFacts DEF BoundsKept
<1>3. ArrivedInOrder' BY <1>f, <1>n, <1>e, CarryFacts DEF ArrivedInOrder
<1>4. PostReads' BY <1>f, <1>n, <1>e, CarryFacts DEF PostReads, InOnePlace
<1>5. EndsSettled' BY <1>f, <1>n, <1>e, CarryFacts DEF EndsSettled
<1>6. EnqueuedIsCarried' BY <1>f, <1>n, <1>e, CarryFacts DEF EnqueuedIsCarried
<1>7. UnsettledIsCarried' BY <1>f, <1>n, <1>e, CarryFacts DEF UnsettledIsCarried
<1>8. InOnePlace' BY <1>f, <1>n, <1>e, CarryFacts DEF InOnePlace
<1>9. QueueRises' BY <1>f, <1>n, <1>e, CarryFacts DEF QueueRises, ArrivedInOrder
<1>10. EarlierSettled' BY <1>f, <1>n, <1>e, CarryFacts DEF EarlierSettled, QueueRises, UnsettledIsCarried, ArrivedInOrder
<1> QED BY <1>1, <1>2, <1>3, <1>4, <1>5, <1>6, <1>7, <1>8, <1>9, <1>10 DEF CarryInv

(* A line is saved, or one that is there is read. *)
LEMMA ReceivingCarries == ASSUME Inv, CarryInv, [Next]_vars, NEW l \in Lines, Receive(l) PROVE CarryInv'
<1> USE DEF At, Line, Never, Calm, InHand, Queued
<1>f. /\ DownIsEmpty /\ BoundsKept /\ ArrivedInOrder /\ PostReads /\ EndsSettled /\ EnqueuedIsCarried
      /\ UnsettledIsCarried /\ InOnePlace /\ QueueRises /\ EarlierSettled
  BY DEF CarryInv
<1>n. /\ \A d \in Disturbances : left'[d] <= Bound[d]
      /\ \A d \in Disturbances : left'[d] = Bound[d] => left[d] = Bound[d]
      /\ "restart" \in Disturbances /\ "unsaved" \in Disturbances
  BY <1>f, NeverBefore DEF Disturbances
<1>e. /\ host = "up" /\ posting = Nothing /\ posting' # Nothing /\ posting'.line = l
      /\ posting'.state = input'[l] /\ input'[l] # "none"
      /\ \A k \in Lines : k # l => input'[k] = input[k]
      /\ \/ input[l] = "none" /\ input'[l] = "ACCEPTED" /\ (\A k \in Lines : k < l => input[k] # "none")
         \/ input'[l] = input[l]
      /\ UNCHANGED <<host, restart, pending, enqueued, worker>>
  <2>1. posting' = [at |-> "read", line |-> l, state |-> input'[l]]
    BY CarryFacts DEF Receive, PersistInput, ReadDuplicate, Reading
  <2>2. posting' # Nothing /\ posting'.line = l /\ posting'.state = input'[l] BY <2>1 DEF Nothing
  <2>3. CASE PersistInput(l)
    <3>1. \A k \in Lines : k < l => k \in 1..(l - 1) BY InputAssumption DEF Lines
    <3> QED BY <2>2, <2>3, <3>1, CarryFacts DEF Receive, PersistInput, Arrived
  <2>4. CASE ReadDuplicate(l) BY <2>2, <2>4, CarryFacts DEF Receive, ReadDuplicate, Arrived
  <2> QED BY <2>3, <2>4 DEF Receive
<1> USE DEF Raises, Settled
<1>1. DownIsEmpty' BY <1>f, <1>n, <1>e, CarryFacts DEF DownIsEmpty
<1>2. BoundsKept' BY <1>f, <1>n, <1>e, CarryFacts DEF BoundsKept
<1>3. ArrivedInOrder' BY <1>f, <1>n, <1>e, CarryFacts DEF ArrivedInOrder
<1>4. PostReads' BY <1>f, <1>n, <1>e, CarryFacts DEF PostReads
<1>5. EndsSettled' BY <1>f, <1>n, <1>e, CarryFacts DEF EndsSettled
<1>6. EnqueuedIsCarried' BY <1>f, <1>n, <1>e, CarryFacts DEF EnqueuedIsCarried
<1>7. UnsettledIsCarried' BY <1>f, <1>n, <1>e, CarryFacts DEF UnsettledIsCarried
<1>8. InOnePlace' BY <1>f, <1>n, <1>e, CarryFacts DEF InOnePlace
<1>9. QueueRises'
  <2> SUFFICES ASSUME Calm', host' = "up" PROVE
        /\ Rising(pending')
        /\ \A k, m \in Lines : InHand(k)' /\ Holds(pending', m) => k < m
        /\ \A k \in Lines : input'[k] = "ACCEPTED" => \/ Holds(pending', k) \/ InHand(k)'
                                                      \/ \A m \in Lines : k < m => input'[m] = "none"
    BY DEF QueueRises
  <2>1. Calm /\ host = "up" BY <1>n, <1>e
  <2>2. Rising(pending') /\ \A k, m \in Lines : InHand(k)' /\ Holds(pending', m) => k < m
    BY <1>f, <1>e, <2>1 DEF QueueRises
  <2>3. ASSUME NEW k \in Lines, input'[k] = "ACCEPTED" PROVE
          Holds(pending', k) \/ InHand(k)' \/ \A m \in Lines : k < m => input'[m] = "none"
    <3>1. CASE input[k] = "ACCEPTED" BY <1>f, <1>e, <2>1, <3>1 DEF UnsettledIsCarried
    <3>2. CASE input[k] # "ACCEPTED"
      <4>1. k = l /\ input[l] = "none" BY <1>e, <2>3, <3>2
      <4>2. \A m \in Lines : l < m => input[m] = "none" BY <1>f, <4>1 DEF ArrivedInOrder
      <4> QED BY <1>e, <4>1, <4>2, CarryFacts
    <3> QED BY <3>1, <3>2
  <2> QED BY <2>2, <2>3
<1>10. EarlierSettled' BY <1>f, <1>n, <1>e, CarryFacts DEF EarlierSettled
<1> QED BY <1>1, <1>2, <1>3, <1>4, <1>5, <1>6, <1>7, <1>8, <1>9, <1>10 DEF CarryInv

(* A line that waits is queued. *)
LEMMA EnqueueCarries == ASSUME Inv, CarryInv, [Next]_vars, Enqueue PROVE CarryInv'
<1> USE DEF At, Line, Never, Calm, InHand, Queued
<1>f. /\ DownIsEmpty /\ BoundsKept /\ ArrivedInOrder /\ PostReads /\ EndsSettled /\ EnqueuedIsCarried
      /\ UnsettledIsCarried /\ InOnePlace /\ QueueRises /\ EarlierSettled
  BY DEF CarryInv
<1>n. /\ \A d \in Disturbances : left'[d] <= Bound[d]
      /\ \A d \in Disturbances : left'[d] = Bound[d] => left[d] = Bound[d]
      /\ "restart" \in Disturbances /\ "unsaved" \in Disturbances
  BY <1>f, NeverBefore DEF Disturbances
<1>e. /\ posting # Nothing /\ posting.line \in Lines /\ posting' = Nothing
      /\ \/ /\ posting.state = "ACCEPTED" /\ posting.line \notin enqueued
            /\ enqueued' = enqueued \cup {posting.line}
            /\ \A k : Holds(pending', k) <=> Holds(pending, k) \/ k = posting.line
            /\ Once(pending) /\ ~Holds(pending, posting.line) => Once(pending')
            /\ Rising(pending) /\ (\A k \in Lines : Holds(pending, k) => k < posting.line) => Rising(pending')
         \/ /\ posting.state # "ACCEPTED" \/ posting.line \in enqueued
            /\ UNCHANGED <<enqueued, pending>>
      /\ UNCHANGED <<input, host, restart, worker>>
  <2>1. posting.line \in Lines BY CarryFacts DEF Enqueue
  <2>2. CASE Waits(posting.line, posting.state)
    <3>1. pending' = Append(pending, posting.line) BY <2>2 DEF Enqueue
    <3>2. /\ \A k : Holds(pending', k) <=> Holds(pending, k) \/ k = posting.line
          /\ Once(pending) /\ ~Holds(pending, posting.line) => Once(pending')
          /\ Rising(pending) /\ (\A k \in Lines : Holds(pending, k) => k < posting.line) => Rising(pending')
      BY <2>1, <3>1, CarryFacts, AppendHolds
    <3> QED BY <2>1, <2>2, <3>2 DEF Enqueue, Waits, rows
  <2>3. CASE ~Waits(posting.line, posting.state) BY <2>1, <2>3 DEF Enqueue, Waits, rows
  <2> QED BY <2>2, <2>3
<1> USE DEF Raises, Settled
<1>1. DownIsEmpty' BY <1>f, <1>n, <1>e, CarryFacts DEF DownIsEmpty
<1>2. BoundsKept' BY <1>f, <1>n, <1>e, CarryFacts DEF BoundsKept
<1>3. ArrivedInOrder' BY <1>f, <1>n, <1>e, CarryFacts DEF ArrivedInOrder
<1>4. PostReads' BY <1>f, <1>n, <1>e, CarryFacts DEF PostReads
<1>5. EndsSettled' BY <1>f, <1>n, <1>e, CarryFacts DEF EndsSettled
<1>6. EnqueuedIsCarried' BY <1>f, <1>n, <1>e, CarryFacts DEF EnqueuedIsCarried
<1>7. UnsettledIsCarried' BY <1>f, <1>n, <1>e, CarryFacts DEF UnsettledIsCarried, EnqueuedIsCarried, PostReads
<1>8. InOnePlace' BY <1>f, <1>n, <1>e, CarryFacts DEF InOnePlace, PostReads
<1>9. QueueRises'
  <2> SUFFICES ASSUME Calm', host' = "up" PROVE
        /\ Rising(pending')
        /\ \A k, m \in Lines : InHand(k)' /\ Holds(pending', m) => k < m
        /\ \A k \in Lines : input'[k] = "ACCEPTED" => \/ Holds(pending', k) \/ InHand(k)'
                                                      \/ \A m \in Lines : k < m => input'[m] = "none"
    BY DEF QueueRises
  <2>1. Calm /\ host = "up" BY <1>n, <1>e
  <2>2. CASE UNCHANGED pending BY <1>f, <1>e, <2>1, <2>2 DEF QueueRises
  <2>3. CASE posting.state = "ACCEPTED" /\ posting.line \notin enqueued
    <3>1. ~Queued(posting.line) /\ ~InHand(posting.line) /\ input[posting.line] = "ACCEPTED"
      BY <1>f, <1>e, <2>1, <2>3 DEF InOnePlace, PostReads
    <3>2. \A m \in Lines : posting.line < m => input[m] = "none"
      BY <1>f, <1>e, <2>1, <3>1 DEF QueueRises
    <3>3. \A k \in Lines : Queued(k) \/ InHand(k) => input[k] # "none" /\ k # posting.line
      BY <1>f, <3>1 DEF ArrivedInOrder
    <3>4. \A k \in Lines : Queued(k) \/ InHand(k) => k < posting.line
      <4>1. posting.line \in Lines BY <1>e
      <4>2. \A k \in Lines : k # posting.line => k < posting.line \/ posting.line < k
        BY <4>1, InputAssumption DEF Lines
      <4> QED BY <3>2, <3>3, <4>2
    <3>5. Rising(pending') BY <1>f, <1>e, <2>1, <2>3, <3>4 DEF QueueRises
    <3>6. \A k, m \in Lines : InHand(k)' /\ Holds(pending', m) => k < m
      BY <1>f, <1>e, <2>1, <2>3, <3>4 DEF QueueRises
    <3> QED BY <1>f, <1>e, <2>1, <2>3, <3>5, <3>6 DEF QueueRises
  <2> QED BY <1>e, <2>2, <2>3
<1>10. EarlierSettled' BY <1>f, <1>n, <1>e, CarryFacts DEF EarlierSettled
<1> QED BY <1>1, <1>2, <1>3, <1>4, <1>5, <1>6, <1>7, <1>8, <1>9, <1>10 DEF CarryInv

(* A restart pends or is withdrawn, a stop begins. *)
LEMMA PausesCarry == ASSUME Inv, CarryInv, [Next]_vars, RestartPends \/ RestartWithdrawn \/ BeginStop PROVE CarryInv'
<1> USE DEF At, Line, Never, Calm, InHand, Queued
<1>f. /\ DownIsEmpty /\ BoundsKept /\ ArrivedInOrder /\ PostReads /\ EndsSettled /\ EnqueuedIsCarried
      /\ UnsettledIsCarried /\ InOnePlace /\ QueueRises /\ EarlierSettled
  BY DEF CarryInv
<1>n. /\ \A d \in Disturbances : left'[d] <= Bound[d]
      /\ \A d \in Disturbances : left'[d] = Bound[d] => left[d] = Bound[d]
      /\ "restart" \in Disturbances /\ "unsaved" \in Disturbances
  BY <1>f, NeverBefore DEF Disturbances
<1>e. /\ restart' => restart \/ left'["restart"] # Bound["restart"]
      /\ host' = "up" => host = "up"
      /\ host' # "down"
      /\ UNCHANGED <<input, pending, enqueued, posting, worker>>
  <2>1. CASE RestartPends BY <1>f, <2>1, NeverBefore DEF RestartPends, rows
  <2>2. CASE RestartWithdrawn BY <2>2 DEF RestartWithdrawn, rows
  <2>3. CASE BeginStop BY <2>3 DEF BeginStop, rows
  <2> QED BY <2>1, <2>2, <2>3
<1>1. DownIsEmpty' BY <1>f, <1>n, <1>e, CarryFacts DEF DownIsEmpty
<1>2. BoundsKept' BY <1>f, <1>n, <1>e, CarryFacts DEF BoundsKept
<1>3. ArrivedInOrder' BY <1>f, <1>n, <1>e, CarryFacts DEF ArrivedInOrder
<1>4. PostReads' BY <1>f, <1>n, <1>e, CarryFacts DEF PostReads
<1>5. EndsSettled' BY <1>f, <1>n, <1>e, CarryFacts DEF EndsSettled
<1>6. EnqueuedIsCarried' BY <1>f, <1>n, <1>e, CarryFacts DEF EnqueuedIsCarried
<1>7. UnsettledIsCarried' BY <1>f, <1>n, <1>e, CarryFacts DEF UnsettledIsCarried
<1>8. InOnePlace' BY <1>f, <1>n, <1>e, CarryFacts DEF InOnePlace
<1>9. QueueRises' BY <1>f, <1>n, <1>e, CarryFacts DEF QueueRises
<1>10. EarlierSettled' BY <1>f, <1>n, <1>e, CarryFacts DEF EarlierSettled
<1> QED BY <1>1, <1>2, <1>3, <1>4, <1>5, <1>6, <1>7, <1>8, <1>9, <1>10 DEF CarryInv

(* The process ends. *)
LEMMA GoneCarries == ASSUME Inv, CarryInv, [Next]_vars, EndProcess \/ Crash PROVE CarryInv'
<1> USE DEF At, Line, Never, Calm, InHand, Queued
<1>f. /\ DownIsEmpty /\ BoundsKept /\ ArrivedInOrder /\ PostReads /\ EndsSettled /\ EnqueuedIsCarried
      /\ UnsettledIsCarried /\ InOnePlace /\ QueueRises /\ EarlierSettled
  BY DEF CarryInv
<1>n. /\ \A d \in Disturbances : left'[d] <= Bound[d]
      /\ \A d \in Disturbances : left'[d] = Bound[d] => left[d] = Bound[d]
      /\ "restart" \in Disturbances /\ "unsaved" \in Disturbances
  BY <1>f, NeverBefore DEF Disturbances
<1>e. /\ host' = "down" /\ restart' = FALSE /\ posting' = Nothing /\ worker' = Idle
      /\ (\A k : ~Holds(pending', k)) /\ Once(pending')
      /\ enqueued' = {} /\ UNCHANGED input
  <2>1. pending' = <<>> BY DEF EndProcess, Crash, ProcessGone
  <2>2. (\A k : ~Holds(pending', k)) /\ Once(pending') BY <2>1 DEF Holds, Once
  <2> QED BY <2>2 DEF EndProcess, Crash, ProcessGone, rows
<1> USE DEF Raises
<1>1. DownIsEmpty' BY <1>f, <1>n, <1>e, CarryFacts DEF DownIsEmpty
<1>2. BoundsKept' BY <1>f, <1>n, <1>e, CarryFacts DEF BoundsKept
<1>3. ArrivedInOrder' BY <1>f, <1>n, <1>e, CarryFacts DEF ArrivedInOrder
<1>4. PostReads' BY <1>f, <1>n, <1>e, CarryFacts DEF PostReads
<1>5. EndsSettled' BY <1>f, <1>n, <1>e, CarryFacts DEF EndsSettled
<1>6. EnqueuedIsCarried' BY <1>f, <1>n, <1>e, CarryFacts DEF EnqueuedIsCarried
<1>7. UnsettledIsCarried' BY <1>f, <1>n, <1>e, CarryFacts DEF UnsettledIsCarried
<1>8. InOnePlace' BY <1>f, <1>n, <1>e, CarryFacts DEF InOnePlace
<1>9. QueueRises' BY <1>f, <1>n, <1>e, CarryFacts DEF QueueRises
<1>10. EarlierSettled' BY <1>f, <1>n, <1>e, CarryFacts DEF EarlierSettled
<1> QED BY <1>1, <1>2, <1>3, <1>4, <1>5, <1>6, <1>7, <1>8, <1>9, <1>10 DEF CarryInv

(* A start takes up again what is not settled. *)
LEMMA RecoveryCarries == ASSUME Inv, CarryInv, [Next]_vars, RecoverInputs PROVE CarryInv'
<1> USE DEF At, Line, Never, Calm, InHand, Queued
<1>f. /\ DownIsEmpty /\ BoundsKept /\ ArrivedInOrder /\ PostReads /\ EndsSettled /\ EnqueuedIsCarried
      /\ UnsettledIsCarried /\ InOnePlace /\ QueueRises /\ EarlierSettled
  BY DEF CarryInv
<1>n. /\ \A d \in Disturbances : left'[d] <= Bound[d]
      /\ \A d \in Disturbances : left'[d] = Bound[d] => left[d] = Bound[d]
      /\ "restart" \in Disturbances /\ "unsaved" \in Disturbances
  BY <1>f, NeverBefore DEF Disturbances
<1>e. /\ worker = Idle /\ worker' = Idle /\ posting' = Nothing /\ Rising(pending') /\ Once(pending')
      /\ (\A k : Holds(pending', k) <=> k \in Recovered) /\ enqueued' = Recovered
      /\ UNCHANGED <<input, restart>>
  <2>1. PICK order \in [1..Cardinality(Recovered) -> Recovered] :
            /\ \A i, j \in DOMAIN order : i < j => ByReceivedAt(order[i], order[j])
            /\ pending' = order
    BY DEF RecoverInputs
  <2>2. Rising(order) /\ Once(order) /\ \A k : Holds(order, k) <=> k \in Recovered BY <2>1, RecoveredHolds
  <2>3. worker = Idle /\ posting = Nothing BY <1>f DEF DownIsEmpty, RecoverInputs
  <2> QED BY <2>1, <2>2, <2>3 DEF RecoverInputs, rows
<1>r. \A k : k \in Recovered <=> /\ k \in Lines
                                 /\ \/ input[k] \in {"ACCEPTED", "PROCESSING"}
                                    \/ input[k] = "NO_RETRIEVAL" /\ episode[k] = "none"
  BY DEF Recovered, Recovers
<1> USE <1>r DEF Raises, Settled
<1>1. DownIsEmpty' BY <1>f, <1>n, <1>e, CarryFacts DEF DownIsEmpty
<1>2. BoundsKept' BY <1>f, <1>n, <1>e, CarryFacts DEF BoundsKept
<1>3. ArrivedInOrder' BY <1>f, <1>n, <1>e, CarryFacts DEF ArrivedInOrder
<1>4. PostReads' BY <1>f, <1>n, <1>e, CarryFacts DEF PostReads
<1>5. EndsSettled' BY <1>f, <1>n, <1>e, CarryFacts DEF EndsSettled
<1>6. EnqueuedIsCarried' BY <1>f, <1>n, <1>e, CarryFacts DEF EnqueuedIsCarried
<1>7. UnsettledIsCarried' BY <1>f, <1>n, <1>e, CarryFacts DEF UnsettledIsCarried
<1>8. InOnePlace' BY <1>f, <1>n, <1>e, CarryFacts DEF InOnePlace
<1>9. QueueRises' BY <1>f, <1>n, <1>e, CarryFacts DEF QueueRises
<1>10. EarlierSettled' BY <1>f, <1>n, <1>e, CarryFacts DEF EarlierSettled
<1> QED BY <1>1, <1>2, <1>3, <1>4, <1>5, <1>6, <1>7, <1>8, <1>9, <1>10 DEF CarryInv

LEMMA StutterCarries == ASSUME Inv, CarryInv, UNCHANGED vars PROVE CarryInv'
BY DEF CarryInv, vars, rows, memory, DownIsEmpty, BoundsKept, ArrivedInOrder, PostReads, EndsSettled,
   EnqueuedIsCarried, UnsettledIsCarried, InOnePlace, QueueRises, EarlierSettled, At, Line, Never, Calm,
   InHand, Queued

LEMMA CarryInit == Init => CarryInv
<1> SUFFICES ASSUME Init PROVE CarryInv OBVIOUS
<1>1. worker.pc = "idle" BY DEF Init, Idle
<1>2. \A k : ~Queued(k) BY DEF Init, Queued, Holds
<1>3. Once(pending) /\ Rising(pending) BY DEF Init, Once, Rising
<1>4. BoundsKept
  <2>1. \A d \in Disturbances : Bound[d] \in Nat BY InputAssumption
  <2> QED BY <2>1 DEF Init, BoundsKept, Never
<1>5. DownIsEmpty /\ ArrivedInOrder /\ PostReads
  BY <1>1, <1>2 DEF Init, DownIsEmpty, ArrivedInOrder, PostReads, InHand
<1>6. EndsSettled /\ EnqueuedIsCarried /\ UnsettledIsCarried
  BY <1>1, <1>2 DEF Init, EndsSettled, EnqueuedIsCarried, UnsettledIsCarried, InHand, At
<1>7. InOnePlace /\ QueueRises /\ EarlierSettled
  BY <1>1, <1>2, <1>3 DEF Init, InOnePlace, QueueRises, EarlierSettled, InHand, Raises
<1> QED BY <1>4, <1>5, <1>6, <1>7 DEF CarryInv

LEMMA CarryNext == ASSUME Inv, CarryInv, [Next]_vars PROVE CarryInv'
BY TurnCarries, CompletionCarries, FinishCarries, RaiseCarries, FailureCarries, HandlerCarries,
   ForgettingCarries, TakingCarries, HoldingCarries, StartCarries, ReceivingCarries, EnqueueCarries,
   PausesCarry, GoneCarries, RecoveryCarries, StutterCarries DEF Next, Work

(* Nothing that waits is forgotten or queued twice. *)
LEMMA CarriedNow == ASSUME Inv, CarryInv PROVE CarriedOnce
<1>1. \A l : Queued(l) <=> Places(l) # {} BY DEF Queued, Holds, Places
<1>2. NoLineForgotten
  BY <1>1, CarryFacts DEF CarryInv, NoLineForgotten, UnsettledIsCarried
<1>3. QueuedOnce
  <2> SUFFICES ASSUME Never("restart"), NEW l \in Lines PROVE
        /\ Cardinality(Places(l)) + (IF InHand(l) /\ ~At("finally") THEN 1 ELSE 0) <= 1
        /\ Places(l) # {} => input[l] \notin Settled \ {"NO_RETRIEVAL"}
    BY DEF QueuedOnce
  <2>1. Once(pending) /\ (InHand(l) => ~Queued(l)) /\ (Queued(l) => input[l] \notin Settled \ {"NO_RETRIEVAL"})
    BY DEF CarryInv, InOnePlace
  <2>2. CASE ~Queued(l)
    <3>1. Cardinality(Places(l)) = 0 BY <1>1, <2>2, FS_EmptySet
    <3>2. Cardinality(Places(l)) + 1 <= 1 /\ Cardinality(Places(l)) + 0 <= 1 BY <3>1
    <3> QED BY <1>1, <2>2, <3>2
  <2>3. CASE Queued(l)
    <3>1. PICK i \in 1..Len(pending) : pending[i] = l BY <2>3 DEF Queued, Holds
    <3>2. Places(l) = {i} BY <2>1, <3>1 DEF Once, Places
    <3>3. Cardinality(Places(l)) = 1 BY <3>2, FS_Singleton
    <3>4. Cardinality(Places(l)) + 0 <= 1 BY <3>3
    <3> QED BY <2>1, <2>3, <3>4
  <2> QED BY <2>2, <2>3
<1> QED BY <1>2, <1>3 DEF CarriedOnce

(* For any number of lines and any bounds: while the Host runs and the      *)
(* store takes the records of failures, an accepted line is on its way to   *)
(* the worker; and as long as no worker restart pends no line is queued     *)
(* twice, or beside its own turn.                                           *)
THEOREM LinesAreCarriedOnce == Spec => []CarriedOnce
<1>1. Inv /\ CarryInv => CarriedOnce BY CarriedNow
<1>2. Init => Inv /\ CarryInv BY InvInit, CarryInit
<1>3. (Inv /\ CarryInv) /\ [Next]_vars => (Inv /\ CarryInv)' BY InvNext, CarryNext
<1> QED BY <1>1, <1>2, <1>3, PTL DEF Spec

(* For any number of lines and any bounds: turns begin in the order the     *)
(* lines came, put-backs and unsaved failures excepted.                     *)
THEOREM TurnsBeginInOrder == Spec => InArrivalOrder
<1> DEFINE A == \A l \in Lines : /\ episode[l] = "none" /\ episode'[l] # "none"
                                 /\ Never("restart") /\ Never("unsaved")
                     => \A k \in 1..(l - 1) : input[k] \in Settled
<1>1. Inv /\ CarryInv /\ [Next]_vars => [A]_vars
  <2> SUFFICES ASSUME Inv, CarryInv, Next, NEW l \in Lines, episode[l] = "none", episode'[l] # "none",
                      Calm, NEW k \in 1..(l - 1)
               PROVE  input[k] \in Settled
    BY DEF Calm
  <2>1. Begin \/ RunTurn \/ EndTurn \/ Publish \/ FailProtocol \/ TurnFailed
    BY DEF Next, Work, Receive, Enqueue, Take, Hold, Start, Request, EndStage, Absorb, Complete, Finish,
       InputFailed, Finally, Raise, FailureUnsaved, RestartPends, RestartWithdrawn, BeginStop, EndProcess,
       Crash, ProcessGone, RecoverInputs, rows
  <2>2. RowsTyped BY TypeParts DEF Inv
  <2>3. l = Line BY <2>1, <2>2 DEF Begin, RunTurn, EndTurn, Publish, FailProtocol, TurnFailed, RowsTyped
  <2>4. ~TurnFailed BY <2>2, <2>3 DEF TurnFailed, RowsTyped
  <2>5. worker.pc \in Raises \ {"taken"}
    BY <2>1, <2>4 DEF Begin, RunTurn, EndTurn, Publish, FailProtocol, At, Raises
  <2>6. k \in Lines /\ k < l BY InputAssumption DEF Lines
  <2> QED BY <2>3, <2>5, <2>6 DEF CarryInv, EarlierSettled
<1>2. Init => Inv /\ CarryInv BY InvInit, CarryInit
<1>3. (Inv /\ CarryInv) /\ [Next]_vars => (Inv /\ CarryInv)' BY InvNext, CarryNext
<1> QED BY <1>1, <1>2, <1>3, PTL DEF Spec, InArrivalOrder

----------------------------------------------------------------------------
(* What became of the lines a turn has shown. *)

(* An earlier turn had shown it, or a turn took it. *)
Handled(l) == l \in shownBefore \/ absorbed[l] # NoLine
Passed(l)  == Handled(l) \/ input[l] \notin {"none", "ACCEPTED"}

AnsweredHandled == \A l \in answered : Handled(l)
MarkedArrived   == \A l \in marked : input[l] # "none"

(* What a stage had in view and did not count as its own was passed before. *)
ViewsPassed == \A t \in Lines : receipt[t].saved =>
    \A l \in receipt[t].view \ receipt[t].seen : l = t \/ Passed(l)
BasePassed  == worker.pc \in {"ask", "stage"} => \A l \in worker.base : l = Line \/ Passed(l)
TakesSeen   == At("absorb") => worker.seen = receipt[Line].seen

SeenInv == AnsweredHandled /\ MarkedArrived /\ ViewsPassed /\ BasePassed /\ TakesSeen

(* What was handled stays so, and a line that no longer waits never waits again. *)
LEMMA PassedStays == ASSUME Inv, [Next]_vars, NEW l \in Lines PROVE
    (Handled(l) => Handled(l)') /\ (Passed(l) => Passed(l)') /\ (input[l] # "none" => input'[l] # "none")
<1>t. RowsTyped /\ WorkerTyped BY TypeParts DEF Inv
<1>1. shownBefore \subseteq shownBefore'
  BY DEF Next, Work, Receive, Enqueue, Take, Hold, Start, Begin, RunTurn, Request, EndStage, Absorb, EndTurn,
     Publish, Complete, Finish, InputFailed, TurnFailed, Finally, FailProtocol, Raise, FailureUnsaved,
     RestartPends, RestartWithdrawn, BeginStop, EndProcess, Crash, ProcessGone, RecoverInputs, vars
<1>2. absorbed[l] # NoLine => absorbed'[l] # NoLine
  <2>1. CASE UNCHANGED absorbed BY <2>1
  <2>2. CASE \E k \in Lines : Absorb(k) BY <1>t, <2>2 DEF Absorb, MayAbsorb, RowsTyped
  <2> QED BY <2>1, <2>2
    DEF Next, Work, Receive, Enqueue, Take, Hold, Start, Begin, RunTurn, Request, EndStage, EndTurn,
     Publish, Complete, Finish, InputFailed, TurnFailed, Finally, FailProtocol, Raise, FailureUnsaved,
     RestartPends, RestartWithdrawn, BeginStop, EndProcess, Crash, ProcessGone, RecoverInputs, vars, rows
<1>3. \/ input'[l] = input[l]
      \/ input[l] = "none" /\ input'[l] = "ACCEPTED"
      \/ input'[l] \in {"PROCESSING"} \cup Settled
  <2>1. CASE UNCHANGED input BY <2>1
  <2>2. CASE \E k \in Lines : Receive(k)
    <3> PICK k \in Lines : Receive(k) BY <2>2
    <3>1. CASE PersistInput(k) BY <1>t, <3>1 DEF PersistInput, Arrived, RowsTyped
    <3>2. CASE ReadDuplicate(k) BY <3>2 DEF ReadDuplicate
    <3> QED BY <3>1, <3>2 DEF Receive
  <2>3. CASE Start \/ Complete BY <1>t, <2>3 DEF Start, Complete, RowsTyped, Settled
  <2>4. CASE InputFailed
    <3>1. Failure \in Settled BY <1>t, <2>4, WorkerParts DEF InputFailed, At, Failing, Failure
    <3> QED BY <1>t, <2>4, <3>1 DEF InputFailed, RowsTyped
  <2> QED BY <2>1, <2>2, <2>3, <2>4
    DEF Next, Work, Enqueue, Take, Hold, Begin, RunTurn, Request, EndStage, Absorb, EndTurn,
     Publish, Finish, TurnFailed, Finally, FailProtocol, Raise, FailureUnsaved,
     RestartPends, RestartWithdrawn, BeginStop, EndProcess, Crash, ProcessGone, RecoverInputs, vars, rows
<1>4. Handled(l) => Handled(l)' BY <1>1, <1>2 DEF Handled
<1> QED BY <1>3, <1>4 DEF Passed, Settled

(* Steps that show, save and take nothing. *)
LEMMA SeenUntouched ==
    ASSUME Inv, SeenInv, [Next]_vars, UNCHANGED <<answered, marked, receipt>>,
           UNCHANGED worker \/ worker'.pc \notin {"ask", "stage", "absorb"}
    PROVE  SeenInv'
<1>t. SeenTyped /\ RowsTyped /\ WorkerTyped BY TypeParts DEF Inv
<1>1. AnsweredHandled' BY <1>t, PassedStays DEF SeenInv, AnsweredHandled, SeenTyped
<1>2. MarkedArrived' BY <1>t, PassedStays DEF SeenInv, MarkedArrived, SeenTyped
<1>3. ViewsPassed'
  <2> SUFFICES ASSUME NEW t \in Lines, receipt[t].saved, NEW l \in receipt[t].view \ receipt[t].seen
               PROVE l = t \/ Passed(l)'
    BY DEF ViewsPassed
  <2>1. receipt[t] \in Stage BY <1>t DEF RowsTyped, None
  <2>2. l \in Lines BY <2>1 DEF Stage
  <2> QED BY <2>2, PassedStays DEF SeenInv, ViewsPassed
<1>4. BasePassed'
  <2> SUFFICES ASSUME UNCHANGED worker, worker.pc \in {"ask", "stage"}, NEW l \in worker.base
               PROVE l = Line \/ Passed(l)'
    BY DEF BasePassed, Line
  <2>1. worker \in Working BY <1>t, WorkerParts DEF Raises
  <2>2. l \in Lines BY <2>1 DEF Working
  <2> QED BY <2>2, PassedStays DEF SeenInv, BasePassed
<1>5. TakesSeen' BY DEF SeenInv, TakesSeen, At, Line
<1> QED BY <1>1, <1>2, <1>3, <1>4, <1>5 DEF SeenInv

(* A turn that begins passes what the session has shown: it is shown before, taken, or no longer waits. *)
LEMMA RunTurnSees == ASSUME Inv, SeenInv, RunTurn PROVE SeenInv'
<1>t. SeenTyped /\ RowsTyped /\ WorkerTyped BY TypeParts DEF Inv
<1>n. [Next]_vars BY DEF Next, Work
<1>w. worker \in Working /\ Line \in Lines BY <1>t, WorkerParts DEF RunTurn, At, Raises, Line
<1>1. AnsweredHandled' BY <1>t, <1>n, PassedStays DEF RunTurn, SeenInv, AnsweredHandled, SeenTyped
<1>2. MarkedArrived' BY <1>t, <1>n, PassedStays DEF RunTurn, SeenInv, MarkedArrived, SeenTyped
<1>3. ViewsPassed'
  <2> SUFFICES ASSUME NEW t \in Lines, receipt[t].saved, NEW l \in receipt[t].view \ receipt[t].seen
               PROVE l = t \/ Passed(l)'
    BY DEF ViewsPassed, RunTurn
  <2>1. receipt[t] \in Stage BY <1>t DEF RowsTyped, None
  <2>2. l \in Lines BY <2>1 DEF Stage
  <2> QED BY <1>n, <2>2, PassedStays DEF SeenInv, ViewsPassed
<1>4. CASE Replayed(Line)
  <2>1. worker' = [worker EXCEPT !.pc = "absorb", !.seen = receipt[Line].seen] BY <1>4 DEF RunTurn
  <2>2. worker'.pc = "absorb" /\ worker'.seen = receipt[Line].seen /\ worker'.line = worker.line
    BY <1>w, <2>1 DEF Working
  <2>3. BasePassed' /\ TakesSeen' BY <2>2 DEF RunTurn, BasePassed, TakesSeen, At, Line
  <2> QED BY <1>1, <1>2, <1>3, <2>3 DEF SeenInv
<1>5. CASE ~Replayed(Line)
  <2>1. worker' = [worker EXCEPT !.pc = "ask", !.base = marked] BY <1>5 DEF RunTurn
  <2>2. worker'.pc = "ask" /\ worker'.base = marked /\ worker'.line = worker.line
    BY <1>w, <2>1 DEF Working
  <2>3. \A l \in marked : input[l] # "none" BY DEF SeenInv, MarkedArrived
  <2>4. \A l \in marked : l = Line \/ Passed(l)'
    BY <2>3 DEF RunTurn, Passed, Handled, MayAbsorb
  <2>5. BasePassed' /\ TakesSeen' BY <2>2, <2>4 DEF BasePassed, TakesSeen, At, Line
  <2> QED BY <1>1, <1>2, <1>3, <2>5 DEF SeenInv
<1> QED BY <1>4, <1>5

LEMMA RequestSees == ASSUME Inv, SeenInv, Request PROVE SeenInv'
<1>t. WorkerTyped BY TypeParts DEF Inv
<1>w. worker \in Working /\ worker.pc \in {"ask", "stage"} BY <1>t, WorkerParts DEF Request, At, Raises
<1>1. worker'.pc = "stage" /\ worker'.line = worker.line /\ worker'.base = worker.base
  BY <1>w DEF Request, GoTo, Working
<1>2. MarkedArrived' BY DEF Request, MarkedArrived, Arrived, rows
<1>3. AnsweredHandled' /\ ViewsPassed'
  BY DEF Request, rows, SeenInv, AnsweredHandled, ViewsPassed, Passed, Handled
<1>4. BasePassed' /\ TakesSeen'
  BY <1>w, <1>1 DEF Request, rows, SeenInv, BasePassed, TakesSeen, Passed, Handled, At, Line
<1> QED BY <1>2, <1>3, <1>4 DEF SeenInv

(* What the stage does not count as its own was marked before it began. *)
LEMMA EndStageSees == ASSUME Inv, SeenInv, EndStage PROVE SeenInv'
<1>t. RowsTyped /\ WorkerTyped BY TypeParts DEF Inv
<1>w. worker \in Working /\ worker.pc = "stage" /\ Line \in Lines
  BY <1>t, WorkerParts DEF EndStage, At, Raises, Line
<1>1. worker'.pc = "absorb" /\ worker'.line = worker.line /\ worker'.seen = marked \ worker.base
  BY <1>w DEF EndStage, SeenInputs, Working
<1>2. /\ receipt'[Line] = [saved |-> TRUE, seen |-> marked \ worker.base, view |-> marked]
      /\ \A t \in Lines : t # Line => receipt'[t] = receipt[t]
  BY <1>t, <1>w DEF EndStage, SeenInputs, RowsTyped
<1>3. \A l : Passed(l)' = Passed(l) BY DEF EndStage, Passed, Handled
<1>4. ViewsPassed'
  <2>1. \A l \in worker.base : l = Line \/ Passed(l) BY <1>w DEF SeenInv, BasePassed
  <2>2. \A l \in receipt'[Line].view \ receipt'[Line].seen : l \in worker.base BY <1>2
  <2>3. ASSUME NEW t \in Lines, receipt'[t].saved, NEW l \in receipt'[t].view \ receipt'[t].seen
        PROVE  l = t \/ Passed(l)'
    <3>1. CASE t = Line BY <1>3, <2>1, <2>2, <2>3, <3>1
    <3>2. CASE t # Line BY <1>2, <1>3, <2>3, <3>2 DEF SeenInv, ViewsPassed
    <3> QED BY <3>1, <3>2
  <2> QED BY <2>3 DEF ViewsPassed
<1>5. BasePassed' /\ TakesSeen' BY <1>1, <1>2 DEF BasePassed, TakesSeen, At, Line
<1>6. AnsweredHandled' /\ MarkedArrived' BY DEF EndStage, SeenInv, AnsweredHandled, MarkedArrived, Handled
<1> QED BY <1>4, <1>5, <1>6 DEF SeenInv

LEMMA AbsorbSees == ASSUME Inv, SeenInv, NEW k \in Lines, Absorb(k) PROVE SeenInv'
<1>1. UNCHANGED <<answered, marked, receipt, worker>> BY DEF Absorb, memory
<1>2. [Next]_vars BY DEF Next, Work
<1> QED BY <1>1, <1>2, SeenUntouched

(* A turn that ends has taken all it counts as its own. *)
LEMMA EndTurnSees == ASSUME Inv, SeenInv, EndTurn PROVE SeenInv'
<1>t. RowsTyped /\ WorkerTyped BY TypeParts DEF Inv
<1>w. worker \in Working /\ worker.pc = "absorb" /\ Line \in Lines
  BY <1>t, WorkerParts DEF EndTurn, At, Raises, Line
<1>1. worker'.pc \in {"publish", "complete"} /\ worker'.line = worker.line
  BY <1>w, GoToTyped DEF EndTurn, Raises
<1>2. \A l : (Handled(l)' <=> Handled(l)) /\ (Passed(l)' <=> Passed(l)) BY DEF EndTurn, Passed, Handled
<1>3. AnsweredHandled'
  <2> SUFFICES ASSUME NEW l \in answered' PROVE Handled(l) BY <1>2 DEF AnsweredHandled
  <2>1. CASE l \in answered BY <2>1 DEF SeenInv, AnsweredHandled
  <2>2. CASE l \in receipt[Line].view \ {Line} /\ input[l] = "ACCEPTED"
    <3>1. receipt[Line].saved BY DEF EndTurn, Inv, StageSaved
    <3>2. CASE l \in receipt[Line].seen
      <4>1. ~MayAbsorb(l) BY <3>2 DEF EndTurn, SeenInv, TakesSeen
      <4> QED BY <2>2, <4>1 DEF MayAbsorb, Handled
    <3>3. CASE l \notin receipt[Line].seen
      BY <1>w, <2>2, <3>1, <3>3 DEF SeenInv, ViewsPassed, Passed
    <3> QED BY <3>2, <3>3
  <2> QED BY <2>1, <2>2 DEF EndTurn
<1>4. MarkedArrived' /\ ViewsPassed' BY <1>2 DEF EndTurn, SeenInv, MarkedArrived, ViewsPassed
<1>5. BasePassed' /\ TakesSeen' BY <1>1 DEF BasePassed, TakesSeen, At
<1> QED BY <1>3, <1>4, <1>5 DEF SeenInv

LEMMA SeenNext == ASSUME Inv, SeenInv, [Next]_vars PROVE SeenInv'
<1>t. WorkerTyped BY TypeParts DEF Inv
<1>1. CASE RunTurn \/ Request \/ EndStage \/ (\E l \in Lines : Absorb(l)) \/ EndTurn
  BY <1>1, RunTurnSees, RequestSees, EndStageSees, AbsorbSees, EndTurnSees
<1>2. CASE \/ (\E l \in Lines : Receive(l)) \/ Enqueue
           \/ RestartPends \/ RestartWithdrawn \/ BeginStop \/ RecoverInputs \/ UNCHANGED vars
  <2>1. UNCHANGED <<answered, marked, receipt, worker>>
    BY <1>2 DEF Receive, Enqueue, RestartPends, RestartWithdrawn, BeginStop, RecoverInputs, vars, rows, memory
  <2> QED BY <2>1, SeenUntouched
<1>3. CASE Take \/ Finally \/ Raise \/ EndProcess \/ Crash
  <2>1. worker'.pc \notin {"ask", "stage", "absorb"}
    BY <1>3 DEF Take, Finally, Raise, EndProcess, Crash, ProcessGone, Idle
  <2>2. UNCHANGED <<answered, marked, receipt>>
    BY <1>3 DEF Take, Finally, Raise, EndProcess, Crash, ProcessGone, rows
  <2> QED BY <2>1, <2>2, SeenUntouched
<1>4. CASE Hold \/ Start \/ Begin \/ Publish \/ Complete \/ Finish \/ FailProtocol
  <2>1. worker \in Working
    BY <1>t, <1>4, WorkerParts DEF Hold, Start, Begin, Publish, Complete, Finish, FailProtocol, At, Raises
  <2>2. \E pc \in {"finally", "begin", "turn", "publish", "complete", "after"} : GoTo(pc)
    BY <1>4 DEF Hold, Start, Begin, Publish, Complete, Finish, FailProtocol
  <2>3. worker'.pc \notin {"ask", "stage", "absorb"} BY <2>1, <2>2, GoToTyped DEF Raises
  <2>4. UNCHANGED <<answered, marked, receipt>>
    BY <1>4 DEF Hold, Start, Begin, Publish, Complete, Finish, FailProtocol, rows
  <2> QED BY <2>3, <2>4, SeenUntouched
<1>5. CASE InputFailed \/ TurnFailed \/ FailureUnsaved
  <2>1. worker \in Failing BY <1>t, <1>5, WorkerParts DEF InputFailed, TurnFailed, FailureUnsaved, At
  <2>2. worker'.pc \notin {"ask", "stage", "absorb"}
    BY <1>5, <2>1, FailingGoes DEF InputFailed, TurnFailed, FailureUnsaved
  <2>3. UNCHANGED <<answered, marked, receipt>>
    BY <1>5 DEF InputFailed, TurnFailed, FailureUnsaved, rows
  <2> QED BY <2>2, <2>3, SeenUntouched
<1> QED BY <1>1, <1>2, <1>3, <1>4, <1>5 DEF Next, Work

LEMMA SeenInit == Init => SeenInv
BY DEF Init, None, Idle, SeenInv, AnsweredHandled, MarkedArrived, ViewsPassed, BasePassed, TakesSeen, At

(* For any number of lines and any bounds: a line that a turn that ended    *)
(* was the first to show gets no turn of its own, also when the turn was    *)
(* replayed from its receipt after a crash.                                  *)
THEOREM ShownLinesGetNoTurn == Spec => []AnsweredOnceUnlessShownBefore
<1>1. Inv /\ SeenInv => AnsweredOnceUnlessShownBefore
  <2>1. SeenTyped /\ Inv => answered \subseteq Lines BY DEF SeenTyped
  <2> QED BY <2>1, TypeParts
      DEF Inv, SeenInv, AnsweredHandled, Handled, AbsorbedGetsNoTurn, AnsweredOnceUnlessShownBefore
<1>2. Init => Inv /\ SeenInv BY InvInit, SeenInit
<1>3. (Inv /\ SeenInv) /\ [Next]_vars => (Inv /\ SeenInv)' BY InvNext, SeenNext
<1> QED BY <1>1, <1>2, <1>3, PTL DEF Spec
=============================================================================

-------------------------- MODULE Restarts_proofs ---------------------------
(***************************************************************************)
(* For any versions, requests and bounds: a request of hers restarts the    *)
(* Host at most once, one nobody answered yet is never lost, the stop it    *)
(* brings is recorded as planned, and a fallback goes back to a version     *)
(* that came up before.                                                     *)
(*                                                                         *)
(* The argument is where a request is. One that was asked for is in exactly *)
(* one of three places: pending.json, the hands of go(), request.json. Each *)
(* step moves it to the next place or takes it out of all of them with an   *)
(* answer, and only the supervisor's taking counts as carried out. The      *)
(* second part follows the mark on the lease along those places; the third  *)
(* follows a version from a selection to the one a fallback remembers.      *)
(***************************************************************************)
EXTENDS Restarts, TLAPS

Maybe == Requests \cup {None}

(* The state the requests pass through. *)
PlacesTyped ==
    /\ desk \in [pc : {"none", "idle", "due", "taken", "marked"}, pending : Maybe, hand : Maybe]
    /\ files \in [pending : Maybe, request : Maybe]
    /\ fate \in [Requests -> {"none", "asked", "replaced", "cancelled", "cut", "carried"}]
    /\ carried \in [Requests -> Nat]

SupTyped == sup \in [pc : {"prepare", "starting", "watch", "exited", "off"}, rung : Nat, asked : BOOLEAN,
                     reverted : BOOLEAN, rec : [by : {"launcher", "self", "nobody"}, failed : BOOLEAN]]

(* A desk exists while a worker runs, and works on what its file says; the   *)
(* supervisor prepares a start only when the last Host is gone.              *)
DeskFollows ==
    /\ WorkerRuns => desk.pending = files.pending
    /\ ~WorkerRuns => desk = NoDesk
    /\ desk.hand # None <=> desk.pc \in {"taken", "marked"}
    /\ sup.pc \in {"prepare", "exited", "off"} => host = "none"

(* The three places hold different requests, each asked for. *)
InPlace(r) == r \in {files.pending, desk.hand, files.request}
OnePlace ==
    /\ \A r \in Requests : InPlace(r) <=> Asked(r)
    /\ files.pending # None => files.pending \notin {desk.hand, files.request}
    /\ desk.hand # None => desk.hand # files.request

(* One not yet answered has not been carried out. *)
NotYetCarried == \A r \in Requests : fate[r] \in {"none", "asked"} => carried[r] = 0

(* The inductive invariant. *)
IInv == PlacesTyped /\ SupTyped /\ DeskFollows /\ OnePlace /\ NotYetCarried /\ CarriedOnce

(* A request in the desk's file is in the desk's memory, or in no desk yet. *)
LEMMA StandsThere == IInv => RequestStands
BY DEF IInv, OnePlace, InPlace, DeskFollows, RequestStands

LEMMA InitPlaced == Init => IInv
<1> SUFFICES ASSUME Init PROVE IInv
  OBVIOUS
<1> USE RestartAssumption DEF Init
<1>1. PlacesTyped
  BY DEF PlacesTyped, Maybe, NoDesk
<1>2. SupTyped
  BY DEF SupTyped, Record
<1>3. DeskFollows
  BY DEF DeskFollows, WorkerRuns, NoDesk
<1>4. OnePlace
  BY DEF OnePlace, InPlace, Asked, NoDesk
<1>5. NotYetCarried /\ CarriedOnce
  BY DEF NotYetCarried, CarriedOnce
<1> QED BY <1>1, <1>2, <1>3, <1>4, <1>5 DEF IInv

(* A step that moves no request and no process. *)
LEMMA StillPlaced ==
    ASSUME IInv, UNCHANGED <<files, fate, carried>>,
           PlacesTyped', SupTyped', DeskFollows', desk'.hand = desk.hand
    PROVE  IInv'
BY DEF IInv, PlacesTyped, OnePlace, InPlace, Asked, NotYetCarried, CarriedOnce

(* What a failed start makes of the supervisor. *)
LEMMA FailedTyped == ASSUME SupTyped, StartFailed PROVE SupTyped' /\ sup'.pc = "prepare"
<1>1. NextRung \in Nat
  BY DEF NextRung, SupTyped
<1>2. /\ sup.rec \in [by : {"launcher", "self", "nobody"}, failed : BOOLEAN]
      /\ [sup.rec EXCEPT !.failed = TRUE] \in [by : {"launcher", "self", "nobody"}, failed : BOOLEAN]
  BY DEF SupTyped
<1>3. sup' = [sup EXCEPT !.pc = "prepare", !.rung = NextRung, !.rec = [sup.rec EXCEPT !.failed = TRUE]]
  BY DEF StartFailed, SupTyped
<1> QED BY <1>1, <1>2, <1>3 DEF SupTyped

(* The Host of a start comes up, and its worker is replaced. *)
LEMMA HostPlaced == ASSUME IInv, HostStep PROVE IInv'
<1>1. CASE Acquire
  <2> USE <1>1 DEF Acquire, asking
  <2>1. PlacesTyped'
    BY DEF IInv, PlacesTyped, Maybe
  <2>2. SupTyped'
    BY DEF IInv, SupTyped
  <2>3. DeskFollows'
    BY DEF IInv, SupTyped, PlacesTyped, DeskFollows, WorkerRuns
  <2> QED BY <2>1, <2>2, <2>3, StillPlaced DEF IInv, SupTyped, PlacesTyped, DeskFollows
<1>2. CASE OpenDesk
  <2> USE <1>2 DEF OpenDesk, MakeDesk, Loaded, NoDesk
  <2>1. PlacesTyped'
    BY DEF IInv, PlacesTyped, Maybe
  <2>2. SupTyped'
    BY DEF IInv, SupTyped
  <2>3. DeskFollows'
    BY DEF IInv, SupTyped, PlacesTyped, DeskFollows, WorkerRuns
  <2>4. desk'.hand = desk.hand
    BY DEF IInv, DeskFollows, WorkerRuns
  <2> QED BY <2>1, <2>2, <2>3, <2>4, StillPlaced
<1>3. CASE RuntimeReady
  <2> USE <1>3 DEF RuntimeReady, asking
  <2>1. PlacesTyped'
    BY DEF IInv, PlacesTyped, Maybe
  <2>2. SupTyped'
    BY DEF IInv, SupTyped
  <2>3. DeskFollows'
    BY DEF IInv, SupTyped, PlacesTyped, DeskFollows, WorkerRuns
  <2> QED BY <2>1, <2>2, <2>3, StillPlaced DEF IInv, SupTyped, PlacesTyped, DeskFollows
<1>4. CASE WorkerReady
  <2> USE <1>4 DEF WorkerReady, Confirm, asking
  <2>1. PlacesTyped'
    BY DEF IInv, PlacesTyped, Maybe
  <2>2. SupTyped'
    BY DEF IInv, SupTyped
  <2>3. DeskFollows'
    BY DEF IInv, SupTyped, PlacesTyped, DeskFollows, WorkerRuns
  <2> QED BY <2>1, <2>2, <2>3, StillPlaced DEF IInv, SupTyped, PlacesTyped, DeskFollows
<1> QED BY <1>1, <1>2, <1>3, <1>4 DEF HostStep

(* What the desk had in hand when its process ended was cut. *)
LEMMA CutPlaced ==
    ASSUME IInv, UNCHANGED <<files, carried>>,
           PlacesTyped', SupTyped', DeskFollows', desk'.hand = None,
           fate' = [r \in Requests |-> IF r = desk.hand THEN "cut" ELSE fate[r]]
    PROVE  IInv'
<1>1. OnePlace'
  <2>1. ASSUME NEW r \in Requests PROVE InPlace(r)' <=> Asked(r)'
    BY RestartAssumption DEF IInv, PlacesTyped, OnePlace, InPlace, Asked, Maybe
  <2> QED BY <2>1 DEF IInv, OnePlace
<1>2. NotYetCarried' /\ CarriedOnce'
  BY DEF IInv, PlacesTyped, NotYetCarried, CarriedOnce
<1> QED BY <1>1, <1>2 DEF IInv

LEMMA GonePlaced ==
    ASSUME IInv, StartFails \/ HostExits \/ Stopped \/ ReplaceWorker
    PROVE  IInv'
<1>1. CASE StartFails
  <2> USE <1>1 DEF StartFails, Gone, NoDesk
  <2>1. PlacesTyped'
    BY DEF IInv, PlacesTyped, Maybe
  <2>2. SupTyped'
    BY FailedTyped DEF IInv
  <2>3. DeskFollows'
    BY FailedTyped DEF IInv, PlacesTyped, DeskFollows, WorkerRuns
  <2> QED BY <2>1, <2>2, <2>3, CutPlaced DEF IInv, SupTyped, PlacesTyped, DeskFollows
<1>2. CASE HostExits
  <2> USE <1>2 DEF HostExits, Gone, NoDesk
  <2>1. PlacesTyped'
    BY DEF IInv, PlacesTyped, Maybe
  <2>2. SupTyped'
    BY DEF IInv, SupTyped
  <2>3. DeskFollows'
    BY DEF IInv, SupTyped, PlacesTyped, DeskFollows, WorkerRuns
  <2> QED BY <2>1, <2>2, <2>3, CutPlaced DEF IInv, SupTyped, PlacesTyped, DeskFollows
<1>3. CASE Stopped
  <2> USE <1>3 DEF Stopped, Gone, NoDesk
  <2>1. PlacesTyped'
    BY DEF IInv, PlacesTyped, Maybe
  <2>2. SupTyped'
    BY DEF IInv, SupTyped
  <2>3. DeskFollows'
    BY DEF IInv, SupTyped, PlacesTyped, DeskFollows, WorkerRuns
  <2> QED BY <2>1, <2>2, <2>3, CutPlaced DEF IInv, SupTyped, PlacesTyped, DeskFollows
<1>4. CASE ReplaceWorker
  <2> USE <1>4 DEF ReplaceWorker, MakeDesk, Loaded, NoDesk
  <2>1. PlacesTyped'
    BY DEF IInv, PlacesTyped, Maybe
  <2>2. SupTyped'
    BY DEF IInv, SupTyped
  <2>3. DeskFollows'
    BY DEF IInv, SupTyped, PlacesTyped, DeskFollows, WorkerRuns
  <2> QED BY <2>1, <2>2, <2>3, CutPlaced DEF IInv, SupTyped, PlacesTyped, DeskFollows
<1> QED BY <1>1, <1>2, <1>3, <1>4

(* She asks: the new request is the pending one, the one before is answered. *)
LEMMA AskPlaced == ASSUME IInv, NEW r \in Requests, Ask(r) PROVE IInv'
<1> USE DEF Ask
<1>1. desk.pending = files.pending /\ ~InPlace(r) /\ r # None
  BY RestartAssumption DEF IInv, DeskFollows, WorkerRuns, OnePlace, Asked
<1>2. PlacesTyped'
  <2>1. fate' \in [Requests -> {"none", "asked", "replaced", "cancelled", "cut", "carried"}]
    BY DEF IInv, PlacesTyped
  <2>2. r \in Maybe
    BY DEF Maybe
  <2> QED BY <2>1, <2>2 DEF IInv, PlacesTyped
<1>3. DeskFollows'
  BY DEF IInv, SupTyped, PlacesTyped, DeskFollows, WorkerRuns
<1>4. OnePlace'
  <2>1. /\ files'.pending = r /\ files'.request = files.request /\ desk'.hand = desk.hand
        /\ r # desk.hand /\ r # files.request
    BY <1>1 DEF IInv, PlacesTyped, InPlace
  <2>2. ASSUME NEW s \in Requests PROVE InPlace(s)' <=> Asked(s)'
    <3>1. Asked(s)' <=> (s = r \/ (s # files.pending /\ Asked(s)))
      BY <1>1 DEF Asked
    <3>2. InPlace(s)' <=> s \in {r, desk.hand, files.request}
      BY <2>1 DEF InPlace
    <3>3. (s # files.pending /\ Asked(s)) <=> s \in {desk.hand, files.request}
      BY RestartAssumption DEF IInv, OnePlace, InPlace
    <3> QED BY <3>1, <3>2, <3>3
  <2>3. desk.hand # None => desk.hand # files.request
    BY DEF IInv, OnePlace
  <2> QED BY <2>1, <2>2, <2>3 DEF OnePlace
<1>5. NotYetCarried' /\ CarriedOnce'
  BY DEF IInv, PlacesTyped, NotYetCarried, CarriedOnce
<1>6. SupTyped'
  BY DEF IInv, SupTyped, Record
<1> QED BY <1>6, <1>2, <1>3, <1>4, <1>5 DEF IInv

LEMMA CancelPlaced == ASSUME IInv, CancelAsk PROVE IInv'
<1> USE DEF CancelAsk
<1>1. desk.pending = files.pending /\ desk.pending \in Requests
  BY DEF IInv, DeskFollows, WorkerRuns, PlacesTyped, Maybe
<1>2. PlacesTyped'
  BY DEF IInv, PlacesTyped, Maybe
<1>3. DeskFollows'
  BY DEF IInv, SupTyped, PlacesTyped, DeskFollows, WorkerRuns
<1>4. OnePlace'
  BY <1>1, RestartAssumption DEF IInv, PlacesTyped, OnePlace, InPlace, Asked, Maybe
<1>5. NotYetCarried' /\ CarriedOnce'
  BY DEF IInv, PlacesTyped, NotYetCarried, CarriedOnce
<1>6. SupTyped'
  BY DEF IInv, SupTyped, Record
<1> QED BY <1>6, <1>2, <1>3, <1>4, <1>5 DEF IInv

(* go() takes the pending request out of its file into its hands. It had     *)
(* none there: what it took before it has written down.                      *)
LEMMA TakePlaced == ASSUME IInv, Take PROVE IInv'
<1> USE DEF Take, Emptied
<1>1. desk.pending = files.pending /\ desk.hand = None
  BY DEF IInv, DeskFollows, WorkerRuns
<1>2. PlacesTyped'
  BY DEF IInv, PlacesTyped, Maybe
<1>3. DeskFollows'
  BY DEF IInv, SupTyped, PlacesTyped, DeskFollows, WorkerRuns
<1>4. OnePlace'
  BY <1>1, RestartAssumption DEF IInv, PlacesTyped, OnePlace, InPlace, Asked, Maybe
<1>5. NotYetCarried' /\ CarriedOnce'
  BY DEF IInv, NotYetCarried, CarriedOnce
<1>6. SupTyped'
  BY DEF IInv, SupTyped, Record
<1> QED BY <1>6, <1>2, <1>3, <1>4, <1>5 DEF IInv

(* It writes it down; one written before that nobody took is replaced.       *)
LEMMA WritePlaced == ASSUME IInv, Write PROVE IInv'
<1> USE DEF Write
<1>1. desk.hand \in Requests /\ desk.hand # files.request
  BY DEF IInv, SupTyped, PlacesTyped, DeskFollows, OnePlace, Maybe
<1>2. PlacesTyped'
  BY DEF IInv, PlacesTyped, Maybe
<1>3. DeskFollows'
  BY DEF IInv, SupTyped, PlacesTyped, DeskFollows, WorkerRuns
<1>4. OnePlace'
  BY <1>1, RestartAssumption DEF IInv, PlacesTyped, OnePlace, InPlace, Asked, Maybe
<1>5. NotYetCarried' /\ CarriedOnce'
  BY DEF IInv, PlacesTyped, NotYetCarried, CarriedOnce
<1>6. SupTyped'
  BY DEF IInv, SupTyped, Record
<1> QED BY <1>6, <1>2, <1>3, <1>4, <1>5 DEF IInv

LEMMA DeskPlaced == ASSUME IInv, DeskStep PROVE IInv'
<1>1. CASE Due
  <2> USE <1>1 DEF Due
  <2>1. PlacesTyped'
    BY DEF IInv, PlacesTyped, Maybe
  <2>2. SupTyped'
    BY DEF IInv, SupTyped
  <2>3. DeskFollows'
    BY DEF IInv, SupTyped, PlacesTyped, DeskFollows, WorkerRuns
  <2> QED BY <2>1, <2>2, <2>3, StillPlaced DEF IInv, SupTyped, PlacesTyped, DeskFollows
<1>2. CASE Mark
  <2> USE <1>2 DEF Mark
  <2>1. PlacesTyped'
    BY DEF IInv, PlacesTyped, Maybe
  <2>2. SupTyped'
    BY DEF IInv, SupTyped
  <2>3. DeskFollows'
    BY DEF IInv, SupTyped, PlacesTyped, DeskFollows, WorkerRuns
  <2> QED BY <2>1, <2>2, <2>3, StillPlaced DEF IInv, SupTyped, PlacesTyped, DeskFollows
<1> QED BY <1>1, <1>2, TakePlaced, WritePlaced DEF DeskStep

(* The supervisor takes the written request, and with it the Host: the one   *)
(* in the desk's hands is cut, the pending one waits in its file.            *)
LEMMA TakenPlaced == ASSUME IInv, NEW drill, TakeRequest(drill) PROVE IInv'
<1> USE DEF TakeRequest
<1>1. files.request \in Requests /\ Asked(files.request) /\ carried[files.request] = 0
  BY DEF IInv, PlacesTyped, OnePlace, InPlace, Asked, NotYetCarried, Maybe
<1>2. PlacesTyped'
  BY <1>1 DEF IInv, PlacesTyped, NoDesk, Maybe, Record
<1>3. DeskFollows'
  BY DEF IInv, SupTyped, PlacesTyped, DeskFollows, WorkerRuns, NoDesk
<1>4. OnePlace'
  BY <1>1, RestartAssumption DEF IInv, PlacesTyped, OnePlace, InPlace, Asked, NoDesk, Maybe
<1>5. NotYetCarried' /\ CarriedOnce'
  BY <1>1 DEF IInv, PlacesTyped, NotYetCarried, CarriedOnce
<1>6. SupTyped'
  BY DEF IInv, SupTyped, Record
<1> QED BY <1>6, <1>2, <1>3, <1>4, <1>5 DEF IInv

(* The supervisor's other steps, and what happens around the Host.           *)
LEMMA SupervisorPlaced ==
    ASSUME IInv, Prepare \/ SeesReady \/ RecordExit \/ PrepareFails \/ LauncherStarts
    PROVE  IInv'
<1>1. CASE Prepare
  <2> USE <1>1 DEF Prepare, asking
  <2>1. PlacesTyped'
    BY DEF IInv, PlacesTyped, Maybe
  <2>2. SupTyped'
    BY DEF IInv, SupTyped
  <2>3. DeskFollows'
    BY DEF IInv, SupTyped, PlacesTyped, DeskFollows, WorkerRuns
  <2> QED BY <2>1, <2>2, <2>3, StillPlaced DEF IInv, SupTyped, PlacesTyped, DeskFollows
<1>2. CASE SeesReady
  <2> USE <1>2 DEF SeesReady, asking
  <2>1. PlacesTyped'
    BY DEF IInv, PlacesTyped, Maybe
  <2>2. SupTyped'
    BY DEF IInv, SupTyped
  <2>3. DeskFollows'
    BY DEF IInv, SupTyped, PlacesTyped, DeskFollows, WorkerRuns
  <2> QED BY <2>1, <2>2, <2>3, StillPlaced DEF IInv, SupTyped, PlacesTyped, DeskFollows
<1>3. CASE RecordExit
  <2> USE <1>3 DEF RecordExit, Record, asking
  <2>1. PlacesTyped'
    BY DEF IInv, PlacesTyped, Maybe
  <2>2. SupTyped'
    BY DEF IInv, SupTyped
  <2>3. DeskFollows'
    BY DEF IInv, SupTyped, PlacesTyped, DeskFollows, WorkerRuns
  <2> QED BY <2>1, <2>2, <2>3, StillPlaced DEF IInv, SupTyped, PlacesTyped, DeskFollows
<1>4. CASE PrepareFails
  <2> USE <1>4 DEF PrepareFails, asking
  <2>1. PlacesTyped'
    BY DEF IInv, PlacesTyped, Maybe
  <2>2. SupTyped'
    BY FailedTyped DEF IInv
  <2>3. DeskFollows'
    BY FailedTyped DEF IInv, PlacesTyped, DeskFollows, WorkerRuns
  <2> QED BY <2>1, <2>2, <2>3, StillPlaced DEF IInv, SupTyped, PlacesTyped, DeskFollows
<1>5. CASE LauncherStarts
  <2> USE <1>5 DEF LauncherStarts, Record, asking
  <2>1. PlacesTyped'
    BY DEF IInv, PlacesTyped, Maybe
  <2>2. SupTyped'
    BY DEF IInv, SupTyped
  <2>3. DeskFollows'
    BY DEF IInv, SupTyped, PlacesTyped, DeskFollows, WorkerRuns
  <2> QED BY <2>1, <2>2, <2>3, StillPlaced DEF IInv, SupTyped, PlacesTyped, DeskFollows
<1> QED BY <1>1, <1>2, <1>3, <1>4, <1>5

LEMMA AroundPlaced ==
    ASSUME IInv,
           \/ \E v \in Versions : FastForward(v) \/ \E state \in {"APPLIED", "HOST_RESTART_REQUIRED"} : Publish(v, state)
           \/ \E r \in Requests : Ripen(r)
    PROVE  IInv'
<1>1. ASSUME NEW v \in Versions, FastForward(v) PROVE IInv'
  <2> USE <1>1 DEF FastForward, asking
  <2>1. PlacesTyped'
    BY DEF IInv, PlacesTyped, Maybe
  <2>2. SupTyped'
    BY DEF IInv, SupTyped
  <2>3. DeskFollows'
    BY DEF IInv, SupTyped, PlacesTyped, DeskFollows, WorkerRuns
  <2> QED BY <2>1, <2>2, <2>3, StillPlaced DEF IInv, SupTyped, PlacesTyped, DeskFollows
<1>2. ASSUME NEW v \in Versions, NEW state, Publish(v, state) PROVE IInv'
  <2> USE <1>2 DEF Publish, asking
  <2>1. PlacesTyped'
    BY DEF IInv, PlacesTyped, Maybe
  <2>2. SupTyped'
    BY DEF IInv, SupTyped
  <2>3. DeskFollows'
    BY DEF IInv, SupTyped, PlacesTyped, DeskFollows, WorkerRuns
  <2> QED BY <2>1, <2>2, <2>3, StillPlaced DEF IInv, SupTyped, PlacesTyped, DeskFollows
<1>3. ASSUME NEW r \in Requests, Ripen(r) PROVE IInv'
  <2> USE <1>3 DEF Ripen
  <2>1. PlacesTyped'
    BY DEF IInv, PlacesTyped, Maybe
  <2>2. SupTyped'
    BY DEF IInv, SupTyped
  <2>3. DeskFollows'
    BY DEF IInv, SupTyped, PlacesTyped, DeskFollows, WorkerRuns
  <2> QED BY <2>1, <2>2, <2>3, StillPlaced DEF IInv, SupTyped, PlacesTyped, DeskFollows
<1> QED BY <1>1, <1>2, <1>3

(* Every step keeps the invariant. *)
LEMMA StepPlaced == IInv /\ [Next]_vars => IInv'
<1> SUFFICES ASSUME IInv, [Next]_vars PROVE IInv'
  OBVIOUS
<1>1. CASE Next
  BY <1>1, HostPlaced, GonePlaced, AskPlaced, CancelPlaced, DeskPlaced, TakenPlaced,
     SupervisorPlaced, AroundPlaced DEF Next, SupervisorStep
<1>2. CASE UNCHANGED vars
  <2> USE <1>2 DEF vars
  <2>1. PlacesTyped'
    BY DEF IInv, PlacesTyped, Maybe
  <2>2. SupTyped'
    BY DEF IInv, SupTyped
  <2>3. DeskFollows'
    BY DEF IInv, SupTyped, PlacesTyped, DeskFollows, WorkerRuns
  <2> QED BY <2>1, <2>2, <2>3, StillPlaced DEF IInv, SupTyped, PlacesTyped, DeskFollows
<1> QED BY <1>1, <1>2

(* restarts.py go, asuna-supervisor.mjs takeRequest: a request restarts the  *)
(* Host at most once, whichever process dies between the steps.              *)
THEOREM RequestCarriedOnce == Spec => []CarriedOnce
<1>1. IInv => CarriedOnce
  BY DEF IInv
<1> QED BY InitPlaced, StepPlaced, <1>1, PTL DEF Spec

(* restarts.py Desk: one that was neither carried out, cancelled, replaced   *)
(* nor cut while it was handed over is kept over any other restart.          *)
THEOREM RequestIsKept == Spec => []RequestStands
BY InitPlaced, StepPlaced, StandsThere, PTL DEF Spec

-----------------------------------------------------------------------------
(* What the next start says of the stop. A request that was written down     *)
(* found the lease marked, or cannot be told; so the lease a Host leaves that *)
(* was restarted at her request is marked, until the next Host takes it.     *)
MarkedInHand == desk.pc = "marked" /\ desk.hand \notin blind => lease = "planned"
MarkedInFile ==
    files.request # None /\ files.request \notin blind => lease = "planned" /\ WorkerRuns
LeftMarked == cause = "asked" /\ host \in {"none", "spawned"} => lease \in {"none", "planned"}

StopInv == MarkedInHand /\ MarkedInFile /\ LeftMarked /\ OwnRestartIsPlanned

LEMMA InitStops == Init => StopInv
BY DEF Init, StopInv, MarkedInHand, MarkedInFile, LeftMarked, OwnRestartIsPlanned, NoDesk

(* The Host's processes are gone, and with them the mark of a request that   *)
(* nobody took.                                                              *)
LEMMA GoneStops ==
    ASSUME IInv, StopInv, NEW why, why # "asked", Gone(why), lease' \in {lease, "none"},
           UNCHANGED <<files, rows>>
    PROVE  StopInv'
<1>1. MarkedInHand' BY DEF Gone, NoDesk, MarkedInHand
<1>2. MarkedInFile'
  BY DEF Gone, StopInv, MarkedInFile, IInv, PlacesTyped, Maybe
<1>3. LeftMarked' BY DEF Gone, StopInv, LeftMarked
<1>4. OwnRestartIsPlanned' BY DEF StopInv, OwnRestartIsPlanned
<1> QED BY <1>1, <1>2, <1>3, <1>4 DEF StopInv

(* A step of the packages, the launcher or her asking, or of the Host once   *)
(* it has the lease.                                                         *)
LEMMA StopsKept ==
    ASSUME StopInv, UNCHANGED <<files.request, blind, stops>>,
           desk'.pc = "marked" => desk.pc = "marked" /\ desk'.hand = desk.hand,
           WorkerRuns => WorkerRuns', host' \in {"none", "spawned"} => host \in {"none", "spawned"}
    PROVE  StopInv'
BY DEF StopInv, MarkedInHand, MarkedInFile, LeftMarked, OwnRestartIsPlanned, stops

LEMMA AcquireStops == ASSUME IInv, StopInv, Acquire PROVE StopInv'
<1>1. host = "spawned" /\ host' = "leased" /\ lease' = "held" /\ UNCHANGED <<files, desk, blind, cause>>
  BY DEF Acquire, asking
<1>2. desk.pc = "none" BY <1>1 DEF IInv, DeskFollows, WorkerRuns, NoDesk
<1>3. MarkedInHand' BY <1>1, <1>2 DEF MarkedInHand
<1>4. MarkedInFile' BY <1>1 DEF StopInv, MarkedInFile, WorkerRuns
<1>5. LeftMarked' BY <1>1 DEF LeftMarked
<1>6. OwnRestartIsPlanned'
  <2>1. rows' \subseteq rows \cup {[how |-> How, cause |-> cause]} /\ (lease = "none" => rows' = rows)
    BY DEF Acquire
  <2>2. lease # "none" /\ cause = "asked" => How = "planned"
    BY <1>1 DEF StopInv, LeftMarked, How
  <2> QED BY <2>1, <2>2 DEF StopInv, OwnRestartIsPlanned
<1> QED BY <1>3, <1>4, <1>5, <1>6 DEF StopInv

LEMMA StepStops == IInv /\ StopInv /\ [Next]_vars => StopInv'
<1> SUFFICES ASSUME IInv, StopInv, [Next]_vars PROVE StopInv'
  OBVIOUS
<1>1. CASE HostStep
  <2>1. CASE Acquire BY <2>1, AcquireStops
  <2>2. CASE OpenDesk
    BY <2>2, StopsKept DEF OpenDesk, MakeDesk, WorkerRuns
  <2>3. CASE RuntimeReady \/ WorkerReady
    BY <2>3, StopsKept DEF RuntimeReady, WorkerReady, WorkerRuns, asking, stops
  <2> QED BY <1>1, <2>1, <2>2, <2>3 DEF HostStep
<1>2. CASE StartFails \/ HostExits \/ Stopped
  BY <1>2, GoneStops DEF StartFails, HostExits, Stopped
<1>3. CASE ReplaceWorker
  BY <1>3 DEF ReplaceWorker, MakeDesk, StopInv, MarkedInHand, MarkedInFile, LeftMarked,
     OwnRestartIsPlanned, WorkerRuns
<1>4. ASSUME NEW r \in Requests, Ask(r) \/ Ripen(r) PROVE StopInv'
  BY <1>4, StopsKept DEF Ask, Ripen, IInv, PlacesTyped, WorkerRuns
<1>5. CASE CancelAsk
  BY <1>5, StopsKept DEF CancelAsk, IInv, PlacesTyped, WorkerRuns
<1>6. CASE DeskStep
  <2>1. CASE Due BY <2>1, StopsKept DEF Due, IInv, PlacesTyped, WorkerRuns
  <2>2. CASE Take BY <2>2, StopsKept DEF Take, Emptied, IInv, PlacesTyped, WorkerRuns
  <2>3. CASE Mark
    <3>1. /\ desk'.hand = desk.hand /\ UNCHANGED <<host, files, cause, rows>>
          /\ \/ lease' = "planned" /\ blind' = blind
             \/ lease' = lease /\ blind' = blind \cup {desk.hand}
      BY <2>3 DEF Mark, Marked, IInv, PlacesTyped
    <3> QED BY <2>3, <3>1 DEF Mark, WorkerRuns, StopInv, MarkedInHand, MarkedInFile, LeftMarked, OwnRestartIsPlanned
  <2>4. CASE Write
    <3>1. /\ desk'.pc = "idle" /\ files'.request = desk.hand /\ WorkerRuns /\ desk.pc = "marked"
          /\ UNCHANGED <<host, blind, lease, cause, rows>>
      BY <2>4 DEF Write, IInv, PlacesTyped, stops
    <3> QED BY <3>1 DEF WorkerRuns, StopInv, MarkedInHand, MarkedInFile, LeftMarked, OwnRestartIsPlanned
  <2> QED BY <1>6, <2>1, <2>2, <2>3, <2>4 DEF DeskStep
<1>7. ASSUME NEW drill \in BOOLEAN, TakeRequest(drill) PROVE StopInv'
  <2>1. /\ files.request # None /\ files'.request = None /\ desk'.pc = "none" /\ host' = "none"
        /\ cause' = IF host = "none" THEN cause ELSE IF files.request \in blind THEN "blind" ELSE "asked"
        /\ UNCHANGED <<blind, lease, rows>>
    BY <1>7 DEF TakeRequest, NoDesk, IInv, PlacesTyped
  <2>2. MarkedInHand' /\ MarkedInFile' BY <2>1 DEF MarkedInHand, MarkedInFile
  <2>3. LeftMarked' BY <2>1 DEF StopInv, LeftMarked, MarkedInFile
  <2>4. OwnRestartIsPlanned' BY <2>1 DEF StopInv, OwnRestartIsPlanned
  <2> QED BY <2>2, <2>3, <2>4 DEF StopInv
<1>8. CASE Prepare \/ SeesReady \/ RecordExit \/ PrepareFails \/ LauncherStarts
  <2>1. CASE Prepare
    <3>1. host = "none" BY <2>1 DEF Prepare, IInv, DeskFollows
    <3> QED BY <2>1, <3>1, StopsKept DEF Prepare, WorkerRuns, asking
  <2>2. CASE SeesReady \/ RecordExit \/ PrepareFails \/ LauncherStarts
    BY <2>2, StopsKept DEF SeesReady, RecordExit, PrepareFails, LauncherStarts, WorkerRuns, asking
  <2> QED BY <1>8, <2>1, <2>2
<1>9. ASSUME NEW v \in Versions, FastForward(v) \/ \E state \in {"APPLIED", "HOST_RESTART_REQUIRED"} : Publish(v, state)
      PROVE StopInv'
  BY <1>9, StopsKept DEF FastForward, Publish, WorkerRuns, asking
<1>10. CASE UNCHANGED vars
  BY <1>10, StopsKept DEF vars, stops, WorkerRuns
<1> QED BY <1>1, <1>2, <1>3, <1>4, <1>5, <1>6, <1>7, <1>8, <1>9, <1>10 DEF Next, SupervisorStep

-----------------------------------------------------------------------------
(* Which version a fallback chooses: the one a selection remembers was the   *)
(* active one, and a version becomes active by coming up.                    *)
Sels == [v : Versions, state : {"APPLIED", "ACTIVE", "HOST_RESTART_REQUIRED"},
         prev : Versions \cup {None}, boots : Nat, from : Versions \cup {None}]
Pkg  == [tree : Versions, inst : Versions, disk : Versions, active : Versions, sel : Sels]

RanBefore(p) ==
    /\ p.active \in ran /\ (p.sel.prev # None => p.sel.prev \in ran)
    /\ p.sel.from # None => p.sel.v \in ran

PkgInv == pkg \in Pkg /\ RanBefore(pkg)

(* A selection falls back to the active version, unless it is that one.      *)
LEMMA SelectionRan ==
    ASSUME NEW p \in Pkg, RanBefore(p), NEW v \in Versions,
           NEW state \in {"APPLIED", "HOST_RESTART_REQUIRED"},
           NEW q \in Pkg, q.active = p.active, q.sel = Selection(p, v, state)
    PROVE  RanBefore(q)
BY DEF RanBefore, Selection, LastRan

LEMMA SelectionTyped ==
    ASSUME NEW p \in Pkg, NEW v \in Versions, NEW state \in {"APPLIED", "HOST_RESTART_REQUIRED"}
    PROVE  Selection(p, v, state) \in Sels
BY DEF Pkg, Sels, Selection, LastRan

LEMMA BackRan ==
    ASSUME NEW p \in Pkg, RanBefore(p), p.sel.prev # None
    PROVE  Back(p) \in Pkg /\ RanBefore(Back(p))
<1> DEFINE s == [v |-> p.sel.prev, state |-> "HOST_RESTART_REQUIRED", prev |-> None,
                 boots |-> 0, from |-> p.sel.v]
<1>1. Back(p) = [p EXCEPT !.sel = s] BY DEF Back
<1>2. s \in Sels
  BY DEF Pkg, Sels
<1>3. Back(p) \in Pkg /\ Back(p).active = p.active /\ Back(p).sel = s BY <1>1, <1>2 DEF Pkg, Sels
<1> QED BY <1>3 DEF RanBefore

LEMMA SyncedRan ==
    ASSUME NEW p \in Pkg, RanBefore(p)
    PROVE  Synced(p) \in Pkg /\ RanBefore(Synced(p))
<1>1. CASE p.inst = p.tree /\ p.sel.from # p.tree BY <1>1 DEF Synced
<1>2. CASE ~(p.inst = p.tree /\ p.sel.from # p.tree)
  <2> DEFINE s == IF p.sel.v = p.tree /\ p.sel.state \in {"APPLIED", "ACTIVE"}
                  THEN p.sel ELSE Selection(p, p.tree, "APPLIED")
  <2>1. Synced(p) = [p EXCEPT !.inst = p.tree, !.disk = p.tree, !.sel = s] BY <1>2 DEF Synced, Pkg, Sels
  <2>2. p.tree \in Versions BY DEF Pkg, Sels
  <2>3. s \in Sels
    BY <2>2, SelectionTyped DEF Pkg, Sels
  <2>4. Synced(p) \in Pkg /\ Synced(p).active = p.active /\ Synced(p).sel = s
    <3> HIDE DEF s
    <3> QED BY <2>1, <2>2, <2>3 DEF Pkg, Sels
  <2>5. CASE s = p.sel BY <2>4, <2>5 DEF RanBefore
  <2>6. CASE s = Selection(p, p.tree, "APPLIED") BY <2>2, <2>4, <2>6, SelectionRan
  <2> QED BY <2>4, <2>5, <2>6
<1> QED BY <1>1, <1>2

LEMMA AdvancedRan ==
    ASSUME NEW p \in Pkg, RanBefore(p)
    PROVE  Advanced(p) \in Pkg /\ RanBefore(Advanced(p))
<1>1. CASE p.sel.state # "APPLIED" BY <1>1 DEF Advanced
<1>2. CASE p.sel.state = "APPLIED" /\ (p.sel.boots < MaxUnconfirmedStarts \/ p.sel.prev = None)
  <2> DEFINE n == IF p.sel.boots > MaxUnconfirmedStarts THEN p.sel.boots ELSE p.sel.boots + 1
             s == [p.sel EXCEPT !.boots = n]
  <2>1. Advanced(p) = [p EXCEPT !.sel = s] BY <1>2 DEF Advanced, Pkg, Sels
  <2>2. n \in Nat BY DEF Pkg, Sels, MaxUnconfirmedStarts
  <2>3. s \in Sels /\ s.v = p.sel.v /\ s.prev = p.sel.prev /\ s.from = p.sel.from
    <3> HIDE DEF n
    <3> QED BY <2>2 DEF Pkg, Sels
  <2> HIDE DEF s
  <2> QED BY <2>1, <2>3 DEF Pkg, Sels, RanBefore
<1>3. CASE p.sel.state = "APPLIED" /\ ~(p.sel.boots < MaxUnconfirmedStarts \/ p.sel.prev = None)
  BY <1>3, BackRan DEF Advanced
<1> QED BY <1>1, <1>2, <1>3

LEMMA RevertedRan ==
    ASSUME NEW p \in Pkg, RanBefore(p)
    PROVE  Reverted(p) \in Pkg /\ RanBefore(Reverted(p))
BY BackRan DEF Reverted

LEMMA InstalledRan ==
    ASSUME NEW p \in Pkg, RanBefore(p)
    PROVE  Installed(p) \in Pkg /\ RanBefore(Installed(p))
<1>1. CASE p.sel.state = "HOST_RESTART_REQUIRED"
  <2> DEFINE s == [p.sel EXCEPT !.state = "APPLIED"]
  <2>1. Installed(p) = [p EXCEPT !.disk = p.sel.v, !.sel = s] BY <1>1 DEF Installed, Pkg, Sels
  <2>2. s \in Sels /\ s.v = p.sel.v /\ s.prev = p.sel.prev /\ s.from = p.sel.from
    BY DEF Pkg, Sels
  <2> HIDE DEF s
  <2> QED BY <2>1, <2>2 DEF Pkg, Sels, RanBefore
<1> QED BY <1>1 DEF Installed

(* A worker that comes up on a selection makes it the active version.        *)
LEMMA ConfirmRan ==
    ASSUME PkgInv, Confirm
    PROVE  PkgInv'
<1>1. pkg \in Pkg BY DEF PkgInv
<1>2. CASE pkg.sel.state = "HOST_RESTART_REQUIRED"
  <2>1. pkg' = pkg /\ ran \subseteq ran' BY <1>2 DEF Confirm, Confirmed
  <2> QED BY <2>1 DEF PkgInv, Pkg, Sels, RanBefore
<1>3. CASE pkg.sel.state \in {"APPLIED", "ACTIVE"}
  <2> DEFINE s == [pkg.sel EXCEPT !.state = "ACTIVE", !.boots = 0]
  <2>1. pkg' = [pkg EXCEPT !.sel = s, !.active = pkg.sel.v]
    BY <1>1, <1>3 DEF Confirm, Confirmed, Pkg, Sels
  <2>2. ran' = ran \cup {pkg.sel.v} BY <1>3 DEF Confirm, Effective
  <2>3. s \in Sels /\ s.v = pkg.sel.v /\ s.prev = pkg.sel.prev /\ s.from = pkg.sel.from
    BY <1>1 DEF Pkg, Sels
  <2> HIDE DEF s
  <2>4. pkg' \in Pkg /\ pkg'.active = pkg.sel.v /\ pkg'.sel = s BY <1>1, <2>1, <2>3 DEF Pkg, Sels
  <2>6. RanBefore(pkg)' BY <2>2, <2>3, <2>4 DEF PkgInv, RanBefore
  <2> QED BY <2>4, <2>6 DEF PkgInv
<1> QED BY <1>1, <1>2, <1>3 DEF Pkg, Sels

LEMMA PkgKept == ASSUME PkgInv, UNCHANGED things PROVE PkgInv'
BY DEF PkgInv, Pkg, Sels, RanBefore, things

LEMMA PkgReplaced == ASSUME PkgInv, UNCHANGED ran, pkg' \in Pkg, RanBefore(pkg') PROVE PkgInv'
BY DEF PkgInv, RanBefore

LEMMA StepPkg == PkgInv /\ [Next]_vars => PkgInv'
<1> SUFFICES ASSUME PkgInv, [Next]_vars PROVE PkgInv'
  OBVIOUS
<1>0. pkg \in Pkg /\ RanBefore(pkg) BY DEF PkgInv
<1>1. CASE HostStep
  BY <1>1, PkgKept, ConfirmRan DEF HostStep, Acquire, OpenDesk, RuntimeReady, WorkerReady, things
<1>2. CASE ReplaceWorker BY <1>2, ConfirmRan DEF ReplaceWorker
<1>3. CASE Prepare
  <2>1. Prepared \in Pkg /\ RanBefore(Prepared)
    BY <1>0, SyncedRan, AdvancedRan, RevertedRan DEF Prepared
  <2>2. pkg' \in {pkg, Prepared, Installed(Prepared)} /\ ran' = ran BY <1>3 DEF Prepare
  <2> QED BY <1>0, <2>1, <2>2, InstalledRan, PkgReplaced
<1>4. ASSUME NEW v \in Versions, FastForward(v) PROVE PkgInv'
  <2>1. pkg' = [pkg EXCEPT !.tree = v] /\ ran' = ran BY <1>4 DEF FastForward
  <2>2. pkg' \in Pkg /\ pkg'.active = pkg.active /\ pkg'.sel = pkg.sel BY <1>0, <2>1 DEF Pkg, Sels
  <2>3. RanBefore(pkg') BY <1>0, <2>2 DEF RanBefore
  <2> QED BY <2>1, <2>2, <2>3, PkgReplaced
<1>5. ASSUME NEW v \in Versions, NEW state \in {"APPLIED", "HOST_RESTART_REQUIRED"}, Publish(v, state)
      PROVE PkgInv'
  <2>1. pkg' = [pkg EXCEPT !.tree = v, !.sel = Selection(pkg, v, state)] /\ ran' = ran
    BY <1>5 DEF Publish
  <2>2. pkg' \in Pkg /\ pkg'.active = pkg.active /\ pkg'.sel = Selection(pkg, v, state)
    BY <1>0, <2>1, SelectionTyped DEF Pkg, Sels
  <2>3. RanBefore(pkg') BY <1>0, <2>2, SelectionRan
  <2> QED BY <2>1, <2>2, <2>3, PkgReplaced
<1>6. CASE SeesReady \/ RecordExit \/ PrepareFails \/ StartFails \/ HostExits \/ Stopped \/ LauncherStarts
  BY <1>6, PkgKept DEF SeesReady, RecordExit, PrepareFails, StartFails, HostExits, Stopped, LauncherStarts
<1>7. ASSUME NEW drill \in BOOLEAN, TakeRequest(drill) PROVE PkgInv'
  BY <1>7, PkgKept DEF TakeRequest
<1>8. ASSUME NEW r \in Requests, Ask(r) \/ Ripen(r) PROVE PkgInv'
  BY <1>8, PkgKept DEF Ask, Ripen
<1>9. CASE CancelAsk \/ DeskStep
  BY <1>9, PkgKept DEF CancelAsk, DeskStep, Due, Take, Mark, Write
<1>10. CASE UNCHANGED vars BY <1>10, PkgKept DEF vars, things
<1> QED BY <1>1, <1>2, <1>3, <1>4, <1>5, <1>6, <1>7, <1>8, <1>9, <1>10 DEF Next, SupervisorStep

LEMMA InitPkg == Init => PkgInv
<1> SUFFICES ASSUME Init PROVE PkgInv
  OBVIOUS
<1>1. First \in Versions BY RestartAssumption
<1>2. [v |-> First, state |-> "ACTIVE", prev |-> None, boots |-> 0, from |-> None]
        \in Sels
  BY <1>1 DEF Sels
<1>3. pkg \in Pkg BY <1>1, <1>2 DEF Init, Pkg, Sels
<1>4. RanBefore(pkg) BY DEF Init, RanBefore
<1> QED BY <1>3, <1>4 DEF PkgInv

(* host_stops.record, restarts.py mark: whenever the supervisor restarts the *)
(* Host at her request, the row the next start writes of that stop says      *)
(* planned, unless the mark itself failed or the process that wrote it died. *)
THEOREM OwnStopToldPlanned == Spec => []OwnRestartIsPlanned
<1>1. IInv /\ StopInv => OwnRestartIsPlanned BY DEF StopInv
<1> QED BY InitPlaced, StepPlaced, InitStops, StepStops, <1>1, PTL DEF Spec

(* activation.json: however publications, pushes, failing starts and failing *)
(* installs alternate, a fallback selects a version that came up before.     *)
THEOREM FallbackRanBefore == Spec => []FallsBackToWhatRan
<1>1. PkgInv => FallsBackToWhatRan BY DEF PkgInv, RanBefore, FallsBackToWhatRan
<1> QED BY InitPkg, StepPkg, <1>1, PTL DEF Spec
=============================================================================

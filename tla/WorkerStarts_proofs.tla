------------------------ MODULE WorkerStarts_proofs -------------------------
(***************************************************************************)
(* For any number of workers and of starts at once, and any bounds: each    *)
(* restart she is told of is one whose own start completed; no worker keeps *)
(* the database behind the plugin's back unless two starts overlapped; and  *)
(* no worker's own exit is told or counted as a stop of the Host.           *)
(*                                                                         *)
(* The first argument follows the stamp `back`. Only the completion of a    *)
(* start sets it, on the entry of the restart that ran it; what is handed   *)
(* over are stamped entries, and a hand-over in flight keeps those it took  *)
(* however the file changes meanwhile. The second follows the one start     *)
(* that calls a worker, from the end of the worker before to its own; the   *)
(* third the lease a worker leaves, from its end to the row or the span     *)
(* that counts it.                                                          *)
(***************************************************************************)
EXTENDS WorkerStarts, TLAPS

(* The file holds restarts, never the start no restart ran. *)
EntriesTyped == /\ asks \in Nat
                /\ entries \subseteq [at : Nat \ {0}, back : BOOLEAN]

(* A hand-over is a record; those it hands came back. *)
HandsOnly(h, known) ==
    /\ h = [pc |-> h.pc, w |-> h.w, kept |-> h.kept, written |-> h.written, batch |-> h.batch]
    /\ h.batch \subseteq known
HandTrue == HandsOnly(hand, came)

(* What is stamped came back. *)
StampsTrue == \A e \in entries : e.back => e.at \in came

(* The inductive invariant. *)
IInv == EntriesTyped /\ HandTrue /\ StampsTrue /\ ToldCameBack

(* What an action changes of this. *)
untold == <<asks, entries, hand, told, came>>

(* Nothing is handed over in the initial states, and the file is empty. *)
LEMMA InitTrue == Init => IInv
BY DEF Init, IInv, EntriesTyped, HandTrue, HandsOnly, StampsTrue, ToldCameBack, NoHand

(* A step that leaves the file and the hand-over alone. *)
LEMMA UntoldTrue == IInv /\ UNCHANGED untold => IInv'
BY DEF IInv, EntriesTyped, HandTrue, HandsOnly, StampsTrue, ToldCameBack, untold

(* A step that ends the hand-over. *)
LEMMA DroppedTrue ==
    ASSUME IInv, UNCHANGED <<asks, entries, told, came>>, hand' = NoHand
    PROVE  IInv'
BY DEF IInv, EntriesTyped, HandTrue, HandsOnly, StampsTrue, ToldCameBack, NoHand

(* What is handed over of a file whose stamps are true. *)
LEMMA HandsTrue ==
    ASSUME NEW files_, NEW known,
           \A e \in files_ : e.back => e.at \in known,
           NEW w, NEW kept
    PROVE  HandsOnly(HandRestarts(w, kept, files_), known) /\ HandsOnly(HandSpan(w, files_), known)
<1>1. ASSUME NEW k PROVE HandsOnly(HandRestarts(w, k, files_), known)
  <2> DEFINE batch == {e.at : e \in {f \in files_ : f.back}}
  <2>1. HandRestarts(w, k, files_) = NoHand \/
        HandRestarts(w, k, files_) = [pc |-> "restarts", w |-> w, kept |-> k, written |-> FALSE, batch |-> batch]
    BY DEF HandRestarts, NoHand
  <2>2. batch \subseteq known
    OBVIOUS
  <2> HIDE DEF batch
  <2> QED BY <2>1, <2>2 DEF HandsOnly, NoHand
<1>2. HandSpan(w, files_) = [pc |-> "span", w |-> w, kept |-> FALSE, written |-> FALSE, batch |-> {}]
      \/ HandSpan(w, files_) = HandRestarts(w, FALSE, files_)
  BY DEF HandSpan, NoHand
<1>3. HandsOnly([pc |-> "span", w |-> w, kept |-> FALSE, written |-> FALSE, batch |-> {}], known)
  BY DEF HandsOnly
<1> QED BY <1>1, <1>2, <1>3

(* A restart asked for adds an entry without a stamp. *)
LEMMA AskTrue ==
    ASSUME EntriesTyped, asks' = asks + 1,
           NEW file \in SUBSET [at : Nat \ {0}, back : BOOLEAN],
           entries' = file \cup {[at |-> asks + 1, back |-> FALSE]},
           \A e \in file : e.back => e.at \in came'
    PROVE  EntriesTyped' /\ StampsTrue'
<1>1. asks + 1 \in Nat \ {0}
  BY DEF EntriesTyped
<1>2. [at |-> asks + 1, back |-> FALSE] \in [at : Nat \ {0}, back : BOOLEAN]
  BY <1>1
<1>3. EntriesTyped'
  BY <1>1, <1>2 DEF EntriesTyped
<1>4. ASSUME NEW e \in entries', e.back PROVE e.at \in came'
  <2>1. e \in file
    BY <1>4
  <2> QED BY <2>1, <1>4
<1> QED BY <1>3, <1>4 DEF StampsTrue

(* The steps of a worker. *)
LEMMA WorkerTrue ==
    ASSUME IInv, NEW w \in Workers,
           WorkerStep(w) \/ WorkerExits(w) \/ InitializeFails(w) \/ AskRestart(w)
    PROVE  IInv'
<1>1. CASE Close(w) \/ WorkerExits(w)
  <2>1. UNCHANGED <<asks, entries, told, came>> /\ (hand' = NoHand \/ hand' = hand)
    BY <1>1 DEF Close, WorkerExits, Vanish, WentDown, files, told_, asking
  <2> QED BY <2>1, UntoldTrue, DroppedTrue DEF untold
<1>2. CASE Acquire(w) \/ Configure(w) \/ InitializeFails(w)
  <2>1. UNCHANGED untold
    BY <1>2 DEF Acquire, Configure, InitializeFails, handing, files, told_, observed, asking, untold
  <2> QED BY <2>1, UntoldTrue
<1>3. CASE AskRestart(w)
  <2>1. hand' = hand /\ told' = told /\ came' = came
    BY <1>3 DEF AskRestart, handing, told_
  <2>2. \/ UNCHANGED <<asks, entries>>
        \/ asks' = asks + 1 /\ entries' = entries \cup {[at |-> asks + 1, back |-> FALSE]}
    BY <1>3 DEF AskRestart, Ask, asking
  <2>3. EntriesTyped' /\ StampsTrue'
    BY <2>1, <2>2, AskTrue DEF IInv, EntriesTyped, StampsTrue
  <2> QED BY <2>1, <2>3 DEF IInv, HandTrue, ToldCameBack
<1> QED BY <1>1, <1>2, <1>3 DEF WorkerStep

(* A start that completes stamps the restart that ran it, and this one came  *)
(* back; one that fails takes its restart from the file.                     *)
LEMMA AttemptTrue ==
    ASSUME IInv, NEW a \in Attempts, AttemptStep(a)
    PROVE  IInv'
<1>1. CASE Spawn(a) \/ Initialize(a) \/ Initialized(a) \/ AttemptFails(a)
  <2>1. UNCHANGED untold
    BY <1>1 DEF Spawn, Initialize, Initialized, AttemptFails, handing, files, told_, observed, asking, untold
  <2> QED BY <2>1, UntoldTrue
<1>2. CASE StartCompletes(a)
  <2> DEFINE stamped == CameUp(att[a].at)
  <2>1. /\ told' = told
        /\ hand' = HandSpan(cur, stamped)
        /\ came' = IF att[a].at = 0 THEN came ELSE came \cup {att[a].at}
        /\ \/ entries' = stamped /\ asks' = asks
           \/ asks' = asks + 1 /\ entries' = stamped \cup {[at |-> asks + 1, back |-> FALSE]}
    BY <1>2 DEF StartCompletes, Ask, told_, asking
  <2>2. came \subseteq came'
    BY <2>1
  <2>3. /\ stamped \in SUBSET [at : Nat \ {0}, back : BOOLEAN]
        /\ \A e \in stamped : e.back => e.at \in came'
    <3> SUFFICES ASSUME NEW e \in stamped
                 PROVE  e \in [at : Nat \ {0}, back : BOOLEAN] /\ (e.back => e.at \in came')
      OBVIOUS
    <3>1. PICK f \in entries : (f.back \/ f.at = att[a].at) /\ e = [f EXCEPT !.back = TRUE]
      BY DEF CameUp
    <3>2. f \in [at : Nat \ {0}, back : BOOLEAN] /\ (f.back => f.at \in came)
      BY DEF IInv, EntriesTyped, StampsTrue
    <3>3. f.at \in came'
      BY <2>1, <3>1, <3>2
    <3> QED BY <3>1, <3>2, <3>3
  <2> HIDE DEF stamped
  <2>4. HandTrue'
    BY <2>1, <2>3, HandsTrue DEF HandTrue
  <2>5. EntriesTyped' /\ StampsTrue'
    BY <2>1, <2>3, AskTrue DEF IInv, EntriesTyped, StampsTrue
  <2> QED BY <2>1, <2>2, <2>4, <2>5 DEF IInv, ToldCameBack
<1>3. CASE AttemptEnds(a)
  <2> DEFINE rest == StartFailed(att[a].at)
  <2>1. /\ hand' = hand /\ told' = told /\ came' = came
        /\ \/ entries' = rest /\ asks' = asks
           \/ asks' = asks + 1 /\ entries' = rest \cup {[at |-> asks + 1, back |-> FALSE]}
    BY <1>3 DEF AttemptEnds, Ask, handing, told_, asking
  <2>2. rest \subseteq entries
    BY DEF StartFailed
  <2> HIDE DEF rest
  <2>3. EntriesTyped' /\ StampsTrue'
    BY <2>1, <2>2, AskTrue DEF IInv, EntriesTyped, StampsTrue
  <2> QED BY <2>1, <2>3 DEF IInv, HandTrue, ToldCameBack
<1> QED BY <1>1, <1>2, <1>3 DEF AttemptStep

(* The timers, a call of the page, and a restart: none touches the file, but *)
(* settings applied ask for a restart.                                       *)
LEMMA PluginTrue ==
    ASSUME IInv, StartTick \/ RestartTick \/ RestartStep \/ ReadyCalled \/ ApplySettings
    PROVE  IInv'
<1>1. CASE StartTick \/ RestartTick \/ RestartStep \/ ReadyCalled
  <2>1. UNCHANGED untold
    BY <1>1 DEF StartTick, RestartTick, RestartStep, RestartDisposes, RestartStarts, ReadyCalled,
       handing, files, told_, observed, asking, untold
  <2> QED BY <2>1, UntoldTrue
<1>2. CASE ApplySettings
  <2>1. hand' = hand /\ told' = told /\ came' = came
    BY <1>2 DEF ApplySettings, handing, told_
  <2>2. \/ asks' = asks + 1 /\ entries' = entries \cup {[at |-> asks + 1, back |-> FALSE]}
        \/ UNCHANGED <<asks, entries>>
    BY <1>2 DEF ApplySettings, Ask, asking
  <2>3. EntriesTyped' /\ StampsTrue'
    BY <2>1, <2>2, AskTrue DEF IInv, EntriesTyped, StampsTrue
  <2> QED BY <2>1, <2>3 DEF IInv, HandTrue, ToldCameBack
<1> QED BY <1>1, <1>2

(* What follows the first half of a hand-over is handed over of the file. *)
LEMMA NextTrue ==
    ASSUME IInv, NEW kept, Next_(kept)
    PROVE  HandsOnly(hand', came)
<1>1. hand' = HandRestarts(hand.w, kept, entries) \/ hand' = NoHand
  BY DEF Next_, HandEnds
<1>2. HandsOnly(HandRestarts(hand.w, kept, entries), came)
  BY HandsTrue DEF IInv, StampsTrue
<1>3. HandsOnly(NoHand, came)
  BY DEF NoHand, HandsOnly
<1> QED BY <1>1, <1>2, <1>3

(* The hand-over. *)
LEMMA HandStepTrue ==
    ASSUME IInv, HandStep \/ WorkerRefuses \/ HandTick
    PROVE  IInv'
<1>1. CASE WorkerWrites
  <2>1. /\ UNCHANGED <<asks, entries, came>>
        /\ hand' = [hand EXCEPT !.written = TRUE]
        /\ told' = told \/ told' = told \cup hand.batch
    BY <1>1 DEF WorkerWrites, files, observed, asking
  <2>2. HandTrue'
    BY <2>1 DEF IInv, HandTrue, HandsOnly
  <2> QED BY <2>1, <2>2 DEF IInv, EntriesTyped, HandTrue, HandsOnly, StampsTrue, ToldCameBack
<1>2. CASE WorkerRefuses
  <2>1. UNCHANGED <<asks, entries, told, came>>
    BY <1>2 DEF WorkerRefuses, files, told_, observed, asking
  <2>2. HandTrue'
    BY <1>2, <2>1, NextTrue DEF WorkerRefuses, HandTrue
  <2> QED BY <2>1, <2>2 DEF IInv, EntriesTyped, StampsTrue, ToldCameBack
<1>3. CASE HandAnswered
  <2>1. UNCHANGED <<asks, told, came>> /\ entries' \subseteq entries
    BY <1>3 DEF HandAnswered, Kept, told_, observed, asking
  <2>2. HandTrue'
    BY <1>3, <2>1, NextTrue DEF HandAnswered, HandTrue
  <2> QED BY <2>1, <2>2 DEF IInv, EntriesTyped, StampsTrue, ToldCameBack
<1>4. CASE HandTick
  <2>1. /\ UNCHANGED <<asks, entries, told, came>>
        /\ hand' = HandSpan(cur, entries) \/ hand' = hand
    BY <1>4 DEF HandTick, files, told_, observed, asking
  <2>2. CASE hand' = HandSpan(cur, entries)
    <3>1. HandTrue'
      BY <2>1, <2>2, HandsTrue DEF IInv, HandTrue, StampsTrue
    <3> QED BY <2>1, <3>1 DEF IInv, EntriesTyped, StampsTrue, ToldCameBack
  <2>3. CASE hand' = hand
    BY <2>1, <2>3, UntoldTrue DEF untold
  <2> QED BY <2>1, <2>2, <2>3
<1> QED BY <1>1, <1>2, <1>3, <1>4 DEF HandStep

(* A Host that ends forgets its hand-over and keeps its files. *)
LEMMA HostTrue ==
    ASSUME IInv, HostStep \/ HostStops \/ HostKilled
    PROVE  IInv'
<1>1. UNCHANGED <<asks, entries, told, came>> /\ (hand' = hand \/ hand' = NoHand)
  BY DEF HostStep, HostEnds, HostStarts, HostStops, HostKilled, Forget, handing, files, told_, observed, asking
<1> QED BY <1>1, UntoldTrue, DroppedTrue DEF untold

(* Every step keeps the invariant. *)
LEMMA StepTrue == IInv /\ [Next]_vars => IInv'
<1> SUFFICES ASSUME IInv, [Next]_vars PROVE IInv'
  OBVIOUS
<1>1. CASE Next
  BY <1>1, WorkerTrue, AttemptTrue, PluginTrue, HandStepTrue, HostTrue DEF Next
<1>2. CASE UNCHANGED vars
  BY <1>2, UntoldTrue DEF vars, handing, files, told_, observed, asking, untold
<1> QED BY <1>1, <1>2

(* restart-tell.js: a restart that failed, was cut by a Host that ended or   *)
(* was overtaken by another is never told as one that came back.             *)
THEOREM RestartsToldAreTrue == Spec => []ToldCameBack
<1>1. IInv => ToldCameBack
  BY DEF IInv
<1> QED BY InitTrue, StepTrue, <1>1, PTL DEF Spec
-----------------------------------------------------------------------------
(* The types need one more fact to be kept: a span is handed over only while *)
(* it is open.                                                               *)
SpanHanded == hand.pc = "span" => span # None

(* The records the actions start from, and those they change by a field.     *)
LEMMA Blanks ==
    /\ NoWorker \in Worker /\ NoAttempt \in Start /\ \A n \in Nat : NewStart(n) \in Start
    /\ NoHand \in Hand /\ NoRestart \in Rs /\ Restart \in Rs
<1>1. NoWorker \in Worker  BY DEF NoWorker, Worker
<1>2. NoAttempt \in Start /\ \A n \in Nat : NewStart(n) \in Start  BY DEF NoAttempt, NewStart, Start
<1>3. NoHand \in Hand  BY DEF NoHand, Hand
<1>4. Restart \in Rs  BY DEF Restart, Rs
<1>5. NoRestart \in Rs  BY <1>4 DEF NoRestart, Rs
<1> QED BY <1>1, <1>2, <1>3, <1>4, <1>5

LEMMA Moves ==
    /\ \A p \in Worker : /\ [p EXCEPT !.asked = TRUE] \in Worker
                         /\ \A s \in {"lock", "configure", "failed", "closing", "up"} :
                               [p EXCEPT !.st = s] \in Worker
    /\ \A p \in Start : \A s \in {"spawned", "late", "cut", "failing"} : [p EXCEPT !.pc = s] \in Start
    /\ \A h \in Hand : [h EXCEPT !.written = TRUE] \in Hand
<1>1. \A p \in Worker : /\ [p EXCEPT !.asked = TRUE] \in Worker
                         /\ \A s \in {"lock", "configure", "failed", "closing", "up"} :
                               [p EXCEPT !.st = s] \in Worker
  BY DEF Worker
<1>2. \A p \in Start : \A s \in {"spawned", "late", "cut", "failing"} : [p EXCEPT !.pc = s] \in Start
  BY DEF Start
<1>3. \A h \in Hand : [h EXCEPT !.written = TRUE] \in Hand
  BY DEF Hand
<1> QED BY <1>1, <1>2, <1>3

(* The parts several actions share: spending a bound, asking for a restart,  *)
(* beginning a start, opening the span, handing over, closing a worker.      *)
LEMMA SpendTypes ==
    ASSUME left \in [Disturbances -> Nat], NEW kind \in Disturbances, Spend(kind)
    PROVE  left' \in [Disturbances -> Nat]
<1>1. left' = [left EXCEPT ![kind] = left[kind] - 1] /\ left[kind] \in Nat /\ left[kind] > 0
  BY DEF Spend
<1>2. left[kind] - 1 \in Nat  BY <1>1
<1> QED BY <1>1, <1>2

LEMMA AskTypes ==
    ASSUME asks \in Nat, early \subseteq Nat, NEW apply \in {"no", "apply", "restore"}, NEW starts,
           Ask(apply, starts)
    PROVE  /\ rs' \in Rs /\ asks' \in Nat /\ early' \subseteq Nat
           /\ [at |-> asks + 1, back |-> FALSE] \in [at : Nat \ {0}, back : BOOLEAN]
<1>1. asks + 1 \in Nat \ {0}  OBVIOUS
<1>2. rs' = [pc |-> "log", at |-> asks + 1, apply |-> apply, w |-> None, slot |-> None]
  BY DEF Ask, Restart
<1>3. rs' \in Rs  BY <1>1, <1>2 DEF Rs
<1>4. asks' \in Nat /\ early' \subseteq Nat  BY <1>1 DEF Ask
<1> QED BY <1>1, <1>3, <1>4

LEMMA BeginTypes ==
    ASSUME PluginTypes, SeenTypes, NEW at \in Nat, Begin(at)
    PROVE  /\ Slot \in FreeSlots /\ FreeSlots \subseteq Attempts
           /\ att' \in [Attempts -> Start] /\ init' \in Attempts
           /\ overlap' \in BOOLEAN /\ early' \subseteq Nat
<1>1. Slot \in FreeSlots /\ FreeSlots \subseteq Attempts  BY DEF Begin, Slot, FreeSlots
<1>2. att' = [att EXCEPT ![Slot] = NewStart(at)] /\ init' = Slot  BY DEF Begin
<1>3. overlap' = (overlap \/ Overlaps(Slot))  BY DEF Begin
<1>4. rs.at \in Nat  BY DEF PluginTypes, Rs
<1>5. overlap' \in BOOLEAN
  <2>1. (overlap \/ Overlaps(Slot)) \in BOOLEAN  OBVIOUS
  <2> QED BY <1>3, <2>1
<1>6. early' \subseteq Nat  BY <1>4 DEF Begin, SeenTypes
<1> QED BY <1>1, <1>2, <1>5, <1>6, Blanks DEF PluginTypes

LEMMA WentDownTypes ==
    ASSUME span \in Spans \cup {None}, outage \in Nat, down \in BOOLEAN, WentDown
    PROVE  span' \in Spans /\ span' # None /\ outage' \in Nat /\ down' \in BOOLEAN
<1>1. Outage \in Nat  BY DEF Outage
<1>2. [since |-> Outage, inside |-> 0] \in Spans  BY <1>1 DEF Spans
<1>3. span' \in Spans  BY <1>2 DEF WentDown
<1> QED BY <1>1, <1>3, WorkerStartsAssumption DEF WentDown

LEMMA HandSpanTypes ==
    ASSUME NEW w \in Workers, NEW kept \in BOOLEAN,
           NEW files_ \in SUBSET [at : Nat \ {0}, back : BOOLEAN]
    PROVE  HandRestarts(w, kept, files_) \in Hand /\ HandSpan(w, files_) \in Hand
<1> DEFINE batch == {e.at : e \in {f \in files_ : f.back}}
<1>1. batch \in SUBSET Nat  OBVIOUS
<1> HIDE DEF batch
<1>2. ASSUME NEW k \in BOOLEAN PROVE HandRestarts(w, k, files_) \in Hand
  <2>1. HandRestarts(w, k, files_) = NoHand \/
        HandRestarts(w, k, files_) = [pc |-> "restarts", w |-> w, kept |-> k, written |-> FALSE, batch |-> batch]
    BY DEF HandRestarts, NoHand, batch
  <2>2. [pc |-> "restarts", w |-> w, kept |-> k, written |-> FALSE, batch |-> batch] \in Hand
    BY <1>1 DEF Hand
  <2> QED BY <2>1, <2>2, Blanks
<1>3. [NoHand EXCEPT !.pc = "span", !.w = w] \in Hand  BY DEF NoHand, Hand
<1> QED BY <1>2, <1>3 DEF HandSpan

LEMMA ProcMoves ==
    ASSUME WorkerTypes, NEW w \in Workers \cup {None}
    PROVE  /\ w \in Workers => proc[w] \in Worker
           /\ \A p \in Worker : [proc EXCEPT ![w] = p] \in [Workers -> Worker]
           /\ Closing(w) \in [Workers -> Worker]
           /\ Abandoned \in [Workers -> Worker]
<1>1. \A v \in Workers : proc[v] \in Worker  BY DEF WorkerTypes
<1>2. \A p \in Worker : [proc EXCEPT ![w] = p] \in [Workers -> Worker]  BY DEF WorkerTypes
<1>3. Closing(w) \in [Workers -> Worker]
  <2>1. CASE Alive(w)
    <3>1. w \in Workers  BY <2>1 DEF Alive
    <3>2. Closing(w) = [proc EXCEPT ![w] = [proc[w] EXCEPT !.st = "closing"]]  BY <2>1 DEF Closing
    <3>3. [proc[w] EXCEPT !.st = "closing"] \in Worker  BY <1>1, <3>1, Moves
    <3> QED BY <1>2, <3>2, <3>3
  <2>2. CASE ~Alive(w)
    BY <2>2 DEF Closing, WorkerTypes
  <2> QED BY <2>1, <2>2
<1>4. [NoWorker EXCEPT !.st = "closing"] \in Worker  BY Blanks, Moves
<1>5. Abandoned \in [Workers -> Worker]  BY <1>4, Blanks DEF Abandoned
<1> QED BY <1>1, <1>2, <1>3, <1>5

(* Every action keeps the types, group by group: the plugin's memory, the    *)
(* hand-over, the workers, the files and rows, and what is observed.         *)
LEMMA CloseTypes ==
    ASSUME TypeOK, NEW w \in Workers, Close(w)
    PROVE TypeOK'
<1> USE DEF TypeOK, Close, Vanish
<1>1. PluginTypes'  BY Blanks, Moves DEF PluginTypes, plugin
<1>2. HandTypes'  BY Blanks, Moves DEF HandTypes, handing
<1>3. WorkerTypes'  BY Blanks, Moves DEF WorkerTypes, workers
<1>4. FileTypes'  BY Blanks, Moves DEF FileTypes, files, told_
<1>5. SeenTypes'
  <2>1. left' \in [Disturbances -> Nat]
    <3>1. left' = left \/ Spend("slow")  OBVIOUS
    <3> QED BY <3>1, SpendTypes DEF SeenTypes, Disturbances
  <2>2. kills' \in Nat
    <3>1. kills' = kills \/ kills' = kills + 1  OBVIOUS
    <3> QED BY <3>1 DEF SeenTypes
  <2>3. unheard' \in BOOLEAN  BY DEF SeenTypes
  <2>4. UNCHANGED <<down, outage, asks, early, came, ends, overlap>>  BY DEF asking
  <2> QED BY <2>1, <2>2, <2>3, <2>4 DEF SeenTypes
<1> QED BY <1>1, <1>2, <1>3, <1>4, <1>5

LEMMA WorkerExitsTypes ==
    ASSUME TypeOK, NEW w \in Workers, WorkerExits(w)
    PROVE TypeOK'
<1> USE DEF TypeOK, WorkerExits, Vanish, WentDown, Outage
<1>1. PluginTypes'  BY Blanks, Moves DEF PluginTypes, plugin
<1>2. HandTypes'  BY Blanks, Moves DEF HandTypes, handing
<1>3. WorkerTypes'  BY Blanks, Moves DEF WorkerTypes, workers
<1>4. FileTypes'
  <2>1. span' \in Spans  BY WentDownTypes DEF SeenTypes, FileTypes
  <2> QED BY <2>1 DEF FileTypes, files, told_
<1>5. SeenTypes'
  <2>1. left' \in [Disturbances -> Nat]  BY SpendTypes DEF SeenTypes, Disturbances
  <2>2. outage' \in Nat /\ down' \in BOOLEAN  BY WentDownTypes DEF SeenTypes, FileTypes
  <2>3. unheard' \in BOOLEAN /\ UNCHANGED <<asks, early, came, kills, ends, overlap>>
    BY DEF SeenTypes, asking
  <2> QED BY <2>1, <2>2, <2>3 DEF SeenTypes
<1> QED BY <1>1, <1>2, <1>3, <1>4, <1>5

LEMMA AcquireTypes ==
    ASSUME TypeOK, NEW w \in Workers, Acquire(w)
    PROVE TypeOK'
<1> USE DEF TypeOK, Acquire
<1>1. PluginTypes'  BY Blanks, Moves DEF PluginTypes, plugin
<1>2. HandTypes'  BY Blanks, Moves DEF HandTypes, handing
<1>3. WorkerTypes'
  <2>1. proc[w] \in Worker  BY DEF WorkerTypes
  <2>2. [proc[w] EXCEPT !.st = "configure", !.found = lease] \in Worker
        /\ [proc[w] EXCEPT !.st = "failed"] \in Worker
    BY <2>1 DEF Worker, WorkerTypes
  <2>3. \/ /\ proc' = [proc EXCEPT ![w] = [proc[w] EXCEPT !.st = "configure", !.found = lease]]
           /\ lock' = w /\ lease' = TRUE
        \/ proc' = [proc EXCEPT ![w] = [proc[w] EXCEPT !.st = "failed"]] /\ UNCHANGED <<lock, lease>>
    OBVIOUS
  <2> QED BY <2>2, <2>3, ProcMoves DEF WorkerTypes
<1>4. FileTypes'  BY Blanks, Moves DEF FileTypes, files, told_
<1>5. SeenTypes'  BY Blanks, Moves DEF SeenTypes, observed, asking
<1> QED BY <1>1, <1>2, <1>3, <1>4, <1>5

LEMMA ConfigureTypes ==
    ASSUME TypeOK, NEW w \in Workers, Configure(w)
    PROVE TypeOK'
<1> USE DEF TypeOK, Configure, Folds
<1>1. PluginTypes'  BY Blanks, Moves DEF PluginTypes, plugin
<1>2. HandTypes'  BY Blanks, Moves DEF HandTypes, handing
<1>3. WorkerTypes'
  <2>1. proc[w] \in Worker /\ Folds(w) \in BOOLEAN  BY DEF WorkerTypes, Worker, Folds
  <2>2. [proc[w] EXCEPT !.st = "up", !.folded = Folds(w)] \in Worker
    <3> HIDE DEF Folds
    <3> QED BY <2>1 DEF Worker
  <2>3. proc' = [proc EXCEPT ![w] = [proc[w] EXCEPT !.st = "up", !.folded = Folds(w)]]
    OBVIOUS
  <2> QED BY <2>2, <2>3, ProcMoves DEF WorkerTypes
<1>4. FileTypes'  BY Blanks, Moves DEF FileTypes, files, told_
<1>5. SeenTypes'  BY Blanks, Moves DEF SeenTypes, observed, asking
<1> QED BY <1>1, <1>2, <1>3, <1>4, <1>5

LEMMA InitializeFailsTypes ==
    ASSUME TypeOK, NEW w \in Workers, InitializeFails(w)
    PROVE TypeOK'
<1> USE DEF TypeOK, InitializeFails
<1>1. PluginTypes'  BY Blanks, Moves DEF PluginTypes, plugin
<1>2. HandTypes'  BY Blanks, Moves DEF HandTypes, handing
<1>3. WorkerTypes'  BY Blanks, Moves DEF WorkerTypes, workers
<1>4. FileTypes'  BY Blanks, Moves DEF FileTypes, files, told_
<1>5. SeenTypes'
  <2>1. left' \in [Disturbances -> Nat]  BY SpendTypes DEF SeenTypes, Disturbances
  <2> QED BY <2>1 DEF SeenTypes, observed, asking
<1> QED BY <1>1, <1>2, <1>3, <1>4, <1>5

LEMMA AskRestartTypes ==
    ASSUME TypeOK, NEW w \in Workers, AskRestart(w)
    PROVE TypeOK'
<1> USE DEF TypeOK, AskRestart, Ask
<1>1. PluginTypes'
  <2>1. UNCHANGED rs \/ Ask("no", Attempts)  OBVIOUS
  <2>2. rs' \in Rs
    BY <2>1, AskTypes DEF SeenTypes, PluginTypes
  <2> QED BY <2>2 DEF PluginTypes
<1>2. HandTypes'  BY Blanks, Moves DEF HandTypes, handing
<1>3. WorkerTypes'  BY Blanks, Moves DEF WorkerTypes, workers
<1>4. FileTypes'
  <2>1. \/ entries' = entries
        \/ entries' = entries \cup {[at |-> asks + 1, back |-> FALSE]} /\ Ask("no", Attempts)
    OBVIOUS
  <2>2. entries' \subseteq [at : Nat \ {0}, back : BOOLEAN]
    BY <2>1, AskTypes DEF SeenTypes, FileTypes
  <2> QED BY <2>2 DEF FileTypes, files, told_
<1>5. SeenTypes'
  <2>1. left' \in [Disturbances -> Nat]  BY SpendTypes DEF SeenTypes, Disturbances
  <2>2. UNCHANGED <<asks, early>> \/ Ask("no", Attempts)  BY DEF asking
  <2>3. asks' \in Nat /\ early' \subseteq Nat
    BY <2>2, AskTypes DEF SeenTypes
  <2> QED BY <2>1, <2>3 DEF SeenTypes
<1> QED BY <1>1, <1>2, <1>3, <1>4, <1>5

LEMMA SpawnTypes ==
    ASSUME TypeOK, NEW a \in Attempts, Spawn(a)
    PROVE TypeOK'
<1> USE DEF TypeOK, Spawn
<1>1. PluginTypes'  BY Blanks, Moves DEF PluginTypes, plugin
<1>2. HandTypes'  BY Blanks, Moves DEF HandTypes, handing
<1>3. WorkerTypes'
  <2>1. [NoWorker EXCEPT !.st = "idle"] \in Worker  BY DEF NoWorker, Worker
  <2>2. proc' = [proc EXCEPT ![cur'] = [NoWorker EXCEPT !.st = "idle"]] /\ cur' \in Workers
    BY DEF Unused
  <2> QED BY <2>1, <2>2, ProcMoves DEF WorkerTypes
<1>4. FileTypes'  BY Blanks, Moves DEF FileTypes, files, told_
<1>5. SeenTypes'  BY Blanks, Moves DEF SeenTypes, observed, asking
<1> QED BY <1>1, <1>2, <1>3, <1>4, <1>5

LEMMA InitializeTypes ==
    ASSUME TypeOK, NEW a \in Attempts, Initialize(a)
    PROVE TypeOK'
<1> USE DEF TypeOK, Initialize
<1>1. PluginTypes'
  <2>1. att[a] \in Start  BY DEF PluginTypes
  <2>2. [att[a] EXCEPT !.pc = "init", !.w = cur] \in Start /\ [att[a] EXCEPT !.pc = "cut"] \in Start
    BY <2>1 DEF PluginTypes, Start
  <2>3. \/ att' = [att EXCEPT ![a] = [att[a] EXCEPT !.pc = "init", !.w = cur]]
        \/ att' = [att EXCEPT ![a] = [att[a] EXCEPT !.pc = "cut"]]
    OBVIOUS
  <2> QED BY <2>2, <2>3 DEF PluginTypes
<1>2. HandTypes'  BY Blanks, Moves DEF HandTypes, handing
<1>3. WorkerTypes'
  <2>1. \/ proc' = proc
        \/ cur \in Workers /\ proc' = [proc EXCEPT ![cur] = [proc[cur] EXCEPT !.st = "lock"]]
    BY DEF PluginTypes
  <2>2. cur \in Workers => [proc[cur] EXCEPT !.st = "lock"] \in Worker  BY ProcMoves, Moves
  <2> QED BY <2>1, <2>2, ProcMoves DEF WorkerTypes
<1>4. FileTypes'  BY Blanks, Moves DEF FileTypes, files, told_
<1>5. SeenTypes'  BY Blanks, Moves DEF SeenTypes, observed, asking
<1> QED BY <1>1, <1>2, <1>3, <1>4, <1>5

LEMMA InitializedTypes ==
    ASSUME TypeOK, NEW a \in Attempts, Initialized(a)
    PROVE TypeOK'
<1> USE DEF TypeOK, Initialized, StopInside
<1>1. PluginTypes'
  <2>1. att[a] \in Start  BY DEF PluginTypes
  <2>2. [att[a] EXCEPT !.pc = "late", !.w = None] \in Start  BY <2>1 DEF Start
  <2>3. att' = [att EXCEPT ![a] = [att[a] EXCEPT !.pc = "late", !.w = None]]  OBVIOUS
  <2> QED BY <2>2, <2>3 DEF PluginTypes
<1>2. HandTypes'  BY Blanks, Moves DEF HandTypes, handing
<1>3. WorkerTypes'  BY Blanks, Moves DEF WorkerTypes, workers
<1>4. FileTypes'
  <2>1. StopInside \in Spans \cup {None}
    <3>1. CASE span = None  BY <3>1
    <3>2. CASE span # None
      <4>1. span.inside + 1 \in Nat /\ span.since \in Nat  BY <3>2 DEF FileTypes, Spans
      <4>2. StopInside = [since |-> span.since, inside |-> span.inside + 1]
        BY <3>2 DEF FileTypes, Spans
      <4> QED BY <4>1, <4>2 DEF Spans
    <3> QED BY <3>1, <3>2
  <2>2. span' = StopInside \/ span' = span  OBVIOUS
  <2> HIDE DEF StopInside
  <2> QED BY <2>1, <2>2 DEF FileTypes, files, told_
<1>5. SeenTypes'  BY Blanks, Moves DEF SeenTypes, observed, asking
<1> QED BY <1>1, <1>2, <1>3, <1>4, <1>5

LEMMA StartCompletesTypes ==
    ASSUME TypeOK, NEW a \in Attempts, StartCompletes(a)
    PROVE TypeOK'
<1> USE DEF TypeOK, StartCompletes, Ask
<1>1. PluginTypes'
  <2> HIDE DEF Ask
  <2>1. rs' \in Rs
    <3>1. rs' = NoRestart \/ rs' = rs \/ Ask("no", Attempts \ {a})  OBVIOUS
    <3> QED BY <3>1, AskTypes, Blanks DEF SeenTypes, PluginTypes
  <2>2. again' \in BOOLEAN /\ init' \in Attempts \cup {None, "done"} /\ UNCHANGED <<host, cur, timers, exited>>
        /\ att' = [att EXCEPT ![a] = NoAttempt]
    BY DEF PluginTypes
  <2> QED BY <2>1, <2>2, Blanks DEF PluginTypes
<1>2. HandTypes'
  <2>1. CameUp(att[a].at) \in SUBSET [at : Nat \ {0}, back : BOOLEAN]
    <3> SUFFICES ASSUME NEW e \in CameUp(att[a].at) PROVE e \in [at : Nat \ {0}, back : BOOLEAN]
      OBVIOUS
    <3>1. PICK f \in entries : e = [f EXCEPT !.back = TRUE]  BY DEF CameUp
    <3>2. f \in [at : Nat \ {0}, back : BOOLEAN]  BY DEF FileTypes
    <3> QED BY <3>1, <3>2
  <2>2. cur \in Workers  BY DEF Up, PluginTypes
  <2>3. hand' = HandSpan(cur, CameUp(att[a].at))  OBVIOUS
  <2>4. hand' \in Hand
    <3> HIDE DEF StartCompletes
    <3> QED BY <2>1, <2>2, <2>3, HandSpanTypes
  <2> QED BY <2>4 DEF HandTypes
<1>3. WorkerTypes'  BY Blanks, Moves DEF WorkerTypes, workers
<1>4. FileTypes'
  <2> HIDE DEF Ask
  <2>1. CameUp(att[a].at) \in SUBSET [at : Nat \ {0}, back : BOOLEAN]
    <3> SUFFICES ASSUME NEW e \in CameUp(att[a].at) PROVE e \in [at : Nat \ {0}, back : BOOLEAN]
      OBVIOUS
    <3>1. PICK f \in entries : e = [f EXCEPT !.back = TRUE]  BY DEF CameUp
    <3>2. f \in [at : Nat \ {0}, back : BOOLEAN]  BY DEF FileTypes
    <3> QED BY <3>1, <3>2
  <2>2. \/ entries' = CameUp(att[a].at)
        \/ /\ entries' = CameUp(att[a].at) \cup {[at |-> asks + 1, back |-> FALSE]}
           /\ Ask("no", Attempts \ {a})
    OBVIOUS
  <2>3. entries' \subseteq [at : Nat \ {0}, back : BOOLEAN]
    BY <2>1, <2>2, AskTypes DEF SeenTypes
  <2> QED BY <2>3 DEF FileTypes, files, told_
<1>5. SeenTypes'
  <2> HIDE DEF Ask
  <2>1. UNCHANGED <<asks, early>> \/ Ask("no", Attempts \ {a})  BY DEF asking
  <2>2. asks' \in Nat /\ early' \subseteq Nat  BY <2>1, AskTypes DEF SeenTypes
  <2>3. att[a].at \in Nat  BY DEF PluginTypes, Start
  <2>4. came' \subseteq Nat  BY <2>3 DEF SeenTypes
  <2>5. down' \in BOOLEAN /\ UNCHANGED <<outage, kills, ends, unheard, overlap, left>>  OBVIOUS
  <2> QED BY <2>2, <2>4, <2>5 DEF SeenTypes
<1> QED BY <1>1, <1>2, <1>3, <1>4, <1>5

LEMMA AttemptFailsTypes ==
    ASSUME TypeOK, NEW a \in Attempts, AttemptFails(a)
    PROVE TypeOK'
<1> USE DEF TypeOK, AttemptFails, Closing
<1>1. PluginTypes'
  <2>1. att[a] \in Start  BY DEF PluginTypes
  <2>2. [att[a] EXCEPT !.pc = "failing", !.w = cur] \in Start  BY <2>1 DEF Start, PluginTypes
  <2>3. att' = [att EXCEPT ![a] = [att[a] EXCEPT !.pc = "failing", !.w = cur]]  OBVIOUS
  <2> QED BY <2>2, <2>3 DEF PluginTypes
<1>2. HandTypes'  BY Blanks, Moves DEF HandTypes, handing
<1>3. WorkerTypes'
  <2> HIDE DEF Closing
  <2> QED BY ProcMoves DEF PluginTypes, WorkerTypes
<1>4. FileTypes'  BY Blanks, Moves DEF FileTypes, files, told_
<1>5. SeenTypes'
  <2>1. UNCHANGED left \/ Spend("fault")  BY DEF Fails
  <2>2. left' \in [Disturbances -> Nat]  BY <2>1, SpendTypes DEF SeenTypes, Disturbances
  <2> QED BY <2>2 DEF SeenTypes, observed, asking
<1> QED BY <1>1, <1>2, <1>3, <1>4, <1>5

LEMMA AttemptEndsTypes ==
    ASSUME TypeOK, NEW a \in Attempts, AttemptEnds(a)
    PROVE TypeOK'
<1> USE DEF TypeOK, AttemptEnds, Cleared, WentDown, Outage, Ask
<1>1. PluginTypes'
  <2> HIDE DEF Ask, WentDown
  <2>1. rs' \in Rs
    <3>1. rs' = NoRestart \/ rs' = rs \/ Ask("restore", Attempts \ {a})  OBVIOUS
    <3> QED BY <3>1, AskTypes, Blanks DEF SeenTypes, PluginTypes
  <2>2. again' \in BOOLEAN /\ init' \in Attempts \cup {None, "done"} /\ UNCHANGED <<host, cur, exited>>
        /\ timers' \subseteq {"start", "restart"} /\ att' = [att EXCEPT ![a] = NoAttempt]
    BY DEF PluginTypes
  <2> QED BY <2>1, <2>2, Blanks DEF PluginTypes
<1>2. HandTypes'  BY Blanks, Moves DEF HandTypes, handing
<1>3. WorkerTypes'  BY Blanks, Moves DEF WorkerTypes, workers
<1>4. FileTypes'
  <2> HIDE DEF Ask, WentDown
  <2>1. StartFailed(att[a].at) \subseteq entries  BY DEF StartFailed
  <2>2. \/ entries' = StartFailed(att[a].at)
        \/ /\ entries' = StartFailed(att[a].at) \cup {[at |-> asks + 1, back |-> FALSE]}
           /\ Ask("restore", Attempts \ {a})
    OBVIOUS
  <2>3. entries' \subseteq [at : Nat \ {0}, back : BOOLEAN]
    BY <2>1, <2>2, AskTypes DEF SeenTypes, FileTypes
  <2>4. span' \in Spans  BY WentDownTypes DEF SeenTypes, FileTypes
  <2> QED BY <2>3, <2>4 DEF FileTypes, told_
<1>5. SeenTypes'
  <2> HIDE DEF Ask, WentDown
  <2>1. UNCHANGED <<asks, early>> \/ Ask("restore", Attempts \ {a})  BY DEF asking
  <2>2. asks' \in Nat /\ early' \subseteq Nat  BY <2>1, AskTypes DEF SeenTypes
  <2>3. outage' \in Nat /\ down' \in BOOLEAN  BY WentDownTypes DEF SeenTypes, FileTypes
  <2> QED BY <2>2, <2>3 DEF SeenTypes
<1> QED BY <1>1, <1>2, <1>3, <1>4, <1>5

LEMMA StartTickTypes ==
    ASSUME TypeOK, StartTick
    PROVE TypeOK'
<1> USE DEF TypeOK, StartTick, Begin
<1>1. PluginTypes'
  <2> HIDE DEF Begin
  <2>1. CASE Begin(0)
    <3>1. att' \in [Attempts -> Start] /\ init' \in Attempts  BY <2>1, BeginTypes
    <3> QED BY <3>1 DEF PluginTypes
  <2>2. CASE UNCHANGED <<att, init>>
    BY <2>2 DEF PluginTypes
  <2> QED BY <2>1, <2>2
<1>2. HandTypes'  BY Blanks, Moves DEF HandTypes, handing
<1>3. WorkerTypes'  BY Blanks, Moves DEF WorkerTypes, workers
<1>4. FileTypes'  BY Blanks, Moves DEF FileTypes, files, told_
<1>5. SeenTypes'
  <2> HIDE DEF Begin
  <2>1. overlap' \in BOOLEAN /\ early' \subseteq Nat
    <3>1. Begin(0) \/ UNCHANGED <<overlap, early>>
      OBVIOUS
    <3> QED BY <3>1, BeginTypes DEF SeenTypes, PluginTypes, Rs
  <2> QED BY <2>1 DEF SeenTypes
<1> QED BY <1>1, <1>2, <1>3, <1>4, <1>5

LEMMA RestartTickTypes ==
    ASSUME TypeOK, RestartTick
    PROVE TypeOK'
<1> USE DEF TypeOK, RestartTick
<1>1. PluginTypes'  BY Blanks, Moves DEF PluginTypes, plugin
<1>2. HandTypes'  BY Blanks, Moves DEF HandTypes, handing
<1>3. WorkerTypes'  BY Blanks, Moves DEF WorkerTypes, workers
<1>4. FileTypes'  BY Blanks, Moves DEF FileTypes, files, told_
<1>5. SeenTypes'  BY Blanks, Moves DEF SeenTypes, observed, asking
<1> QED BY <1>1, <1>2, <1>3, <1>4, <1>5

LEMMA RestartDisposesTypes ==
    ASSUME TypeOK, RestartDisposes
    PROVE TypeOK'
<1> USE DEF TypeOK, RestartDisposes, Closing
<1>1. PluginTypes'
  <2>1. [rs EXCEPT !.pc = "dispose", !.w = cur] \in Rs  BY DEF PluginTypes, Rs
  <2> QED BY <2>1 DEF PluginTypes
<1>2. HandTypes'  BY Blanks, Moves DEF HandTypes, handing
<1>3. WorkerTypes'
  <2> HIDE DEF Closing
  <2> QED BY ProcMoves DEF PluginTypes, WorkerTypes
<1>4. FileTypes'  BY Blanks, Moves DEF FileTypes, files, told_
<1>5. SeenTypes'  BY Blanks, Moves DEF SeenTypes, observed, asking
<1> QED BY <1>1, <1>2, <1>3, <1>4, <1>5

LEMMA RestartStartsTypes ==
    ASSUME TypeOK, RestartStarts
    PROVE TypeOK'
<1> USE DEF TypeOK, RestartStarts, Begin
<1>1. PluginTypes'
  <2> HIDE DEF Begin
  <2>1. rs.at \in Nat  BY DEF PluginTypes, Rs
  <2>2. att' \in [Attempts -> Start] /\ init' \in Attempts /\ Slot \in Attempts  BY <2>1, BeginTypes
  <2>3. [rs EXCEPT !.pc = "start", !.w = None, !.slot = Slot] \in Rs
    <3> HIDE DEF RestartStarts
    <3> QED BY <2>2 DEF PluginTypes, Rs
  <2>4. rs' = [rs EXCEPT !.pc = "start", !.w = None, !.slot = Slot]  OBVIOUS
  <2>5. UNCHANGED <<host, timers, cur, again, exited>>  OBVIOUS
  <2> QED BY <2>2, <2>3, <2>4, <2>5 DEF PluginTypes
<1>2. HandTypes'  BY Blanks, Moves DEF HandTypes, handing
<1>3. WorkerTypes'  BY Blanks, Moves DEF WorkerTypes, workers
<1>4. FileTypes'  BY Blanks, Moves DEF FileTypes, files, told_
<1>5. SeenTypes'
  <2> HIDE DEF Begin
  <2>1. rs.at \in Nat  BY DEF PluginTypes, Rs
  <2>2. overlap' \in BOOLEAN /\ early' \subseteq Nat  BY <2>1, BeginTypes
  <2> QED BY <2>2 DEF SeenTypes
<1> QED BY <1>1, <1>2, <1>3, <1>4, <1>5

LEMMA ReadyCalledTypes ==
    ASSUME TypeOK, ReadyCalled
    PROVE TypeOK'
<1> USE DEF TypeOK, ReadyCalled, Begin
<1>1. PluginTypes'
  <2> HIDE DEF Begin
  <2>1. att' \in [Attempts -> Start] /\ init' \in Attempts  BY BeginTypes
  <2> QED BY <2>1 DEF PluginTypes
<1>2. HandTypes'  BY Blanks, Moves DEF HandTypes, handing
<1>3. WorkerTypes'  BY Blanks, Moves DEF WorkerTypes, workers
<1>4. FileTypes'  BY Blanks, Moves DEF FileTypes, files, told_
<1>5. SeenTypes'
  <2> HIDE DEF Begin
  <2>1. overlap' \in BOOLEAN /\ early' \subseteq Nat
    <3>1. Begin(0)
      OBVIOUS
    <3> QED BY <3>1, BeginTypes DEF SeenTypes, PluginTypes, Rs
  <2>2. left' \in [Disturbances -> Nat]  BY SpendTypes DEF SeenTypes, Disturbances
  <2> QED BY <2>1, <2>2 DEF SeenTypes
<1> QED BY <1>1, <1>2, <1>3, <1>4, <1>5

LEMMA ApplySettingsTypes ==
    ASSUME TypeOK, ApplySettings
    PROVE TypeOK'
<1> USE DEF TypeOK, ApplySettings
<1>1. PluginTypes'
  <2>1. CASE rs = NoRestart
    <3>1. rs' \in Rs  BY <2>1, AskTypes DEF SeenTypes, PluginTypes
    <3> QED BY <3>1 DEF PluginTypes
  <2>2. CASE rs # NoRestart
    <3>1. rs' = [rs EXCEPT !.apply = "apply"] /\ rs \in Rs  BY <2>2 DEF PluginTypes
    <3>2. rs' \in Rs  BY <3>1 DEF Rs
    <3> QED BY <3>2 DEF PluginTypes
  <2> QED BY <2>1, <2>2
<1>2. HandTypes'  BY Blanks, Moves DEF HandTypes, handing
<1>3. WorkerTypes'  BY Blanks, Moves DEF WorkerTypes, workers
<1>4. FileTypes'
  <2>1. \/ entries' = entries
        \/ entries' = entries \cup {[at |-> asks + 1, back |-> FALSE]} /\ Ask("apply", Attempts)
    OBVIOUS
  <2>2. entries' \subseteq [at : Nat \ {0}, back : BOOLEAN]
    BY <2>1, AskTypes DEF SeenTypes, FileTypes
  <2> QED BY <2>2 DEF FileTypes, files, told_
<1>5. SeenTypes'
  <2>1. left' \in [Disturbances -> Nat]  BY SpendTypes DEF SeenTypes, Disturbances
  <2>2. UNCHANGED <<asks, early>> \/ Ask("apply", Attempts)  BY DEF asking
  <2>3. asks' \in Nat /\ early' \subseteq Nat
    BY <2>2, AskTypes DEF SeenTypes
  <2> QED BY <2>1, <2>3 DEF SeenTypes
<1> QED BY <1>1, <1>2, <1>3, <1>4, <1>5

LEMMA WorkerWritesTypes ==
    ASSUME TypeOK, SpanHanded, WorkerWrites
    PROVE TypeOK'
<1> USE DEF TypeOK, WorkerWrites
<1>1. PluginTypes'  BY Blanks, Moves DEF PluginTypes, plugin
<1>2. HandTypes'  BY Blanks, Moves DEF HandTypes, handing
<1>3. WorkerTypes'  BY Blanks, Moves DEF WorkerTypes, workers
<1>4. FileTypes'
  <2>1. hand.batch \subseteq Nat  BY DEF HandTypes, Hand
  <2>2. told' \subseteq Nat  BY <2>1 DEF FileTypes
  <2>3. rows' \subseteq [since : Nat, upto : Nat]
    <3>1. CASE rows' = rows  BY <3>1 DEF FileTypes
    <3>2. CASE hand.pc = "span" /\ rows' = rows \cup {[since |-> span.since, upto |-> outage]}
      <4>1. span.since \in Nat  BY <3>2 DEF SpanHanded, FileTypes, Spans
      <4> QED BY <3>2, <4>1 DEF FileTypes, SeenTypes
    <3> QED BY <3>1, <3>2
  <2> QED BY <2>2, <2>3 DEF FileTypes, files
<1>5. SeenTypes'  BY Blanks, Moves DEF SeenTypes, observed, asking
<1> QED BY <1>1, <1>2, <1>3, <1>4, <1>5

LEMMA WorkerRefusesTypes ==
    ASSUME TypeOK, WorkerRefuses
    PROVE TypeOK'
<1> USE DEF TypeOK, WorkerRefuses
<1>1. PluginTypes'  BY Blanks, Moves DEF PluginTypes, plugin
<1>2. HandTypes'
  <2> HIDE DEF WorkerRefuses
  <2>1. Next_(TRUE) /\ TRUE \in BOOLEAN /\ hand # NoHand /\ Alive(hand.w)  BY DEF WorkerRefuses, HandTypes, Hand
  <2>2. hand.w \in Workers  BY <2>1 DEF Alive, HandTypes, Hand
  <2>3. HandRestarts(hand.w, TRUE, entries) \in Hand  BY <2>1, <2>2, HandSpanTypes DEF FileTypes
  <2>4. /\ hand' = HandRestarts(hand.w, TRUE, entries) \/ hand' = NoHand
        /\ retry' = cur \/ retry' = retry
    BY <2>1 DEF Next_, HandEnds
  <2> QED BY <2>3, <2>4, Blanks DEF HandTypes, PluginTypes
<1>3. WorkerTypes'  BY Blanks, Moves DEF WorkerTypes, workers
<1>4. FileTypes'  BY Blanks, Moves DEF FileTypes, files, told_
<1>5. SeenTypes'
  <2>1. left' \in [Disturbances -> Nat]  BY SpendTypes DEF SeenTypes, Disturbances
  <2> QED BY <2>1 DEF SeenTypes, observed, asking
<1> QED BY <1>1, <1>2, <1>3, <1>4, <1>5

LEMMA HandAnsweredTypes ==
    ASSUME TypeOK, HandAnswered
    PROVE TypeOK'
<1> USE DEF TypeOK, HandAnswered, Kept
<1>1. PluginTypes'  BY Blanks, Moves DEF PluginTypes, plugin
<1>2. HandTypes'
  <2> HIDE DEF HandAnswered
  <2>1. Next_(hand.kept) /\ hand.kept \in BOOLEAN /\ hand # NoHand /\ Alive(hand.w)  BY DEF HandAnswered, HandTypes, Hand
  <2>2. hand.w \in Workers  BY <2>1 DEF Alive, HandTypes, Hand
  <2>3. HandRestarts(hand.w, hand.kept, entries) \in Hand  BY <2>1, <2>2, HandSpanTypes DEF FileTypes
  <2>4. /\ hand' = HandRestarts(hand.w, hand.kept, entries) \/ hand' = NoHand
        /\ retry' = cur \/ retry' = retry
    BY <2>1 DEF Next_, HandEnds
  <2> QED BY <2>3, <2>4, Blanks DEF HandTypes, PluginTypes
<1>3. WorkerTypes'  BY Blanks, Moves DEF WorkerTypes, workers
<1>4. FileTypes'  BY Blanks, Moves DEF FileTypes, files, told_
<1>5. SeenTypes'  BY Blanks, Moves DEF SeenTypes, observed, asking
<1> QED BY <1>1, <1>2, <1>3, <1>4, <1>5

LEMMA HandTickTypes ==
    ASSUME TypeOK, HandTick
    PROVE TypeOK'
<1> USE DEF TypeOK, HandTick
<1>1. PluginTypes'  BY Blanks, Moves DEF PluginTypes, plugin
<1>2. HandTypes'
  <2>1. \/ hand' = hand
        \/ Alive(cur) /\ hand' = HandSpan(cur, entries)
    OBVIOUS
  <2>2. Alive(cur) => cur \in Workers  BY DEF Alive, PluginTypes
  <2>3. hand' \in Hand
    <3> HIDE DEF HandTick
    <3> QED BY <2>1, <2>2, HandSpanTypes DEF HandTypes, FileTypes
  <2> QED BY <2>3 DEF HandTypes
<1>3. WorkerTypes'  BY Blanks, Moves DEF WorkerTypes, workers
<1>4. FileTypes'  BY Blanks, Moves DEF FileTypes, files, told_
<1>5. SeenTypes'  BY Blanks, Moves DEF SeenTypes, observed, asking
<1> QED BY <1>1, <1>2, <1>3, <1>4, <1>5

LEMMA HostEndsTypes ==
    ASSUME TypeOK, HostEnds
    PROVE TypeOK'
<1> USE DEF TypeOK, HostEnds, Forget, Abandoned
<1>1. PluginTypes'  BY Blanks, Moves DEF PluginTypes, plugin
<1>2. HandTypes'  BY Blanks, Moves DEF HandTypes, handing
<1>3. WorkerTypes'
  <2> HIDE DEF Abandoned
  <2> QED BY ProcMoves DEF WorkerTypes, PluginTypes
<1>4. FileTypes'  BY Blanks, Moves DEF FileTypes, files, told_
<1>5. SeenTypes'  BY Blanks, Moves DEF SeenTypes, observed, asking
<1> QED BY <1>1, <1>2, <1>3, <1>4, <1>5

LEMMA HostStopsTypes ==
    ASSUME TypeOK, HostStops
    PROVE TypeOK'
<1> USE DEF TypeOK, HostStops, Closing
<1>1. PluginTypes'  BY Blanks, Moves DEF PluginTypes, plugin
<1>2. HandTypes'  BY Blanks, Moves DEF HandTypes, handing
<1>3. WorkerTypes'
  <2> HIDE DEF Closing
  <2> QED BY ProcMoves DEF PluginTypes, WorkerTypes
<1>4. FileTypes'  BY Blanks, Moves DEF FileTypes, files, told_
<1>5. SeenTypes'
  <2>1. left' \in [Disturbances -> Nat]  BY SpendTypes DEF SeenTypes, Disturbances
  <2> QED BY <2>1 DEF SeenTypes, observed, asking
<1> QED BY <1>1, <1>2, <1>3, <1>4, <1>5

LEMMA HostKilledTypes ==
    ASSUME TypeOK, HostKilled
    PROVE TypeOK'
<1> USE DEF TypeOK, HostKilled, Forget, Abandoned
<1>1. PluginTypes'  BY Blanks, Moves DEF PluginTypes, plugin
<1>2. HandTypes'  BY Blanks, Moves DEF HandTypes, handing
<1>3. WorkerTypes'
  <2> HIDE DEF Abandoned
  <2>1. proc' = [v \in Workers |-> NoWorker] \/ proc' = Abandoned  OBVIOUS
  <2> QED BY <2>1, Blanks, ProcMoves DEF WorkerTypes, PluginTypes
<1>4. FileTypes'  BY Blanks, Moves DEF FileTypes, files, told_
<1>5. SeenTypes'
  <2>1. left' \in [Disturbances -> Nat]  BY SpendTypes DEF SeenTypes, Disturbances
  <2>2. kills' \in Nat /\ unheard' \in BOOLEAN /\ UNCHANGED <<down, outage, asks, early, came, ends, overlap>>
    BY DEF SeenTypes, asking
  <2> QED BY <2>1, <2>2 DEF SeenTypes
<1> QED BY <1>1, <1>2, <1>3, <1>4, <1>5

LEMMA HostStartsTypes ==
    ASSUME TypeOK, HostStarts
    PROVE TypeOK'
<1> USE DEF TypeOK, HostStarts, FirstStart
<1>1. PluginTypes'
  <2>1. FirstStart \in Attempts  BY WorkerStartsAssumption
  <2>2. att' = [att EXCEPT ![FirstStart] = NewStart(0)] /\ init' = FirstStart  OBVIOUS
  <2> HIDE DEF FirstStart
  <2> QED BY <2>1, <2>2, Blanks DEF PluginTypes
<1>2. HandTypes'  BY Blanks, Moves DEF HandTypes, handing
<1>3. WorkerTypes'  BY Blanks, Moves DEF WorkerTypes, workers
<1>4. FileTypes'  BY Blanks, Moves DEF FileTypes, files, told_
<1>5. SeenTypes'  BY Blanks, Moves DEF SeenTypes, observed, asking
<1> QED BY <1>1, <1>2, <1>3, <1>4, <1>5

-----------------------------------------------------------------------------
(* A start that still calls the worker.                                      *)
Live(a) == att[a].pc \notin {"none", "failing"}

(* While no two starts overlapped: one start calls at a time and `initializing` *)
(* is it; a start begins only when the worker before is gone; a restart waits *)
(* for the worker the plugin speaks with; and no other worker runs.          *)
Single ==
    /\ \A a, b \in Attempts : Live(a) /\ Live(b) => a = b
    /\ \A a \in Attempts : Live(a) => init = a
    /\ init = None => Gone(cur)
    /\ \A a \in Attempts : att[a].pc = "pre" => Gone(cur)
    /\ rs.pc = "dispose" => rs.w = cur /\ ~Alive(cur)
    /\ \A a \in Attempts : att[a].pc = "failing" /\ init = a => att[a].w = cur /\ ~Alive(cur)
    /\ \A w \in Workers : Alive(w) => w = cur

OneStart == overlap \/ Single

(* The file lock of the database is a living worker's, and every worker that *)
(* configures or is up holds it.                                             *)
LockHeld == /\ lock # None => proc[lock].st # "none"
            /\ \A w \in Workers : proc[w].st \in {"configure", "up"} => lock = w

(* A Host that is down has no start, no restart and no running worker.       *)
DownIdle == host = "down" => /\ \A w \in Workers : ~Alive(w)
                             /\ \A a \in Attempts : att[a].pc = "none"
                             /\ cur = None /\ init = None /\ rs = NoRestart

(* What is handed over, or waits to be, goes to a worker that came up.       *)
HandUp == /\ hand = NoHand \/ (hand.w \in Workers /\ hand.pc # "idle" /\ proc[hand.w].st \in {"up", "closing"})
          /\ retry # None => proc[retry].st \in {"up", "closing"}

(* One start waits for each worker.                                          *)
OneEach ==
    /\ \A a \in Attempts : att[a].pc = "init" => att[a].w \in Workers /\ proc[att[a].w].st # "idle"
    /\ \A a, b \in Attempts :
          att[a].pc = "init" /\ att[b].pc = "init" /\ att[a].w = att[b].w => a = b

(* A lease left behind and not accounted for yet, a folded one the plugin has *)
(* not counted yet.                                                          *)
Inside == IF span = None THEN 0 ELSE span.inside
LeftBehind == (lease /\ lock = None) \/ \E w \in Workers : proc[w].st = "configure" /\ proc[w].found
Uncounted == \E a \in Attempts : att[a].pc = "init" /\ proc[att[a].w].st = "up" /\ proc[att[a].w].folded

(* Each of them is of an end from outside not counted yet, or of a worker that *)
(* exited by itself: then the span is open, and the plugin knows.            *)
LeftTrue == /\ LeftBehind => span # None \/ stops < kills
            /\ LeftBehind \/ Uncounted => exited \/ Inside < kills + ends

(* The types these parts need.                                               *)
KeyTypes ==
    /\ att \in [Attempts -> Start] /\ proc \in [Workers -> Worker] /\ rs \in Rs /\ hand \in Hand
    /\ cur \in Workers \cup {None} /\ init \in Attempts \cup {None, "done"}
    /\ retry \in Workers \cup {None} /\ lock \in Workers \cup {None}
    /\ span \in Spans \cup {None} /\ kills \in Nat /\ ends \in Nat /\ stops \in Nat
    /\ lease \in BOOLEAN /\ exited \in BOOLEAN
    /\ None \notin Workers /\ None \notin Attempts /\ None # "done" /\ "done" \notin Attempts

LEMMA KeyTypesHold == TypeOK => KeyTypes
BY WorkerStartsAssumption DEF TypeOK, KeyTypes, PluginTypes, WorkerTypes, HandTypes, FileTypes, SeenTypes

(* The call goes out to a worker that is new, or the start is cut.           *)
LEMMA InitializeIs ==
    ASSUME KeyTypes, NEW a \in Attempts, Initialize(a)
    PROVE  /\ att[a].pc = "spawned"
           /\ \A b \in Attempts : b # a => att'[b] = att[b]
           /\ \/ /\ cur \in Workers /\ proc[cur].st = "idle" /\ att'[a].pc = "init" /\ att'[a].w = cur
                 /\ proc'[cur].st = "lock" /\ proc'[cur].folded = proc[cur].folded
                 /\ \A v \in Workers : v # cur => proc'[v] = proc[v]
              \/ att'[a].pc = "cut" /\ proc' = proc
<1>1. att[a] \in Start  BY DEF KeyTypes
<1>2. CASE cur # None /\ proc[cur].st = "idle"
  <2>1. /\ att' = [att EXCEPT ![a] = [att[a] EXCEPT !.pc = "init", !.w = cur]]
        /\ proc' = [proc EXCEPT ![cur] = [proc[cur] EXCEPT !.st = "lock"]]
        /\ cur \in Workers /\ att[a].pc = "spawned"
    BY <1>2 DEF Initialize, KeyTypes
  <2>2. proc[cur] \in Worker  BY <2>1 DEF KeyTypes
  <2>3. /\ [proc[cur] EXCEPT !.st = "lock"].st = "lock"
        /\ [proc[cur] EXCEPT !.st = "lock"].folded = proc[cur].folded
    BY <2>2 DEF Worker
  <2>4. /\ [att[a] EXCEPT !.pc = "init", !.w = cur].pc = "init"
        /\ [att[a] EXCEPT !.pc = "init", !.w = cur].w = cur
    BY <1>1 DEF Start
  <2> QED BY <1>2, <2>1, <2>3, <2>4 DEF KeyTypes
<1>3. CASE ~(cur # None /\ proc[cur].st = "idle")
  <2>1. att' = [att EXCEPT ![a] = [att[a] EXCEPT !.pc = "cut"]] /\ proc' = proc /\ att[a].pc = "spawned"
    BY <1>3 DEF Initialize
  <2>2. [att[a] EXCEPT !.pc = "cut"].pc = "cut"  BY <1>1 DEF Start
  <2> QED BY <2>1, <2>2 DEF KeyTypes
<1> QED BY <1>2, <1>3


(* No action begins a start beside a running worker, but one that overlaps.  *)
LEMMA OneStartNext ==
    ASSUME TypeOK, OneStart, DownIdle, [Next]_vars
    PROVE  OneStart'
<1>1. KeyTypes  BY KeyTypesHold
<1> USE DEF KeyTypes, OneStart, DownIdle, Single, Live, Gone, Alive, Up, Closing, Settled, Begin, Overlaps, FreeSlots, NewStart, Unused, NoAttempt, NoRestart, Restart, NoWorker, Vanish, Ask, Abandoned, Forget, Cleared, plugin, workers, handing, files, told_, observed, asking, Start, Worker, Rs, Hand
<1>2. ASSUME NEW w \in Workers, Close(w) PROVE OneStart'
  BY <1>1, <1>2 DEF Close
<1>3. ASSUME NEW w \in Workers, WorkerExits(w) PROVE OneStart'
  BY <1>1, <1>3 DEF WorkerExits
<1>4. ASSUME NEW w \in Workers, Acquire(w) PROVE OneStart'
  BY <1>1, <1>4 DEF Acquire
<1>5. ASSUME NEW w \in Workers, Configure(w) PROVE OneStart'
  BY <1>1, <1>5 DEF Configure
<1>6. ASSUME NEW w \in Workers, InitializeFails(w) PROVE OneStart'
  BY <1>1, <1>6 DEF InitializeFails
<1>7. ASSUME NEW w \in Workers, AskRestart(w) PROVE OneStart'
  BY <1>1, <1>7 DEF AskRestart
<1>8. ASSUME NEW a \in Attempts, Spawn(a) PROVE OneStart'
  BY <1>1, <1>8 DEF Spawn
<1>9. ASSUME NEW a \in Attempts, Initialize(a) PROVE OneStart'
  <2>1. UNCHANGED <<cur, init, rs, overlap>>  BY <1>9 DEF Initialize
  <2>2. /\ \A b \in Attempts : Live(b)' <=> Live(b)
        /\ \A b \in Attempts : att'[b].pc = "pre" => att[b].pc = "pre"
        /\ \A b \in Attempts : att'[b].pc = "failing" => att[b].pc = "failing" /\ att'[b].w = att[b].w
    <3>1. \A b \in Attempts : b # a => att'[b] = att[b]  BY <1>1, <1>9, InitializeIs
    <3>2. att[a].pc = "spawned" /\ att'[a].pc \in {"init", "cut"}  BY <1>1, <1>9, InitializeIs
    <3> QED BY <3>1, <3>2
  <2>3. \A v \in Workers : proc'[v] = proc[v] \/ (v = cur /\ proc[v].st = "idle" /\ proc'[v].st = "lock")
    <3> QED BY <1>1, <1>9, InitializeIs
  <2>4. /\ Gone(cur)' <=> Gone(cur)
        /\ \A v \in Workers \cup {None} : Alive(v)' <=> Alive(v)
    BY <1>1, <2>1, <2>3
  <2> HIDE DEF Live, Gone, Alive
  <2> QED BY <1>1, <2>1, <2>2, <2>4
<1>10. ASSUME NEW a \in Attempts, Initialized(a) PROVE OneStart'
  BY <1>1, <1>10 DEF Initialized
<1>11. ASSUME NEW a \in Attempts, StartCompletes(a) PROVE OneStart'
  <2>1. /\ att' = [att EXCEPT ![a] = NoAttempt] /\ init' = IF init = a THEN "done" ELSE init
        /\ att[a].pc = "late" /\ UNCHANGED <<cur, proc, overlap>>
    BY <1>11 DEF StartCompletes
  <2>2. rs'.pc = "dispose" => rs' = rs
    BY <1>11 DEF StartCompletes
  <2>3. \A b \in Attempts : att'[b] = IF b = a THEN NoAttempt ELSE att[b]  BY <1>1, <2>1
  <2>4. \A b \in Attempts : att'[b].pc # "none" => b # a /\ att'[b] = att[b]  BY <2>3
  <2>6. CASE ~overlap
    <3>1. Single /\ Live(a)  BY <2>1, <2>6
    <3>2. init = a /\ \A b \in Attempts : att'[b].pc \in {"none", "failing"}  BY <2>4, <3>1
    <3>3. \A b \in Attempts : att'[b].pc = "failing" => att[b].pc = "failing"  BY <2>4
    <3>4. ~(init' = None)  BY <1>1, <2>1, <3>2
    <3>5. rs'.pc = "dispose" => rs'.w = cur /\ ~Alive(cur)  BY <2>2, <3>1
    <3> QED BY <1>1, <2>1, <3>1, <3>2, <3>4, <3>5
  <2> QED BY <2>1, <2>6
<1>12. ASSUME NEW a \in Attempts, AttemptFails(a) PROVE OneStart'
  BY <1>1, <1>12 DEF AttemptFails
<1>13. ASSUME NEW a \in Attempts, AttemptEnds(a) PROVE OneStart'
  BY <1>1, <1>13 DEF AttemptEnds
<1>14. ASSUME StartTick PROVE OneStart'
  <2>1. CASE Begin(0)
    <3>1. /\ Slot \in Attempts /\ att[Slot].pc = "none" /\ init = None
          /\ att' = [att EXCEPT ![Slot] = NewStart(0)] /\ init' = Slot
          /\ overlap' = (overlap \/ Overlaps(Slot)) /\ UNCHANGED <<cur, rs, proc>>
      BY <1>14, <2>1, BeginTypes DEF StartTick, TypeOK
    <3> QED BY <1>1, <3>1
  <2>2. CASE UNCHANGED <<att, init, overlap>>
    <3>1. UNCHANGED <<cur, rs, proc>>  BY <1>14 DEF StartTick
    <3> QED BY <2>2, <3>1
  <2> QED BY <1>14, <2>1, <2>2 DEF StartTick
<1>15. ASSUME RestartTick PROVE OneStart'
  BY <1>1, <1>15 DEF RestartTick
<1>16. ASSUME RestartDisposes PROVE OneStart'
  BY <1>1, <1>16 DEF RestartDisposes
<1>17. ASSUME RestartStarts PROVE OneStart'
  BY <1>1, <1>17 DEF RestartStarts
<1>18. ASSUME ReadyCalled PROVE OneStart'
  BY <1>1, <1>18 DEF ReadyCalled
<1>19. ASSUME ApplySettings PROVE OneStart'
  BY <1>1, <1>19 DEF ApplySettings
<1>20. ASSUME WorkerWrites PROVE OneStart'
  BY <1>1, <1>20 DEF WorkerWrites
<1>21. ASSUME WorkerRefuses PROVE OneStart'
  BY <1>1, <1>21 DEF WorkerRefuses
<1>22. ASSUME HandAnswered PROVE OneStart'
  BY <1>1, <1>22 DEF HandAnswered
<1>23. ASSUME HandTick PROVE OneStart'
  BY <1>1, <1>23 DEF HandTick
<1>24. ASSUME HostEnds PROVE OneStart'
  BY <1>1, <1>24 DEF HostEnds
<1>25. ASSUME HostStops PROVE OneStart'
  BY <1>1, <1>25 DEF HostStops
<1>26. ASSUME HostKilled PROVE OneStart'
  BY <1>1, <1>26 DEF HostKilled
<1>27. ASSUME HostStarts PROVE OneStart'
  BY <1>1, <1>27 DEF HostStarts
<1>28. ASSUME UNCHANGED vars PROVE OneStart'
  BY <1>28 DEF vars
<1> QED BY <1>2, <1>3, <1>4, <1>5, <1>6, <1>7, <1>8, <1>9, <1>10, <1>11, <1>12, <1>13, <1>14, <1>15, <1>16, <1>17, <1>18, <1>19, <1>20, <1>21, <1>22, <1>23, <1>24, <1>25, <1>26, <1>27, <1>28 DEF Next, WorkerStep, AttemptStep, RestartStep, HandStep, HostStep

(* What a Host that is down does not have, it gets by its next start only.   *)
LEMMA DownIdleNext ==
    ASSUME TypeOK, DownIdle, [Next]_vars
    PROVE  DownIdle'
<1>1. KeyTypes  BY KeyTypesHold
<1> USE DEF KeyTypes, DownIdle, Gone, Alive, Up, Closing, Begin, FreeSlots, NewStart, NoAttempt, NoRestart, Restart, NoWorker, Vanish, Ask, Abandoned, Forget, Cleared, plugin, workers, handing, files, told_, observed, asking, Start, Worker, Rs, Hand
<1>2. ASSUME NEW w \in Workers, Close(w) PROVE DownIdle'
  BY <1>1, <1>2 DEF Close
<1>3. ASSUME NEW w \in Workers, WorkerExits(w) PROVE DownIdle'
  BY <1>1, <1>3 DEF WorkerExits
<1>4. ASSUME NEW w \in Workers, Acquire(w) PROVE DownIdle'
  BY <1>1, <1>4 DEF Acquire
<1>5. ASSUME NEW w \in Workers, Configure(w) PROVE DownIdle'
  BY <1>1, <1>5 DEF Configure
<1>6. ASSUME NEW w \in Workers, InitializeFails(w) PROVE DownIdle'
  BY <1>1, <1>6 DEF InitializeFails
<1>7. ASSUME NEW w \in Workers, AskRestart(w) PROVE DownIdle'
  BY <1>1, <1>7 DEF AskRestart
<1>8. ASSUME NEW a \in Attempts, Spawn(a) PROVE DownIdle'
  BY <1>1, <1>8 DEF Spawn
<1>9. ASSUME NEW a \in Attempts, Initialize(a) PROVE DownIdle'
  BY <1>1, <1>9 DEF Initialize
<1>10. ASSUME NEW a \in Attempts, Initialized(a) PROVE DownIdle'
  BY <1>1, <1>10 DEF Initialized
<1>11. ASSUME NEW a \in Attempts, StartCompletes(a) PROVE DownIdle'
  BY <1>1, <1>11 DEF StartCompletes
<1>12. ASSUME NEW a \in Attempts, AttemptFails(a) PROVE DownIdle'
  <2>1. att[a].pc # "none"  BY <1>12 DEF AttemptFails, Fails
  <2>2. host' = host  BY <1>12 DEF AttemptFails
  <2> QED BY <2>1, <2>2
<1>13. ASSUME NEW a \in Attempts, AttemptEnds(a) PROVE DownIdle'
  BY <1>1, <1>13 DEF AttemptEnds
<1>14. ASSUME StartTick PROVE DownIdle'
  BY <1>1, <1>14 DEF StartTick
<1>15. ASSUME RestartTick PROVE DownIdle'
  BY <1>1, <1>15 DEF RestartTick
<1>16. ASSUME RestartDisposes PROVE DownIdle'
  BY <1>1, <1>16 DEF RestartDisposes
<1>17. ASSUME RestartStarts PROVE DownIdle'
  BY <1>1, <1>17 DEF RestartStarts
<1>18. ASSUME ReadyCalled PROVE DownIdle'
  BY <1>1, <1>18 DEF ReadyCalled
<1>19. ASSUME ApplySettings PROVE DownIdle'
  BY <1>1, <1>19 DEF ApplySettings
<1>20. ASSUME WorkerWrites PROVE DownIdle'
  BY <1>1, <1>20 DEF WorkerWrites
<1>21. ASSUME WorkerRefuses PROVE DownIdle'
  BY <1>1, <1>21 DEF WorkerRefuses
<1>22. ASSUME HandAnswered PROVE DownIdle'
  BY <1>1, <1>22 DEF HandAnswered
<1>23. ASSUME HandTick PROVE DownIdle'
  BY <1>1, <1>23 DEF HandTick
<1>24. ASSUME HostEnds PROVE DownIdle'
  BY <1>1, <1>24 DEF HostEnds
<1>25. ASSUME HostStops PROVE DownIdle'
  BY <1>1, <1>25 DEF HostStops
<1>26. ASSUME HostKilled PROVE DownIdle'
  BY <1>1, <1>26 DEF HostKilled
<1>27. ASSUME HostStarts PROVE DownIdle'
  BY <1>1, <1>27 DEF HostStarts
<1>28. ASSUME UNCHANGED vars PROVE DownIdle'
  BY <1>28 DEF vars
<1> QED BY <1>2, <1>3, <1>4, <1>5, <1>6, <1>7, <1>8, <1>9, <1>10, <1>11, <1>12, <1>13, <1>14, <1>15, <1>16, <1>17, <1>18, <1>19, <1>20, <1>21, <1>22, <1>23, <1>24, <1>25, <1>26, <1>27, <1>28 DEF Next, WorkerStep, AttemptStep, RestartStep, HandStep, HostStep

(* The lock follows its worker.                                              *)
LEMMA LockHeldNext ==
    ASSUME TypeOK, LockHeld, [Next]_vars
    PROVE  LockHeld'
<1>1. KeyTypes  BY KeyTypesHold
<1> USE DEF KeyTypes, LockHeld, Alive, Up, Closing, NoWorker, Vanish, Abandoned, Forget, Unused, NoHand, plugin, workers, handing, files, told_, observed, asking, Start, Worker, Rs, Hand
<1>2. ASSUME NEW w \in Workers, Close(w) PROVE LockHeld'
  BY <1>1, <1>2 DEF Close
<1>3. ASSUME NEW w \in Workers, WorkerExits(w) PROVE LockHeld'
  BY <1>1, <1>3 DEF WorkerExits
<1>4. ASSUME NEW w \in Workers, Acquire(w) PROVE LockHeld'
  BY <1>1, <1>4 DEF Acquire
<1>5. ASSUME NEW w \in Workers, Configure(w) PROVE LockHeld'
  BY <1>1, <1>5 DEF Configure
<1>6. ASSUME NEW w \in Workers, InitializeFails(w) PROVE LockHeld'
  BY <1>1, <1>6 DEF InitializeFails
<1>7. ASSUME NEW w \in Workers, AskRestart(w) PROVE LockHeld'
  BY <1>1, <1>7 DEF AskRestart
<1>8. ASSUME NEW a \in Attempts, Spawn(a) PROVE LockHeld'
  BY <1>1, <1>8 DEF Spawn
<1>9. ASSUME NEW a \in Attempts, Initialize(a) PROVE LockHeld'
  <2>1. UNCHANGED lock  BY <1>9 DEF Initialize
  <2> QED BY <1>1, <1>9, <2>1, InitializeIs
<1>10. ASSUME NEW a \in Attempts, Initialized(a) PROVE LockHeld'
  BY <1>1, <1>10 DEF Initialized
<1>11. ASSUME NEW a \in Attempts, StartCompletes(a) PROVE LockHeld'
  BY <1>1, <1>11 DEF StartCompletes
<1>12. ASSUME NEW a \in Attempts, AttemptFails(a) PROVE LockHeld'
  BY <1>1, <1>12 DEF AttemptFails
<1>13. ASSUME NEW a \in Attempts, AttemptEnds(a) PROVE LockHeld'
  BY <1>1, <1>13 DEF AttemptEnds
<1>14. ASSUME StartTick PROVE LockHeld'
  BY <1>1, <1>14 DEF StartTick
<1>15. ASSUME RestartTick PROVE LockHeld'
  BY <1>1, <1>15 DEF RestartTick
<1>16. ASSUME RestartDisposes PROVE LockHeld'
  BY <1>1, <1>16 DEF RestartDisposes
<1>17. ASSUME RestartStarts PROVE LockHeld'
  BY <1>1, <1>17 DEF RestartStarts
<1>18. ASSUME ReadyCalled PROVE LockHeld'
  BY <1>1, <1>18 DEF ReadyCalled
<1>19. ASSUME ApplySettings PROVE LockHeld'
  BY <1>1, <1>19 DEF ApplySettings
<1>20. ASSUME WorkerWrites PROVE LockHeld'
  BY <1>1, <1>20 DEF WorkerWrites
<1>21. ASSUME WorkerRefuses PROVE LockHeld'
  BY <1>1, <1>21 DEF WorkerRefuses
<1>22. ASSUME HandAnswered PROVE LockHeld'
  BY <1>1, <1>22 DEF HandAnswered
<1>23. ASSUME HandTick PROVE LockHeld'
  BY <1>1, <1>23 DEF HandTick
<1>24. ASSUME HostEnds PROVE LockHeld'
  BY <1>1, <1>24 DEF HostEnds
<1>25. ASSUME HostStops PROVE LockHeld'
  BY <1>1, <1>25 DEF HostStops
<1>26. ASSUME HostKilled PROVE LockHeld'
  BY <1>1, <1>26 DEF HostKilled
<1>27. ASSUME HostStarts PROVE LockHeld'
  BY <1>1, <1>27 DEF HostStarts
<1>28. ASSUME UNCHANGED vars PROVE LockHeld'
  BY <1>28 DEF vars
<1> QED BY <1>2, <1>3, <1>4, <1>5, <1>6, <1>7, <1>8, <1>9, <1>10, <1>11, <1>12, <1>13, <1>14, <1>15, <1>16, <1>17, <1>18, <1>19, <1>20, <1>21, <1>22, <1>23, <1>24, <1>25, <1>26, <1>27, <1>28 DEF Next, WorkerStep, AttemptStep, RestartStep, HandStep, HostStep

(* A hand-over goes with its worker.                                         *)
LEMMA HandUpNext ==
    ASSUME TypeOK, HandUp, [Next]_vars
    PROVE  HandUp'
<1>1. KeyTypes  BY KeyTypesHold
<1> USE DEF KeyTypes, HandUp, Alive, Up, Closing, NoWorker, Vanish, Abandoned, Forget, Unused, Next_, HandEnds, HandRestarts, HandSpan, NoHand, plugin, workers, handing, files, told_, observed, asking, Start, Worker, Rs, Hand
<1>2. ASSUME NEW w \in Workers, Close(w) PROVE HandUp'
  BY <1>1, <1>2 DEF Close
<1>3. ASSUME NEW w \in Workers, WorkerExits(w) PROVE HandUp'
  BY <1>1, <1>3 DEF WorkerExits
<1>4. ASSUME NEW w \in Workers, Acquire(w) PROVE HandUp'
  BY <1>1, <1>4 DEF Acquire
<1>5. ASSUME NEW w \in Workers, Configure(w) PROVE HandUp'
  BY <1>1, <1>5 DEF Configure
<1>6. ASSUME NEW w \in Workers, InitializeFails(w) PROVE HandUp'
  BY <1>1, <1>6 DEF InitializeFails
<1>7. ASSUME NEW w \in Workers, AskRestart(w) PROVE HandUp'
  BY <1>1, <1>7 DEF AskRestart
<1>8. ASSUME NEW a \in Attempts, Spawn(a) PROVE HandUp'
  BY <1>1, <1>8 DEF Spawn
<1>9. ASSUME NEW a \in Attempts, Initialize(a) PROVE HandUp'
  BY <1>1, <1>9 DEF Initialize
<1>10. ASSUME NEW a \in Attempts, Initialized(a) PROVE HandUp'
  BY <1>1, <1>10 DEF Initialized
<1>11. ASSUME NEW a \in Attempts, StartCompletes(a) PROVE HandUp'
  BY <1>1, <1>11 DEF StartCompletes
<1>12. ASSUME NEW a \in Attempts, AttemptFails(a) PROVE HandUp'
  BY <1>1, <1>12 DEF AttemptFails
<1>13. ASSUME NEW a \in Attempts, AttemptEnds(a) PROVE HandUp'
  BY <1>1, <1>13 DEF AttemptEnds
<1>14. ASSUME StartTick PROVE HandUp'
  BY <1>1, <1>14 DEF StartTick
<1>15. ASSUME RestartTick PROVE HandUp'
  BY <1>1, <1>15 DEF RestartTick
<1>16. ASSUME RestartDisposes PROVE HandUp'
  BY <1>1, <1>16 DEF RestartDisposes
<1>17. ASSUME RestartStarts PROVE HandUp'
  BY <1>1, <1>17 DEF RestartStarts
<1>18. ASSUME ReadyCalled PROVE HandUp'
  BY <1>1, <1>18 DEF ReadyCalled
<1>19. ASSUME ApplySettings PROVE HandUp'
  BY <1>1, <1>19 DEF ApplySettings
<1>20. ASSUME WorkerWrites PROVE HandUp'
  BY <1>1, <1>20 DEF WorkerWrites
<1>21. ASSUME WorkerRefuses PROVE HandUp'
  BY <1>1, <1>21 DEF WorkerRefuses
<1>22. ASSUME HandAnswered PROVE HandUp'
  BY <1>1, <1>22 DEF HandAnswered
<1>23. ASSUME HandTick PROVE HandUp'
  BY <1>1, <1>23 DEF HandTick
<1>24. ASSUME HostEnds PROVE HandUp'
  BY <1>1, <1>24 DEF HostEnds
<1>25. ASSUME HostStops PROVE HandUp'
  BY <1>1, <1>25 DEF HostStops
<1>26. ASSUME HostKilled PROVE HandUp'
  BY <1>1, <1>26 DEF HostKilled
<1>27. ASSUME HostStarts PROVE HandUp'
  BY <1>1, <1>27 DEF HostStarts
<1>28. ASSUME UNCHANGED vars PROVE HandUp'
  BY <1>28 DEF vars
<1> QED BY <1>2, <1>3, <1>4, <1>5, <1>6, <1>7, <1>8, <1>9, <1>10, <1>11, <1>12, <1>13, <1>14, <1>15, <1>16, <1>17, <1>18, <1>19, <1>20, <1>21, <1>22, <1>23, <1>24, <1>25, <1>26, <1>27, <1>28 DEF Next, WorkerStep, AttemptStep, RestartStep, HandStep, HostStep

(* A start waits for a worker no other start took.                           *)
LEMMA OneEachNext ==
    ASSUME TypeOK, OneEach, [Next]_vars
    PROVE  OneEach'
<1>1. KeyTypes  BY KeyTypesHold
<1> USE DEF KeyTypes, OneEach, Alive, Closing, NoAttempt, NewStart, Begin, FreeSlots, NoWorker, Unused, Vanish, Abandoned, Forget, plugin, workers, handing, files, told_, observed, asking, Start, Worker, Rs, Hand
<1>2. ASSUME NEW w \in Workers, Close(w) PROVE OneEach'
  BY <1>1, <1>2 DEF Close
<1>3. ASSUME NEW w \in Workers, WorkerExits(w) PROVE OneEach'
  BY <1>1, <1>3 DEF WorkerExits
<1>4. ASSUME NEW w \in Workers, Acquire(w) PROVE OneEach'
  BY <1>1, <1>4 DEF Acquire
<1>5. ASSUME NEW w \in Workers, Configure(w) PROVE OneEach'
  BY <1>1, <1>5 DEF Configure
<1>6. ASSUME NEW w \in Workers, InitializeFails(w) PROVE OneEach'
  BY <1>1, <1>6 DEF InitializeFails
<1>7. ASSUME NEW w \in Workers, AskRestart(w) PROVE OneEach'
  BY <1>1, <1>7 DEF AskRestart
<1>8. ASSUME NEW a \in Attempts, Spawn(a) PROVE OneEach'
  BY <1>1, <1>8 DEF Spawn
<1>9. ASSUME NEW a \in Attempts, Initialize(a) PROVE OneEach'
  <2>2. CASE proc' = proc /\ att'[a].pc = "cut"
    <3>1. \A b \in Attempts : att'[b].pc = "init" => att'[b] = att[b]
      BY <1>1, <1>9, <2>2, InitializeIs
    <3> QED BY <2>2, <3>1
  <2>3. CASE /\ cur \in Workers /\ proc[cur].st = "idle" /\ att'[a].w = cur /\ proc'[cur].st = "lock"
             /\ \A v \in Workers : v # cur => proc'[v] = proc[v]
    <3>1. ASSUME NEW b \in Attempts, att'[b].pc = "init", b # a
          PROVE  att'[b] = att[b] /\ att[b].w \in Workers /\ att[b].w # cur /\ proc'[att[b].w].st # "idle"
      <4>1. att'[b] = att[b]  BY <1>1, <1>9, <3>1, InitializeIs
      <4>2. att[b].w \in Workers /\ proc[att[b].w].st # "idle"  BY <3>1, <4>1
      <4> QED BY <2>3, <4>1, <4>2
    <3> QED BY <2>3, <3>1
  <2> QED BY <1>1, <1>9, <2>2, <2>3, InitializeIs
<1>10. ASSUME NEW a \in Attempts, Initialized(a) PROVE OneEach'
  BY <1>1, <1>10 DEF Initialized
<1>11. ASSUME NEW a \in Attempts, StartCompletes(a) PROVE OneEach'
  BY <1>1, <1>11 DEF StartCompletes
<1>12. ASSUME NEW a \in Attempts, AttemptFails(a) PROVE OneEach'
  BY <1>1, <1>12 DEF AttemptFails
<1>13. ASSUME NEW a \in Attempts, AttemptEnds(a) PROVE OneEach'
  BY <1>1, <1>13 DEF AttemptEnds
<1>14. ASSUME StartTick PROVE OneEach'
  <2>1. \A b \in Attempts : att'[b].pc = "init" => att'[b] = att[b]
    <3>1. CASE Begin(0)
      <4>1. Slot \in Attempts /\ att' = [att EXCEPT ![Slot] = NewStart(0)]
        BY <1>14, <3>1, BeginTypes DEF TypeOK
      <4> QED BY <1>1, <4>1
    <3>2. CASE UNCHANGED att
      BY <3>2
    <3> QED BY <1>14, <3>1, <3>2 DEF StartTick
  <2>2. UNCHANGED proc  BY <1>14 DEF StartTick
  <2> QED BY <2>1, <2>2
<1>15. ASSUME RestartTick PROVE OneEach'
  BY <1>1, <1>15 DEF RestartTick
<1>16. ASSUME RestartDisposes PROVE OneEach'
  BY <1>1, <1>16 DEF RestartDisposes
<1>17. ASSUME RestartStarts PROVE OneEach'
  BY <1>1, <1>17 DEF RestartStarts
<1>18. ASSUME ReadyCalled PROVE OneEach'
  BY <1>1, <1>18 DEF ReadyCalled
<1>19. ASSUME ApplySettings PROVE OneEach'
  BY <1>1, <1>19 DEF ApplySettings
<1>20. ASSUME WorkerWrites PROVE OneEach'
  BY <1>1, <1>20 DEF WorkerWrites
<1>21. ASSUME WorkerRefuses PROVE OneEach'
  BY <1>1, <1>21 DEF WorkerRefuses
<1>22. ASSUME HandAnswered PROVE OneEach'
  BY <1>1, <1>22 DEF HandAnswered
<1>23. ASSUME HandTick PROVE OneEach'
  BY <1>1, <1>23 DEF HandTick
<1>24. ASSUME HostEnds PROVE OneEach'
  BY <1>1, <1>24 DEF HostEnds
<1>25. ASSUME HostStops PROVE OneEach'
  BY <1>1, <1>25 DEF HostStops
<1>26. ASSUME HostKilled PROVE OneEach'
  BY <1>1, <1>26 DEF HostKilled
<1>27. ASSUME HostStarts PROVE OneEach'
  BY <1>1, <1>27 DEF HostStarts
<1>28. ASSUME UNCHANGED vars PROVE OneEach'
  BY <1>28 DEF vars
<1> QED BY <1>2, <1>3, <1>4, <1>5, <1>6, <1>7, <1>8, <1>9, <1>10, <1>11, <1>12, <1>13, <1>14, <1>15, <1>16, <1>17, <1>18, <1>19, <1>20, <1>21, <1>22, <1>23, <1>24, <1>25, <1>26, <1>27, <1>28 DEF Next, WorkerStep, AttemptStep, RestartStep, HandStep, HostStep

(* A stop is told or counted for an end from outside not counted before.     *)
LEMMA StopsAreOfTheHostNext ==
    ASSUME TypeOK, StopsAreOfTheHost, LeftTrue, [Next]_vars
    PROVE  StopsAreOfTheHost'
<1>1. KeyTypes  BY KeyTypesHold
<1> USE DEF KeyTypes, StopsAreOfTheHost, LeftTrue, Alive, Closing, Vanish, WentDown, Outage, StopInside, Folds, Inside, LeftBehind, Uncounted, Forget, Spans, plugin, workers, handing, files, told_, observed, asking, Start, Worker, Rs, Hand
<1>2. ASSUME NEW w \in Workers, Close(w) PROVE StopsAreOfTheHost'
  <2>1. (kills' = kills \/ kills' = kills + 1) /\ UNCHANGED <<ends, stops, span>>  BY <1>2 DEF Close
  <2>2. span # None => span.inside \in Nat /\ span.inside <= kills + ends  BY <1>1
  <2> QED BY <1>1, <2>1, <2>2
<1>3. ASSUME NEW w \in Workers, WorkerExits(w) PROVE StopsAreOfTheHost'
  BY <1>1, <1>3 DEF WorkerExits
<1>4. ASSUME NEW w \in Workers, Acquire(w) PROVE StopsAreOfTheHost'
  BY <1>1, <1>4 DEF Acquire
<1>5. ASSUME NEW w \in Workers, Configure(w) PROVE StopsAreOfTheHost'
  BY <1>1, <1>5 DEF Configure
<1>6. ASSUME NEW w \in Workers, InitializeFails(w) PROVE StopsAreOfTheHost'
  BY <1>1, <1>6 DEF InitializeFails
<1>7. ASSUME NEW w \in Workers, AskRestart(w) PROVE StopsAreOfTheHost'
  BY <1>1, <1>7 DEF AskRestart
<1>8. ASSUME NEW a \in Attempts, Spawn(a) PROVE StopsAreOfTheHost'
  BY <1>1, <1>8 DEF Spawn
<1>9. ASSUME NEW a \in Attempts, Initialize(a) PROVE StopsAreOfTheHost'
  BY <1>1, <1>9 DEF Initialize
<1>10. ASSUME NEW a \in Attempts, Initialized(a) PROVE StopsAreOfTheHost'
  <2>1. att[a].pc = "init" /\ proc[att[a].w].st = "up" /\ UNCHANGED <<kills, ends, stops>>
    BY <1>10 DEF Initialized
  <2>2. CASE proc[att[a].w].folded /\ ~exited /\ span # None
    <3>1. Inside < kills + ends /\ Inside = span.inside  BY <2>1, <2>2
    <3>2. span' = [span EXCEPT !.inside = span.inside + 1] /\ span \in Spans
      BY <1>1, <1>10, <2>2 DEF Initialized
    <3>3. span'.inside = span.inside + 1 /\ span.inside \in Nat  BY <3>2
    <3> QED BY <1>1, <2>1, <3>1, <3>3
  <2>3. CASE ~(proc[att[a].w].folded /\ ~exited /\ span # None)
    <3>1. span' = span  BY <1>10, <2>3 DEF Initialized
    <3> QED BY <2>1, <3>1
  <2> QED BY <2>2, <2>3
<1>11. ASSUME NEW a \in Attempts, StartCompletes(a) PROVE StopsAreOfTheHost'
  BY <1>1, <1>11 DEF StartCompletes
<1>12. ASSUME NEW a \in Attempts, AttemptFails(a) PROVE StopsAreOfTheHost'
  BY <1>1, <1>12 DEF AttemptFails
<1>13. ASSUME NEW a \in Attempts, AttemptEnds(a) PROVE StopsAreOfTheHost'
  BY <1>1, <1>13 DEF AttemptEnds
<1>14. ASSUME StartTick PROVE StopsAreOfTheHost'
  BY <1>1, <1>14 DEF StartTick
<1>15. ASSUME RestartTick PROVE StopsAreOfTheHost'
  BY <1>1, <1>15 DEF RestartTick
<1>16. ASSUME RestartDisposes PROVE StopsAreOfTheHost'
  BY <1>1, <1>16 DEF RestartDisposes
<1>17. ASSUME RestartStarts PROVE StopsAreOfTheHost'
  BY <1>1, <1>17 DEF RestartStarts
<1>18. ASSUME ReadyCalled PROVE StopsAreOfTheHost'
  BY <1>1, <1>18 DEF ReadyCalled
<1>19. ASSUME ApplySettings PROVE StopsAreOfTheHost'
  BY <1>1, <1>19 DEF ApplySettings
<1>20. ASSUME WorkerWrites PROVE StopsAreOfTheHost'
  BY <1>1, <1>20 DEF WorkerWrites
<1>21. ASSUME WorkerRefuses PROVE StopsAreOfTheHost'
  BY <1>1, <1>21 DEF WorkerRefuses
<1>22. ASSUME HandAnswered PROVE StopsAreOfTheHost'
  BY <1>1, <1>22 DEF HandAnswered
<1>23. ASSUME HandTick PROVE StopsAreOfTheHost'
  BY <1>1, <1>23 DEF HandTick
<1>24. ASSUME HostEnds PROVE StopsAreOfTheHost'
  <2>1. ends' = ends + 1 /\ UNCHANGED <<kills, stops, span>>  BY <1>24 DEF HostEnds
  <2>2. span # None => span.inside \in Nat /\ span.inside <= kills + ends  BY <1>1
  <2> QED BY <1>1, <2>1, <2>2
<1>25. ASSUME HostStops PROVE StopsAreOfTheHost'
  BY <1>1, <1>25 DEF HostStops
<1>26. ASSUME HostKilled PROVE StopsAreOfTheHost'
  <2>1. kills' = kills + 1 /\ UNCHANGED <<ends, stops, span>>  BY <1>26 DEF HostKilled
  <2>2. span # None => span.inside \in Nat /\ span.inside <= kills + ends  BY <1>1
  <2> QED BY <1>1, <2>1, <2>2
<1>27. ASSUME HostStarts PROVE StopsAreOfTheHost'
  BY <1>1, <1>27 DEF HostStarts
<1>28. ASSUME UNCHANGED vars PROVE StopsAreOfTheHost'
  BY <1>28 DEF vars
<1> QED BY <1>2, <1>3, <1>4, <1>5, <1>6, <1>7, <1>8, <1>9, <1>10, <1>11, <1>12, <1>13, <1>14, <1>15, <1>16, <1>17, <1>18, <1>19, <1>20, <1>21, <1>22, <1>23, <1>24, <1>25, <1>26, <1>27, <1>28 DEF Next, WorkerStep, AttemptStep, RestartStep, HandStep, HostStep

(* Every lease left behind is accounted for.                                 *)
LEMMA LeftTrueNext ==
    ASSUME TypeOK, LeftTrue, StopsAreOfTheHost, HandUp, OneEach, LockHeld, [Next]_vars
    PROVE  LeftTrue'
<1>1. KeyTypes  BY KeyTypesHold
<1> USE DEF KeyTypes, LeftTrue, Alive, Up, Closing, Vanish, WentDown, Outage, StopInside, Folds, Inside, LeftBehind, Uncounted, NoWorker, Forget, Abandoned, NoAttempt, NewStart, Begin, FreeSlots, StopsAreOfTheHost, HandUp, OneEach, LockHeld, Spans, NoHand, Unused, plugin, workers, handing, files, told_, observed, asking, Start, Worker, Rs, Hand
<1>2. ASSUME NEW w \in Workers, Close(w) PROVE LeftTrue'
  <2>1. CASE kills' = kills + 1
    <3>1. UNCHANGED <<span, ends, stops>>  BY <1>2 DEF Close
    <3>2. Inside' = Inside /\ Inside \in Nat /\ Inside <= kills + ends /\ stops <= kills  BY <1>1, <3>1
    <3> QED BY <1>1, <2>1, <3>1, <3>2
  <2>2. CASE kills' = kills
    <3>1. /\ UNCHANGED <<span, ends, stops, exited, att>> /\ proc' = [proc EXCEPT ![w] = NoWorker]
          /\ lock' = (IF lock = w THEN None ELSE lock) /\ lease' = (lease /\ lock # w)
      BY <1>1, <1>2, <2>2 DEF Close
    <3>2. LeftBehind' => LeftBehind  BY <1>1, <3>1
    <3>3. Uncounted' => Uncounted  BY <1>1, <3>1
    <3> HIDE DEF LeftBehind, Uncounted
    <3> QED BY <2>2, <3>1, <3>2, <3>3
  <2> QED BY <1>2, <2>1, <2>2 DEF Close
<1>3. ASSUME NEW w \in Workers, WorkerExits(w) PROVE LeftTrue'
  <2>1. exited' = TRUE /\ span' # None
    BY <1>1, <1>3, WentDownTypes DEF WorkerExits, TypeOK, SeenTypes, FileTypes
  <2> QED BY <2>1
<1>4. ASSUME NEW w \in Workers, Acquire(w) PROVE LeftTrue'
  <2>1. UNCHANGED <<span, exited, stops, kills, ends, att>> /\ proc[w].st = "lock"  BY <1>4 DEF Acquire
  <2>2. /\ \A v \in Workers : v # w => proc'[v] = proc[v]
        /\ \/ lock = None /\ lock' = w /\ proc'[w].st = "configure" /\ proc'[w].found = lease
           \/ lock' = lock /\ lease' = lease /\ proc'[w].st = "failed"
    <3>1. proc[w] \in Worker  BY <1>1
    <3>2. CASE lock = None
      <4>1. proc' = [proc EXCEPT ![w] = [proc[w] EXCEPT !.st = "configure", !.found = lease]] /\ lock' = w
        BY <1>4, <3>2 DEF Acquire
      <4> QED BY <1>1, <3>1, <3>2, <4>1
    <3>3. CASE lock # None
      <4>1. proc' = [proc EXCEPT ![w] = [proc[w] EXCEPT !.st = "failed"]] /\ UNCHANGED <<lock, lease>>
        BY <1>4, <3>3 DEF Acquire
      <4> QED BY <1>1, <3>1, <4>1
    <3> QED BY <3>2, <3>3
  <2>3. LeftBehind' => LeftBehind  BY <1>1, <2>1, <2>2
  <2>4. Uncounted' => Uncounted  BY <1>1, <2>1, <2>2
  <2> HIDE DEF LeftBehind, Uncounted
  <2> QED BY <2>1, <2>3, <2>4
<1>5. ASSUME NEW w \in Workers, Configure(w) PROVE LeftTrue'
  BY <1>1, <1>5 DEF Configure
<1>6. ASSUME NEW w \in Workers, InitializeFails(w) PROVE LeftTrue'
  BY <1>1, <1>6 DEF InitializeFails
<1>7. ASSUME NEW w \in Workers, AskRestart(w) PROVE LeftTrue'
  BY <1>1, <1>7 DEF AskRestart
<1>8. ASSUME NEW a \in Attempts, Spawn(a) PROVE LeftTrue'
  <2>1. UNCHANGED <<lock, lease, span, exited, stops, kills, ends>>  BY <1>8 DEF Spawn
  <2>2. \A v \in Workers : proc'[v] = proc[v] \/ (proc[v].st = "none" /\ proc'[v].st = "idle")
    BY <1>1, <1>8 DEF Spawn
  <2>3. \A b \in Attempts : att'[b].pc = "init" => att'[b] = att[b]
    BY <1>1, <1>8 DEF Spawn
  <2>4. LeftBehind' => LeftBehind
    <3>1. \A v \in Workers : proc'[v].st = "configure" => proc'[v] = proc[v]  BY <2>2
    <3> QED BY <2>1, <3>1
  <2>5. Uncounted' => Uncounted
    <3>1. \A v \in Workers : proc'[v].st = "up" => proc'[v] = proc[v]  BY <2>2
    <3> QED BY <2>3, <3>1
  <2> HIDE DEF LeftBehind, Uncounted
  <2> QED BY <2>1, <2>4, <2>5
<1>9. ASSUME NEW a \in Attempts, Initialize(a) PROVE LeftTrue'
  <2>1. UNCHANGED <<lock, lease, span, exited, stops, kills, ends>>  BY <1>9 DEF Initialize
  <2>2. LeftBehind' => LeftBehind
    <3>1. \A v \in Workers : proc'[v].st = "configure" => proc'[v] = proc[v]
      BY <1>1, <1>9, InitializeIs
    <3> QED BY <2>1, <3>1
  <2>3. ASSUME NEW b \in Attempts, att'[b].pc = "init", proc'[att'[b].w].st = "up", proc'[att'[b].w].folded
        PROVE  att[b].pc = "init" /\ proc[att[b].w].st = "up" /\ proc[att[b].w].folded
    <3>1. CASE b = a
      BY <1>1, <1>9, <2>3, <3>1, InitializeIs
    <3>2. CASE b # a
      <4>1. att'[b] = att[b]  BY <1>1, <1>9, <3>2, InitializeIs
      <4>2. att[b].w \in Workers  BY <2>3, <4>1
      <4> QED BY <1>1, <1>9, <2>3, <4>1, <4>2, InitializeIs
    <3> QED BY <3>1, <3>2
  <2>4. Uncounted' => Uncounted  BY <2>3
  <2> HIDE DEF LeftBehind, Uncounted
  <2> QED BY <2>1, <2>2, <2>4
<1>10. ASSUME NEW a \in Attempts, Initialized(a) PROVE LeftTrue'
  BY <1>1, <1>10 DEF Initialized
<1>11. ASSUME NEW a \in Attempts, StartCompletes(a) PROVE LeftTrue'
  BY <1>1, <1>11 DEF StartCompletes
<1>12. ASSUME NEW a \in Attempts, AttemptFails(a) PROVE LeftTrue'
  BY <1>1, <1>12 DEF AttemptFails
<1>13. ASSUME NEW a \in Attempts, AttemptEnds(a) PROVE LeftTrue'
  BY <1>1, <1>13 DEF AttemptEnds
<1>14. ASSUME StartTick PROVE LeftTrue'
  BY <1>1, <1>14 DEF StartTick
<1>15. ASSUME RestartTick PROVE LeftTrue'
  BY <1>1, <1>15 DEF RestartTick
<1>16. ASSUME RestartDisposes PROVE LeftTrue'
  BY <1>1, <1>16 DEF RestartDisposes
<1>17. ASSUME RestartStarts PROVE LeftTrue'
  BY <1>1, <1>17 DEF RestartStarts
<1>18. ASSUME ReadyCalled PROVE LeftTrue'
  BY <1>1, <1>18 DEF ReadyCalled
<1>19. ASSUME ApplySettings PROVE LeftTrue'
  BY <1>1, <1>19 DEF ApplySettings
<1>20. ASSUME WorkerWrites PROVE LeftTrue'
  BY <1>1, <1>20 DEF WorkerWrites
<1>21. ASSUME WorkerRefuses PROVE LeftTrue'
  BY <1>1, <1>21 DEF WorkerRefuses
<1>22. ASSUME HandAnswered PROVE LeftTrue'
  BY <1>1, <1>22 DEF HandAnswered
<1>23. ASSUME HandTick PROVE LeftTrue'
  BY <1>1, <1>23 DEF HandTick
<1>24. ASSUME HostEnds PROVE LeftTrue'
  BY <1>1, <1>24 DEF HostEnds
<1>25. ASSUME HostStops PROVE LeftTrue'
  BY <1>1, <1>25 DEF HostStops
<1>26. ASSUME HostKilled PROVE LeftTrue'
  BY <1>1, <1>26 DEF HostKilled
<1>27. ASSUME HostStarts PROVE LeftTrue'
  BY <1>1, <1>27 DEF HostStarts
<1>28. ASSUME UNCHANGED vars PROVE LeftTrue'
  BY <1>28 DEF vars
<1> QED BY <1>2, <1>3, <1>4, <1>5, <1>6, <1>7, <1>8, <1>9, <1>10, <1>11, <1>12, <1>13, <1>14, <1>15, <1>16, <1>17, <1>18, <1>19, <1>20, <1>21, <1>22, <1>23, <1>24, <1>25, <1>26, <1>27, <1>28 DEF Next, WorkerStep, AttemptStep, RestartStep, HandStep, HostStep

(* The span is removed only when it was handed over.                         *)
LEMMA SpanHandedNext ==
    ASSUME TypeOK, SpanHanded, [Next]_vars
    PROVE  SpanHanded'
<1>1. ASSUME NEW w, NEW kept, NEW files_ PROVE HandRestarts(w, kept, files_).pc # "span"
  <2> DEFINE batch == {e.at : e \in {f \in files_ : f.back}}
  <2>1. HandRestarts(w, kept, files_) = NoHand \/
        HandRestarts(w, kept, files_) = [pc |-> "restarts", w |-> w, kept |-> kept, written |-> FALSE, batch |-> batch]
    BY DEF HandRestarts, NoHand
  <2> HIDE DEF batch
  <2>2. [pc |-> "restarts", w |-> w, kept |-> kept, written |-> FALSE, batch |-> batch].pc # "span"
    OBVIOUS
  <2>3. NoHand.pc # "span"  BY DEF NoHand
  <2> QED BY <2>1, <2>2, <2>3
<1>2. ASSUME NEW w, NEW files_, HandSpan(w, files_).pc = "span" PROVE span # None
  BY <1>1, <1>2 DEF HandSpan
<1>3. NoHand.pc # "span"  BY DEF NoHand
<1>4. WentDown => span' # None
  BY WentDownTypes DEF TypeOK, FileTypes, SeenTypes
<1>5. CASE hand' = hand /\ (span' = span \/ span' = StopInside \/ WentDown)
  <2>1. span # None /\ span' = StopInside => span' # None
    <3>1. span # None => StopInside \in Spans
      BY DEF StopInside, Spans, TypeOK, FileTypes
    <3> QED BY <3>1, WorkerStartsAssumption
  <2> QED BY <1>4, <1>5, <2>1 DEF SpanHanded
<1>6. CASE hand' = NoHand \/ \E w, kept, files_ : hand' = HandRestarts(w, kept, files_)
  BY <1>1, <1>3, <1>6 DEF SpanHanded
<1>7. CASE span' = span /\ \E w, files_ : hand' = HandSpan(w, files_)
  BY <1>2, <1>7 DEF SpanHanded
<1>8. CASE hand' = [hand EXCEPT !.written = TRUE] /\ span' = span
  <2>1. hand'.pc = hand.pc  BY <1>8 DEF TypeOK, HandTypes, Hand
  <2> QED BY <1>8, <2>1 DEF SpanHanded
<1> USE DEF plugin, handing, workers, files, told_, observed, asking
<1>9. ASSUME NEW w \in Workers, Close(w) PROVE SpanHanded'
  BY <1>9, <1>5, <1>6 DEF Close, Vanish
<1>10. ASSUME NEW w \in Workers, WorkerExits(w) PROVE SpanHanded'
  BY <1>10, <1>5, <1>6 DEF WorkerExits, Vanish
<1>11. ASSUME NEW w \in Workers, Acquire(w) PROVE SpanHanded'
  BY <1>11, <1>5 DEF Acquire
<1>12. ASSUME NEW w \in Workers, Configure(w) PROVE SpanHanded'
  BY <1>12, <1>5 DEF Configure
<1>13. ASSUME NEW w \in Workers, InitializeFails(w) PROVE SpanHanded'
  BY <1>13, <1>5 DEF InitializeFails
<1>14. ASSUME NEW w \in Workers, AskRestart(w) PROVE SpanHanded'
  BY <1>14, <1>5 DEF AskRestart
<1>15. ASSUME NEW a \in Attempts, Spawn(a) PROVE SpanHanded'
  BY <1>15, <1>5 DEF Spawn
<1>16. ASSUME NEW a \in Attempts, Initialize(a) PROVE SpanHanded'
  BY <1>16, <1>5 DEF Initialize
<1>17. ASSUME NEW a \in Attempts, Initialized(a) PROVE SpanHanded'
  BY <1>17, <1>5 DEF Initialized
<1>18. ASSUME NEW a \in Attempts, StartCompletes(a) PROVE SpanHanded'
  BY <1>18, <1>7 DEF StartCompletes
<1>19. ASSUME NEW a \in Attempts, AttemptFails(a) PROVE SpanHanded'
  BY <1>19, <1>5 DEF AttemptFails
<1>20. ASSUME NEW a \in Attempts, AttemptEnds(a) PROVE SpanHanded'
  BY <1>20, <1>5 DEF AttemptEnds
<1>21. ASSUME StartTick PROVE SpanHanded'
  BY <1>21, <1>5 DEF StartTick
<1>22. ASSUME RestartTick PROVE SpanHanded'
  BY <1>22, <1>5 DEF RestartTick
<1>23. ASSUME RestartDisposes PROVE SpanHanded'
  BY <1>23, <1>5 DEF RestartDisposes
<1>24. ASSUME RestartStarts PROVE SpanHanded'
  BY <1>24, <1>5 DEF RestartStarts
<1>25. ASSUME ReadyCalled PROVE SpanHanded'
  BY <1>25, <1>5 DEF ReadyCalled
<1>26. ASSUME ApplySettings PROVE SpanHanded'
  BY <1>26, <1>5 DEF ApplySettings
<1>27. ASSUME WorkerWrites PROVE SpanHanded'
  BY <1>27, <1>8 DEF WorkerWrites
<1>28. ASSUME WorkerRefuses PROVE SpanHanded'
  BY <1>28, <1>5, <1>6 DEF WorkerRefuses, Next_, HandEnds
<1>29. ASSUME HandAnswered PROVE SpanHanded'
  BY <1>29, <1>5, <1>6 DEF HandAnswered, Next_, HandEnds
<1>30. ASSUME HandTick PROVE SpanHanded'
  BY <1>30, <1>5, <1>7 DEF HandTick
<1>31. ASSUME HostEnds PROVE SpanHanded'
  BY <1>31, <1>6 DEF HostEnds, Forget
<1>32. ASSUME HostStops PROVE SpanHanded'
  BY <1>32, <1>5 DEF HostStops
<1>33. ASSUME HostKilled PROVE SpanHanded'
  BY <1>33, <1>6 DEF HostKilled, Forget
<1>34. ASSUME HostStarts PROVE SpanHanded'
  BY <1>34, <1>5 DEF HostStarts
<1>35. ASSUME UNCHANGED vars PROVE SpanHanded'
  BY <1>35, <1>5 DEF vars
<1> QED BY <1>9, <1>10, <1>11, <1>12, <1>13, <1>14, <1>15, <1>16, <1>17, <1>18, <1>19, <1>20, <1>21, <1>22, <1>23, <1>24, <1>25, <1>26, <1>27, <1>28, <1>29, <1>30, <1>31, <1>32, <1>33, <1>34, <1>35 DEF Next, WorkerStep, AttemptStep, RestartStep, HandStep, HostStep

(* Every step keeps the types.                                               *)
LEMMA TypesNext ==
    ASSUME TypeOK, SpanHanded, [Next]_vars
    PROVE  TypeOK'
<1>1. CASE UNCHANGED vars
  BY <1>1 DEF vars, plugin, handing, workers, files, told_, observed, asking, TypeOK, PluginTypes,
     HandTypes, WorkerTypes, FileTypes, SeenTypes
<1>2. CASE Next
  BY <1>2, CloseTypes, WorkerExitsTypes, AcquireTypes, ConfigureTypes, InitializeFailsTypes, AskRestartTypes,
     SpawnTypes, InitializeTypes, InitializedTypes, StartCompletesTypes, AttemptFailsTypes, AttemptEndsTypes,
     StartTickTypes, RestartTickTypes, RestartDisposesTypes, RestartStartsTypes, ReadyCalledTypes,
     ApplySettingsTypes, WorkerWritesTypes, WorkerRefusesTypes, HandAnsweredTypes, HandTickTypes,
     HostEndsTypes, HostStopsTypes, HostKilledTypes, HostStartsTypes
     DEF Next, WorkerStep, AttemptStep, RestartStep, HandStep, HostStep
<1> QED BY <1>1, <1>2

(* The inductive invariant of the starts.                                    *)
SafeInv == /\ TypeOK /\ SpanHanded /\ OneStart /\ DownIdle /\ LockHeld /\ HandUp /\ OneEach
           /\ LeftTrue /\ StopsAreOfTheHost

(* The first start of a first Host.                                          *)
LEMMA InitSafe == Init => SafeInv
<1> SUFFICES ASSUME Init PROVE SafeInv  OBVIOUS
<1>1. FirstStart \in Attempts /\ None \notin Workers /\ None \notin Attempts /\ None # "done"
  BY WorkerStartsAssumption DEF FirstStart
<1>2. TypeOK
  <2>1. PluginTypes
    <3>1. att \in [Attempts -> Start]  BY <1>1, Blanks DEF Init
    <3> QED BY <1>1, <3>1, Blanks DEF PluginTypes, Init
  <2>2. HandTypes /\ WorkerTypes /\ FileTypes  BY Blanks DEF Init, HandTypes, WorkerTypes, FileTypes
  <2>3. SeenTypes  BY WorkerStartsAssumption DEF Init, SeenTypes
  <2> QED BY <2>1, <2>2, <2>3 DEF TypeOK
<1>3. /\ \A a \in Attempts : att[a] = IF a = FirstStart THEN NewStart(0) ELSE NoAttempt
      /\ \A w \in Workers : proc[w] = NoWorker
      /\ hand = NoHand /\ rs = NoRestart /\ init = FirstStart /\ cur = None /\ lock = None /\ lease = FALSE
      /\ host = "up" /\ span = None /\ retry = None /\ stops = 0 /\ kills = 0 /\ ends = 0
  BY <1>1 DEF Init
<1>4. /\ \A a \in Attempts : att[a].pc \in {"none", "pre"} /\ (att[a].pc = "pre" => a = FirstStart)
      /\ \A w \in Workers : proc[w].st = "none" /\ ~proc[w].found
      /\ hand.pc = "idle" /\ rs.pc = "idle"
  BY <1>3 DEF NewStart, NoAttempt, NoWorker, NoHand, NoRestart, Restart
<1>5. Single  BY <1>1, <1>3, <1>4 DEF Single, Live, Gone, Alive
<1>6. DownIdle /\ LockHeld /\ HandUp /\ OneEach /\ SpanHanded
  BY <1>3, <1>4 DEF DownIdle, LockHeld, HandUp, OneEach, SpanHanded
<1>7. LeftTrue /\ StopsAreOfTheHost
  BY <1>3, <1>4 DEF LeftTrue, LeftBehind, Uncounted, StopsAreOfTheHost
<1> QED BY <1>2, <1>5, <1>6, <1>7 DEF SafeInv, OneStart

(* Every step keeps it.                                                      *)
LEMMA StepSafe == SafeInv /\ [Next]_vars => SafeInv'
<1> SUFFICES ASSUME SafeInv, [Next]_vars PROVE SafeInv'  OBVIOUS
<1> QED BY TypesNext, SpanHandedNext, OneStartNext, DownIdleNext, LockHeldNext, HandUpNext, OneEachNext,
           LeftTrueNext, StopsAreOfTheHostNext DEF SafeInv

(* The worker that holds the lock lives; so the plugin speaks with it.       *)
LEMMA SpeaksWithTheHolder == SafeInv => NoWorkerLeftOverUnlessOverlap
<1> SUFFICES ASSUME SafeInv, ~overlap, NEW w \in Workers, lock = w, proc[w].st # "closing"
             PROVE  w = cur
  BY DEF NoWorkerLeftOverUnlessOverlap, NoWorkerLeftOver
<1>1. Alive(w)
  BY WorkerStartsAssumption DEF SafeInv, LockHeld, Alive
<1> QED BY <1>1 DEF SafeInv, OneStart, Single

(* The plugin, its workers, the files and the rows are well typed.           *)
THEOREM TypeCorrect == Spec => []TypeOK
<1>1. SafeInv => TypeOK  BY DEF SafeInv
<1> QED BY InitSafe, StepSafe, <1>1, PTL DEF Spec

(* index.js ready, restart: unless two starts overlapped, no worker keeps the *)
(* database that the plugin neither speaks with nor has asked to end, whatever *)
(* failed, exited, was slow or was cut.                                      *)
THEOREM NoneLeftOver == Spec => []NoWorkerLeftOverUnlessOverlap
<1> QED BY InitSafe, StepSafe, SpeaksWithTheHolder, PTL DEF Spec

(* ADR-101: a lease a worker left behind by its own exit is never told as a  *)
(* stop of the Host, and a span counts no more stops than there were.        *)
THEOREM StopsToldAreOfTheHost == Spec => []StopsAreOfTheHost
<1>1. SafeInv => StopsAreOfTheHost  BY DEF SafeInv
<1> QED BY InitSafe, StepSafe, <1>1, PTL DEF Spec
=============================================================================

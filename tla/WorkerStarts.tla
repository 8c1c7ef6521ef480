---------------------------- MODULE WorkerStarts ----------------------------
(***************************************************************************)
(* The Host plugin and its business worker (packages/cognition-core:        *)
(* index.js, outage.js, restart-tell.js, worker.js; native_worker.py,       *)
(* host_lease.py, host_stops.py).                                          *)
(*                                                                         *)
(* The plugin starts the worker, starts it again when a start fails or the  *)
(* worker exits, and replaces it when asked. It keeps what she is told of   *)
(* this in two files: the open span she is down, and the restarts to tell;  *)
(* a completed start hands both to its worker, which writes them as rows.   *)
(* Plugin and worker are two processes: either may end between any two      *)
(* steps, and what an await of the plugin resumes with may have changed.    *)
(*                                                                         *)
(* A start is an attempt: pre (no worker of its own yet), spawned, init     *)
(* (its initialize call is out), late (its last calls), cut, failing (it    *)
(* waits for its worker to end). `init` is the plugin's `initializing`,     *)
(* `cur` its `worker`, `rs` its `restarting`.                               *)
(***************************************************************************)
EXTENDS Integers, FiniteSets

CONSTANTS Workers,   \* slots for worker processes
          Attempts,  \* slots for starts under way
          None,
          Bounds     \* bounds: how often each disturbance may happen

Disturbances == {"exit",    \* a worker exits by itself
                 "fault",   \* a start fails
                 "refuse",  \* the worker cannot write what it is handed
                 "kill",    \* the Host process ends from outside
                 "stop",    \* it is stopped cleanly
                 "slow",    \* a worker takes longer to close than it is given
                 "ask",     \* the worker asks to be replaced
                 "apply",   \* the owner applies settings
                 "call"}    \* a call of the page waits for ready()

(* What worker-down.json holds: the outage it began with, and the stops of   *)
(* the Host inside it.                                                       *)
Spans == [since : Nat, inside : Nat]

ASSUME WorkerStartsAssumption ==
    /\ None \notin Workers \cup Attempts \cup {"done"}
    /\ None \notin Spans
    /\ Attempts # {} /\ "done" \notin Attempts
    /\ Bounds \subseteq [Disturbances -> Nat]

VARIABLES host,                      \* the Host process: up, stopping, down
          cur, init, att, rs, again, \* memory of the plugin
          timers, exited, hand, retry,
          proc, lock, lease,         \* workers, their file lock, the database lease
          span, entries,             \* files: worker-down.json, restarts-to-tell.json
          rows, told, stops,         \* rows of host_stops: worker_down, worker_restart, the others
          down, outage, asks, came,  \* observed: whether she is down, which outage, the restarts, those
          early,                     \*   of them beside which another start ran, those that came back;
          kills, ends,               \*   ends from outside, and clean ones of the Host;
          unheard, overlap,          \*   see below
          left                       \* what is left of each bound

plugin   == <<cur, init, att, rs, again>>
handing  == <<hand, retry>>
workers  == <<proc, lock, lease>>
files    == <<span, entries>>
told_    == <<rows, told, stops>>
asking   == <<asks, early>>
observed == <<down, outage, asking, came, kills, ends, unheard, overlap>>
vars     == <<host, plugin, timers, exited, handing, workers, files, told_, observed, left>>

Spend(kind) == left[kind] > 0 /\ left' = [left EXCEPT ![kind] = @ - 1]

NoWorker  == [st |-> "none", asked |-> FALSE, found |-> FALSE, folded |-> FALSE]
NoAttempt == [pc |-> "none", w |-> None, at |-> 0]
NewStart(at) == [pc |-> "pre", w |-> None, at |-> at]
NoHand    == [pc |-> "idle", w |-> None, kept |-> FALSE, written |-> FALSE, batch |-> {}]
Restart   == [pc |-> "log", at |-> 0, apply |-> "no", w |-> None, slot |-> None]
NoRestart == [Restart EXCEPT !.pc = "idle"]

Alive(w) == w # None /\ proc[w].st \notin {"none", "closing"}
Gone(w)  == w # None => proc[w].st = "none"
Up(w)    == w # None /\ proc[w].st = "up"
Unused(w) == /\ proc[w].st = "none" /\ cur # w /\ (rs = NoRestart \/ rs.w # w)
             /\ \A a \in Attempts : att[a].w # w

FirstStart == CHOOSE a \in Attempts : TRUE

Init ==
    /\ host = "up" /\ cur = None /\ init = FirstStart
    /\ att = [[a \in Attempts |-> NoAttempt] EXCEPT ![FirstStart] = NewStart(0)]
    /\ rs = NoRestart /\ again = FALSE /\ timers = {} /\ exited = FALSE /\ hand = NoHand /\ retry = None
    /\ proc = [w \in Workers |-> NoWorker] /\ lock = None /\ lease = FALSE
    /\ span = None /\ entries = {}
    /\ rows = {} /\ told = {} /\ stops = 0
    /\ down = FALSE /\ outage = 0 /\ asks = 0 /\ early = {} /\ came = {}
    /\ kills = 0 /\ ends = 0 /\ unheard = FALSE /\ overlap = FALSE
    /\ left \in Bounds

-----------------------------------------------------------------------------
(* The two files.                                                            *)

(* outage.js wentDown: the span is opened, or counts one more try. It is     *)
(* named by the outage it began with, as the file by the moment.             *)
Outage == IF down THEN outage ELSE outage + 1
WrongWentDown == /\ span' = [since |-> Outage, inside |-> 0]
                 /\ outage' = Outage /\ down' = TRUE
WentDown == /\ span' = IF span = None THEN [since |-> Outage, inside |-> 0] ELSE span
            /\ outage' = Outage /\ down' = TRUE

(* outage.js stopInside.                                                     *)
StopInside == IF span = None THEN None ELSE [span EXCEPT !.inside = @ + 1]

(* restart-tell.js cameUp: the restart that ran this start is back, any      *)
(* other without a `back` goes.                                              *)
WrongCameUp(at) == {[e EXCEPT !.back = TRUE] : e \in entries}
CameUp(at) == {[e EXCEPT !.back = TRUE] : e \in {f \in entries : f.back \/ f.at = at}}

(* restart-tell.js startFailed.                                              *)
StartFailed(at) == {e \in entries : e.at # at}

-----------------------------------------------------------------------------
(* The worker process.                                                       *)

(* worker.dispose: its input is closed; the worker ends by itself.           *)
Closing(w) == IF Alive(w) THEN [proc EXCEPT ![w].st = "closing"] ELSE proc

(* The process is gone: its file lock is free, a call it has not answered is *)
(* rejected, and with it the hand-over (cameBack returns KEPT).              *)
Vanish(w) ==
    /\ proc' = [proc EXCEPT ![w] = NoWorker]
    /\ lock' = IF lock = w THEN None ELSE lock
    /\ retry' = IF retry = w THEN None ELSE retry
    /\ IF hand.pc # "idle" /\ hand.w = w
       THEN hand' = NoHand /\ unheard' = (unheard \/ (hand.pc = "span" /\ hand.written))
       ELSE UNCHANGED <<hand, unheard>>

(* It closes what it opened, the lease last (DatabaseLease.__exit__). Past   *)
(* five seconds it is killed and leaves the lease; one whose start was cut   *)
(* may still take it.                                                        *)
Close(w) ==
    /\ proc[w].st = "closing"
    /\ Vanish(w)
    /\ \/ lease' = (lease /\ lock # w) /\ UNCHANGED <<kills, left>>
       \/ lock = w /\ lease' = TRUE /\ kills' = kills + 1 /\ Spend("slow")
    /\ UNCHANGED <<host, plugin, timers, exited, files, told_, down, outage, asking, came, ends, overlap>>

(* index.js workerFailed, for a worker nobody has asked to close: one that   *)
(* exits by itself opens the span and is started again later, unless the     *)
(* Host stops or a restart is under way.                                     *)
WorkerExits(w) ==
    /\ Alive(w) /\ Spend("exit")
    /\ Vanish(w)
    /\ exited' = TRUE
    /\ WentDown
    /\ timers' = IF host = "up" /\ rs = NoRestart THEN timers \cup {"restart"} ELSE timers
    /\ UNCHANGED <<host, plugin, lease, entries, told_, asking, came, kills, ends, overlap>>

(* native_worker.initialize: the file lock of the database, for which it     *)
(* waits two seconds, then DatabaseLease.acquire: this deployment's own      *)
(* lease, still there, is one the last worker left behind.                   *)
Acquire(w) ==
    /\ proc[w].st = "lock"
    /\ IF lock = None
       THEN /\ proc' = [proc EXCEPT ![w].st = "configure", ![w].found = lease]
            /\ lock' = w /\ lease' = TRUE
       ELSE proc' = [proc EXCEPT ![w].st = "failed"] /\ UNCHANGED <<lock, lease>>
    /\ UNCHANGED <<host, plugin, timers, exited, handing, files, told_, observed, left>>

WrongFolds(w) == FALSE
Folds(w) == proc[w].found /\ span # None

(* host_stops.left_behind: a stop, or part of the open span.                 *)
Configure(w) ==
    /\ proc[w].st = "configure"
    /\ stops' = IF proc[w].found /\ ~Folds(w) THEN stops + 1 ELSE stops
    /\ proc' = [proc EXCEPT ![w].st = "up", ![w].folded = Folds(w)]
    /\ UNCHANGED <<host, plugin, timers, exited, handing, lock, lease, files, rows, told, observed, left>>

InitializeFails(w) ==
    /\ proc[w].st = "configure"
    /\ Spend("fault")
    /\ proc' = [proc EXCEPT ![w].st = "failed"]
    /\ UNCHANGED <<host, plugin, timers, exited, handing, lock, lease, files, told_, observed>>

-----------------------------------------------------------------------------
(* index.js ready: a start.                                                  *)

FreeSlots == {a \in Attempts : att[a].pc = "none"}
Slot == CHOOSE a \in FreeSlots : TRUE

(* Two starts under way, whose next calls both go to the field `worker`.     *)
Overlaps(a) == \E b \in Attempts \ {a} : att[b].pc \notin {"none", "failing"}

(* What waited for a worker that ended has heard of it: the plugin goes on   *)
(* with it before it takes anything else.                                    *)
Settled == /\ rs.pc = "dispose" => ~Gone(rs.w)
           /\ \A a \in Attempts : /\ att[a].pc # "cut"
                                 /\ att[a].pc \in {"init", "failing"} => ~Gone(att[a].w)

Begin(at) ==
    /\ FreeSlots # {}
    /\ att' = [att EXCEPT ![Slot] = NewStart(at)]
    /\ init' = Slot
    /\ overlap' = (overlap \/ Overlaps(Slot))
    /\ early' = IF at = 0 /\ rs # NoRestart THEN early \cup {rs.at} ELSE early

Spawn(a) ==
    /\ att[a].pc = "pre" /\ Settled
    /\ \E w \in Workers : Unused(w)
    /\ cur' = CHOOSE w \in Workers : Unused(w)
    /\ proc' = [proc EXCEPT ![cur'] = [NoWorker EXCEPT !.st = "idle"]]
    /\ att' = [att EXCEPT ![a].pc = "spawned"]
    /\ UNCHANGED <<host, init, rs, again, timers, exited, handing, lock, lease, files, told_, observed, left>>

(* The call goes to the field `worker` as it is by then.                     *)
Initialize(a) ==
    /\ att[a].pc = "spawned"
    /\ IF cur # None /\ proc[cur].st = "idle"
       THEN /\ proc' = [proc EXCEPT ![cur].st = "lock"]
            /\ att' = [att EXCEPT ![a].pc = "init", ![a].w = cur]
       ELSE att' = [att EXCEPT ![a].pc = "cut"] /\ UNCHANGED proc
    /\ UNCHANGED <<host, cur, init, rs, again, timers, exited, handing, lock, lease, files, told_, observed, left>>

(* A lease folded into the span is a stop of the Host inside it, unless this *)
(* Host's own worker left it.                                                *)
Initialized(a) ==
    /\ att[a].pc = "init" /\ proc[att[a].w].st = "up"
    /\ span' = IF proc[att[a].w].folded /\ ~exited THEN StopInside ELSE span
    /\ exited' = FALSE
    /\ att' = [att EXCEPT ![a].pc = "late", ![a].w = None]
    /\ UNCHANGED <<host, cur, init, rs, again, timers, handing, workers, entries, told_, observed, left>>

(* index.js handOver, for the worker `w` and the files as they are then.     *)
HandRestarts(w, kept, files_) ==
    IF \E e \in files_ : e.back
    THEN [NoHand EXCEPT !.pc = "restarts", !.w = w, !.kept = kept,
          !.batch = {e.at : e \in {f \in files_ : f.back}}]
    ELSE NoHand
HandSpan(w, files_) ==
    IF span # None THEN [NoHand EXCEPT !.pc = "span", !.w = w]
                   ELSE HandRestarts(w, FALSE, files_)

(* What follows a restart that ended: the one asked for meanwhile, the one   *)
(* that restores the settings, or nothing.                                   *)
Ask(apply, starts) ==
    /\ rs' = [Restart EXCEPT !.at = asks + 1, !.apply = apply]
    /\ asks' = asks + 1
    /\ early' = IF \E a \in starts : att[a].pc # "none" THEN early \cup {asks + 1} ELSE early

Runs(a) == rs # NoRestart /\ rs.slot = a

StartCompletes(a) ==
    /\ att[a].pc = "late" /\ Up(cur)
    /\ LET stamped == CameUp(att[a].at)
       IN /\ hand' = HandSpan(cur, stamped)
          /\ IF Runs(a) /\ again
             THEN Ask("no", Attempts \ {a}) /\ entries' = stamped \cup {[at |-> asks + 1, back |-> FALSE]}
             ELSE /\ entries' = stamped /\ UNCHANGED asking
                  /\ rs' = IF Runs(a) THEN NoRestart ELSE rs
    /\ again' = (again /\ ~Runs(a))
    /\ came' = IF att[a].at = 0 THEN came ELSE came \cup {att[a].at}
    /\ att' = [att EXCEPT ![a] = NoAttempt]
    /\ init' = IF init = a THEN "done" ELSE init
    /\ retry' = None
    /\ down' = FALSE
    /\ UNCHANGED <<host, cur, timers, exited, workers, span, told_, outage, kills, ends, unheard, overlap, left>>

(* Its catch: whatever the field `worker` holds by then is disposed of.      *)
Fails(a) ==
    \/ att[a].pc = "cut" /\ UNCHANGED left
    \/ att[a].pc = "init" /\ proc[att[a].w].st \in {"none", "failed", "closing"} /\ UNCHANGED left
    \/ att[a].pc = "late" /\ ~Up(cur) /\ UNCHANGED left
    \/ att[a].pc \in {"pre", "late"} /\ Spend("fault")

AttemptFails(a) ==
    /\ Fails(a)
    /\ proc' = Closing(cur)
    /\ att' = [att EXCEPT ![a].pc = "failing", ![a].w = cur]
    /\ UNCHANGED <<host, cur, init, rs, again, timers, exited, handing, lock, lease, files, told_, observed>>

WrongCleared(a) == init
Cleared(a) == IF init = a THEN None ELSE init

(* Then it can be tried again, the span counts it, and a restart that ran it *)
(* is none: it is not told, and settings are restored by another.            *)
AttemptEnds(a) ==
    /\ att[a].pc = "failing" /\ Gone(att[a].w)
    /\ init' = Cleared(a)
    /\ WentDown
    /\ timers' = IF host = "up" THEN timers \cup {"start"} ELSE timers
    /\ att' = [att EXCEPT ![a] = NoAttempt]
    /\ IF Runs(a) /\ rs.apply = "apply"
       THEN Ask("restore", Attempts \ {a}) /\ entries' = StartFailed(att[a].at) \cup {[at |-> asks + 1, back |-> FALSE]}
       ELSE /\ entries' = StartFailed(att[a].at) /\ UNCHANGED asking
            /\ rs' = IF Runs(a) THEN NoRestart ELSE rs
    /\ again' = (again /\ ~Runs(a))
    /\ UNCHANGED <<host, cur, exited, handing, workers, told_, came, kills, ends, unheard, overlap, left>>

(* startAgain's timer: nothing when a start or restart is under way.         *)
StartTick ==
    /\ host = "up" /\ "start" \in timers /\ Settled
    /\ timers' = timers \ {"start"}
    /\ IF rs = NoRestart /\ init = None
       THEN Begin(0)
       ELSE UNCHANGED <<att, init, overlap, early>>
    /\ UNCHANGED <<host, cur, rs, again, exited, handing, workers, files, told_,
                   down, outage, asks, came, kills, ends, unheard, left>>

(* Any call that needs the worker begins a start when there is none.         *)
ReadyCalled ==
    /\ host = "up" /\ init = None /\ Settled /\ Spend("call")
    /\ Begin(0)
    /\ UNCHANGED <<host, cur, rs, again, timers, exited, handing, workers, files, told_,
                   down, outage, asks, came, kills, ends, unheard>>

-----------------------------------------------------------------------------
(* index.js restart: one at a time, told afterwards unless a worker failed.  *)

RestartTick ==
    /\ host = "up" /\ "restart" \in timers /\ Settled
    /\ timers' = timers \ {"restart"}
    /\ rs' = IF rs = NoRestart THEN Restart ELSE rs
    /\ UNCHANGED <<host, cur, init, att, again, exited, handing, workers, files, told_, observed, left>>

(* host.py _maybe_restart_after_publish, watch_host: once for each worker,   *)
(* after its plugin has settled its publications.                            *)
AskRestart(w) ==
    /\ proc[w].st = "up" /\ ~proc[w].asked /\ Spend("ask")
    /\ \A a \in Attempts : att[a].pc = "init" => att[a].w # w
    /\ proc' = [proc EXCEPT ![w].asked = TRUE]
    /\ IF rs = NoRestart
       THEN Ask("no", Attempts) /\ entries' = entries \cup {[at |-> asks + 1, back |-> FALSE]} /\ UNCHANGED again
       ELSE again' = TRUE /\ UNCHANGED <<rs, asking, entries>>
    /\ UNCHANGED <<host, cur, init, att, timers, exited, handing, lock, lease, span, told_,
                   down, outage, came, kills, ends, unheard, overlap>>

(* index.js applySettings: one at a time, and not while a restart is under   *)
(* way. The restart it asks for after it has validated may be one that began *)
(* since; it then takes that one for its own.                                *)
ApplySettings ==
    /\ host = "up" /\ rs.apply = "no" /\ Settled /\ Spend("apply")
    /\ IF rs = NoRestart
       THEN Ask("apply", Attempts) /\ entries' = entries \cup {[at |-> asks + 1, back |-> FALSE]}
       ELSE rs' = [rs EXCEPT !.apply = "apply"] /\ UNCHANGED <<asking, entries>>
    /\ UNCHANGED <<host, cur, init, att, again, timers, exited, handing, workers, span, told_,
                   down, outage, came, kills, ends, unheard, overlap>>

(* The log is written; the worker, if one runs, is asked to end.             *)
RestartDisposes ==
    /\ rs.pc = "log" /\ ~Gone(cur)
    /\ proc' = Closing(cur)
    /\ rs' = [rs EXCEPT !.pc = "dispose", !.w = cur]
    /\ UNCHANGED <<host, cur, init, att, again, timers, exited, handing, lock, lease, files, told_, observed, left>>

WrongRestartStarts ==
    /\ \/ rs.pc = "log" /\ Settled
       \/ rs.pc = "dispose" /\ Gone(rs.w)
    /\ Begin(rs.at)
    /\ rs' = [rs EXCEPT !.pc = "start", !.w = None, !.slot = Slot]
    /\ UNCHANGED <<host, cur, again, timers, exited, handing, workers, files, told_,
                   down, outage, asks, came, kills, ends, unheard, left>>
RestartStarts ==
    /\ \/ rs.pc = "log" /\ Gone(cur) /\ Settled
       \/ rs.pc = "dispose" /\ Gone(rs.w)
    /\ Begin(rs.at)
    /\ rs' = [rs EXCEPT !.pc = "start", !.w = None, !.slot = Slot]
    /\ UNCHANGED <<host, cur, again, timers, exited, handing, workers, files, told_,
                   down, outage, asks, came, kills, ends, unheard, left>>

-----------------------------------------------------------------------------
(* The hand-over, beside a completed start.                                  *)

(* host_stops.worker_down and restarted: a row each, named by the span or    *)
(* the restart, and written once. It says she was down until now.            *)
WorkerWrites ==
    /\ hand # NoHand /\ ~hand.written /\ Alive(hand.w)
    /\ hand' = [hand EXCEPT !.written = TRUE]
    /\ IF hand.pc = "span"
       THEN /\ rows' = IF \E r \in rows : r.since = span.since THEN rows
                       ELSE rows \cup {[since |-> span.since, upto |-> outage]}
            /\ UNCHANGED told
       ELSE told' = told \cup hand.batch /\ UNCHANGED rows
    /\ UNCHANGED <<host, plugin, timers, exited, retry, workers, files, stops, observed, left>>

(* What follows the restarts: another try later, while this worker runs.     *)
HandEnds(kept) ==
    /\ hand' = NoHand
    /\ retry' = IF kept /\ cur = hand.w THEN cur ELSE retry

Next_(kept) ==
    LET rest == HandRestarts(hand.w, kept, entries)
    IN IF hand.pc = "span" /\ rest # NoHand THEN hand' = rest /\ UNCHANGED retry ELSE HandEnds(kept)

(* The worker answers an error: nothing is lost.                             *)
WorkerRefuses ==
    /\ hand # NoHand /\ ~hand.written /\ Alive(hand.w) /\ Spend("refuse")
    /\ Next_(TRUE)
    /\ UNCHANGED <<host, plugin, timers, exited, workers, files, told_, observed>>

WrongKept(batch) == {}
Kept(batch) == {e \in entries : e.at \notin batch}

(* It answers: the file goes, or those it recorded leave it.                 *)
HandAnswered ==
    /\ hand # NoHand /\ hand.written /\ Alive(hand.w)
    /\ Next_(hand.kept)
    /\ IF hand.pc = "span" THEN span' = None /\ UNCHANGED entries
                           ELSE entries' = Kept(hand.batch) /\ UNCHANGED span
    /\ UNCHANGED <<host, plugin, timers, exited, workers, told_, observed, left>>

HandTick ==
    /\ host = "up" /\ retry # None
    /\ retry' = None
    /\ hand' = IF retry = cur /\ Alive(cur) THEN HandSpan(cur, entries) ELSE hand
    /\ UNCHANGED <<host, plugin, timers, exited, workers, files, told_, observed, left>>

-----------------------------------------------------------------------------
(* The Host process.                                                         *)

Forget ==
    /\ cur' = None /\ init' = None /\ att' = [a \in Attempts |-> NoAttempt]
    /\ rs' = NoRestart /\ again' = FALSE /\ timers' = {} /\ exited' = FALSE /\ hand' = NoHand /\ retry' = None
    /\ unheard' = (unheard \/ (hand.pc = "span" /\ hand.written))

(* A worker whose Host is gone finds its input closed.                       *)
Abandoned == [w \in Workers |-> IF proc[w].st = "none" THEN NoWorker
                                ELSE [NoWorker EXCEPT !.st = "closing"]]

(* index.js dispose: no timer, no watch, and the worker ends first.          *)
HostStops ==
    /\ host = "up" /\ Spend("stop")
    /\ host' = "stopping"
    /\ timers' = {} /\ retry' = None
    /\ proc' = Closing(cur)
    /\ UNCHANGED <<plugin, exited, hand, lock, lease, files, told_, observed>>

HostEnds ==
    /\ host = "stopping" /\ \A w \in Workers : proc[w].st # "closing"
    /\ host' = "down"
    /\ Forget
    /\ proc' = Abandoned
    /\ ends' = ends + 1
    /\ UNCHANGED <<lock, lease, files, told_, down, outage, asking, came, kills, overlap, left>>

(* Ended from outside: with its workers, or they find their input closed.    *)
HostKilled ==
    /\ host = "up" /\ Spend("kill")
    /\ host' = "down" /\ kills' = kills + 1
    /\ Forget
    /\ \/ proc' = [w \in Workers |-> NoWorker] /\ lock' = None
       \/ proc' = Abandoned /\ UNCHANGED lock
    /\ UNCHANGED <<lease, files, told_, down, outage, asking, came, ends, overlap>>

HostStarts ==
    /\ host = "down"
    /\ host' = "up"
    /\ init' = FirstStart
    /\ att' = [att EXCEPT ![FirstStart] = NewStart(0)]
    /\ UNCHANGED <<cur, rs, again, timers, exited, handing, workers, files, told_, observed, left>>

-----------------------------------------------------------------------------
WorkerStep(w)  == Close(w) \/ Acquire(w) \/ Configure(w)
AttemptStep(a) == Spawn(a) \/ Initialize(a) \/ Initialized(a) \/ StartCompletes(a)
                  \/ AttemptFails(a) \/ AttemptEnds(a)
RestartStep == RestartDisposes \/ RestartStarts
HandStep   == WorkerWrites \/ HandAnswered
HostStep   == HostEnds \/ HostStarts

Next == \/ \E w \in Workers : WorkerStep(w) \/ WorkerExits(w) \/ InitializeFails(w) \/ AskRestart(w)
        \/ \E a \in Attempts : AttemptStep(a)
        \/ StartTick \/ RestartTick \/ RestartStep \/ ReadyCalled \/ ApplySettings
        \/ HandStep \/ WorkerRefuses \/ HandTick
        \/ HostStep \/ HostStops \/ HostKilled

Spec == Init /\ [][Next]_vars

(* Every process goes on, timers run out, and the supervisor starts the      *)
(* Host again (module Restarts).                                             *)
Fairness ==
    /\ \A w \in Workers : WF_vars(WorkerStep(w))
    /\ \A a \in Attempts : WF_vars(AttemptStep(a))
    /\ WF_vars(StartTick) /\ WF_vars(RestartTick) /\ WF_vars(RestartStep)
    /\ WF_vars(HandStep) /\ WF_vars(HandTick) /\ WF_vars(HostStep)

LiveSpec == Spec /\ Fairness

-----------------------------------------------------------------------------
Worker == [st : {"none", "idle", "lock", "configure", "up", "failed", "closing"},
           asked : BOOLEAN, found : BOOLEAN, folded : BOOLEAN]
Start  == [pc : {"none", "pre", "spawned", "init", "late", "cut", "failing"},
           w : Workers \cup {None}, at : Nat]
Hand   == [pc : {"idle", "span", "restarts"}, w : Workers \cup {None},
           kept : BOOLEAN, written : BOOLEAN, batch : SUBSET Nat]
Rs     == [pc : {"idle", "log", "dispose", "start"}, at : Nat, apply : {"no", "apply", "restore"},
           w : Workers \cup {None}, slot : Attempts \cup {None}]

PluginTypes ==
    /\ host \in {"up", "stopping", "down"} /\ timers \subseteq {"start", "restart"}
    /\ cur \in Workers \cup {None} /\ init \in Attempts \cup {None, "done"}
    /\ att \in [Attempts -> Start] /\ rs \in Rs /\ again \in BOOLEAN /\ exited \in BOOLEAN
HandTypes == hand \in Hand /\ retry \in Workers \cup {None}
WorkerTypes ==
    proc \in [Workers -> Worker] /\ lock \in Workers \cup {None} /\ lease \in BOOLEAN
FileTypes == /\ span \in Spans \cup {None} /\ entries \subseteq [at : Nat \ {0}, back : BOOLEAN]
             /\ rows \subseteq [since : Nat, upto : Nat] /\ told \subseteq Nat /\ stops \in Nat
SeenTypes ==
    /\ down \in BOOLEAN /\ outage \in Nat /\ asks \in Nat /\ early \subseteq Nat /\ came \subseteq Nat
    /\ kills \in Nat /\ ends \in Nat /\ unheard \in BOOLEAN /\ overlap \in BOOLEAN
    /\ left \in [Disturbances -> Nat]

TypeOK == PluginTypes /\ HandTypes /\ WorkerTypes /\ FileTypes /\ SeenTypes

(* What she is told of restarts is true: each one told is of a restart whose *)
(* own start completed, whatever failed, asked or ended meanwhile.           *)
ToldCameBack == told \subseteq came

(* "No killed or crashed row is written for" a worker's own exit (ADR-101):  *)
(* a stop of the Host is told only when it was ended from outside, or killed *)
(* the worker it waited for too long; one counted inside a span ("the Host   *)
(* also stopped") may have been clean too.                                   *)
StopsAreOfTheHost == /\ stops <= kills
                     /\ span # None => span.inside <= kills + ends

(* The worker that holds the database is the one the plugin speaks with, or  *)
(* one that ends: any other would keep every later start out for ever.       *)
NoWorkerLeftOver == \A w \in Workers : lock = w => w = cur \/ proc[w].st = "closing"

NoWorkerLeftOverUnlessOverlap == overlap \/ NoWorkerLeftOver

(* "must not leave her down while the Host runs on": when nothing disturbs   *)
(* it any more the Host has a worker, its start completed.                   *)
Ready == host = "up" /\ init = "done" /\ Up(cur)
ComesUp == []<>(Ready \/ overlap)

(* "every span in which she was not running is recorded once": each outage   *)
(* is in a row, unless a worker ended with the answer to its row unheard.    *)
Recorded(n) == \E r \in rows : r.since <= n /\ n <= r.upto
OutagesRecorded == []<>(unheard \/ overlap \/ \A n \in 1..outage : Recorded(n))

(* "Each one but a failed worker's is kept to tell her afterwards": every    *)
(* restart that came back is told, however often the hand-over failed or the *)
(* worker was replaced again, if no start but its own ran beside it: the     *)
(* completion of that one removes it from the file.                          *)
RestartsTold == []<>(overlap \/ came \ early \subseteq told)

(* What she was not running for is told in the end, each outage and restart.  *)
ToldInTheEnd == OutagesRecorded /\ RestartsTold
=============================================================================

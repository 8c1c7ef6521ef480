------------------------------ MODULE Restarts ------------------------------
(***************************************************************************)
(* How the Host comes back (tools/asuna-supervisor.mjs, asuna-launch.mjs),  *)
(* her restart desk (restarts.py) and what the next start says of the stop  *)
(* (host_stops.py, host_lease.py).                                         *)
(*                                                                         *)
(* The supervisor starts the Host, climbs a ladder of rungs while a start   *)
(* fails, and restarts it when she asks or when it exits. Her request goes  *)
(* from the desk's pending.json to request.json, by a thread of the worker  *)
(* that may die between any two of its steps. What a start installs is the  *)
(* version of one package: the checkout's, a publication of hers, or the    *)
(* one it falls back to. A bad version never comes up; a good one may fail  *)
(* to come up too, for a fault that passes.                                 *)
(***************************************************************************)
EXTENDS Integers, FiniteSets

CONSTANTS Versions,   \* of the package
          Good,       \* the versions that come up
          First,      \* the one that runs at the beginning
          None,       \* no version, no request
          Requests,   \* her requests, each made once
          Bounds      \* bounds: how often each disturbance may happen

Disturbances == {"fault",    \* a start of a good version fails
                 "install",  \* installing a selection fails
                 "exit",     \* the Host exits on its own
                 "stop",     \* it is stopped from outside, with the launcher
                 "replace",  \* the worker is replaced while the Host runs on
                 "ask", "publish", "push", "write", "mark", "cancel"}

ASSUME RestartAssumption ==
    /\ First \in Good /\ Good \subseteq Versions /\ None \notin Versions \cup Requests
    /\ Bounds \subseteq [Disturbances -> Nat]

VARIABLES pkg,      \* the packages: checkout, launch.json, what is installed, activation.json
          sup,      \* the supervisor: where it is, its rung, what it writes down
          last,     \* last.json
          host,     \* how far the Host's worker has come
          desk,     \* her desk: its request, and the one go() has in hand
          files,    \* pending.json and request.json
          lease,    \* the database lease: none, held, or held and marked as planned
          ripe,     \* the requests whose time has come
          ran,      \* observed: the versions that came up
          fate,     \* observed: what became of each request
          carried,  \* observed: how often it was carried out
          blind,    \* observed: requests whose stop could not be told as planned
          cause,    \* observed: why the Host that left its lease went
          rows,     \* the stop rows, each with the cause
          called,   \* whether she was called for the restart in last.json
          left      \* what is left of each bound

things   == <<pkg, ran>>
asking   == <<desk, files, ripe, fate, carried, blind>>
stops    == <<lease, cause, rows>>
vars     == <<pkg, sup, last, host, desk, files, lease, ripe, ran, fate, carried,
              blind, cause, rows, called, left>>

Spend(kind) == left[kind] > 0 /\ left' = [left EXCEPT ![kind] = @ - 1]

NoDesk  == [pc |-> "none", pending |-> None, hand |-> None]
Record(by) == [by |-> by, failed |-> FALSE]

Init ==
    /\ pkg = [tree |-> First, inst |-> First, disk |-> First, active |-> First,
              sel |-> [v |-> First, state |-> "ACTIVE", prev |-> None, boots |-> 0, from |-> None]]
    /\ ran = {First}
    /\ sup = [pc |-> "prepare", rung |-> 0, asked |-> FALSE, reverted |-> FALSE, rec |-> Record("launcher")]
    /\ last = [by |-> "launcher", result |-> "running", back |-> TRUE]
    /\ host = "none" /\ lease = "none" /\ cause = "none" /\ rows = {}
    /\ desk = NoDesk /\ files = [pending |-> None, request |-> None]
    /\ ripe = {} /\ blind = {} /\ called = FALSE
    /\ fate = [r \in Requests |-> "none"] /\ carried = [r \in Requests |-> 0]
    /\ left \in Bounds

-----------------------------------------------------------------------------
(* Which version runs: activation.json and the steps of a preparation.       *)

WrongLastRan(p) == p.sel.v
LastRan(p) == p.active

Selection(p, v, state) ==
    [v |-> v, state |-> state, prev |-> IF LastRan(p) = v THEN None ELSE LastRan(p),
     boots |-> 0, from |-> None]

(* AsunaFloor.effective: what a worker start runs.                           *)
Effective(p) == IF p.sel.state = "HOST_RESTART_REQUIRED" THEN p.active ELSE p.sel.v
Runs(p) == p.disk \in Good /\ Effective(p) \in Good

(* syncCheckout: the checkout is installed when it differs from what was     *)
(* installed last, or from what a fallback set aside.                        *)
Synced(p) ==
    IF p.inst = p.tree /\ p.sel.from # p.tree THEN p
    ELSE [p EXCEPT !.inst = p.tree, !.disk = p.tree,
                   !.sel = IF @.v = p.tree /\ @.state \in {"APPLIED", "ACTIVE"}
                           THEN @ ELSE Selection(p, p.tree, "APPLIED")]

Back(p) == [p EXCEPT !.sel = [v |-> @.prev, state |-> "HOST_RESTART_REQUIRED", prev |-> None,
                              boots |-> 0, from |-> @.v]]

MaxUnconfirmedStarts == 2

Advanced(p) ==
    IF p.sel.state # "APPLIED" THEN p
    ELSE IF p.sel.boots < MaxUnconfirmedStarts \/ p.sel.prev = None
         THEN [p EXCEPT !.sel.boots = IF @ > MaxUnconfirmedStarts THEN @ ELSE @ + 1]
         ELSE Back(p)

WrongReverted(p) ==
    IF p.sel.state = "HOST_RESTART_REQUIRED" /\ p.sel.prev # None THEN Back(p) ELSE p
Reverted(p) ==
    IF p.sel.state \in {"APPLIED", "HOST_RESTART_REQUIRED"} /\ p.sel.prev # None THEN Back(p) ELSE p

Installed(p) ==
    IF p.sel.state = "HOST_RESTART_REQUIRED"
    THEN [p EXCEPT !.disk = p.sel.v, !.sel.state = "APPLIED"] ELSE p

(* AsunaFloor.workerReady: the worker started on the selection.              *)
Confirmed(p) ==
    IF p.sel.state \in {"APPLIED", "ACTIVE"}
    THEN [p EXCEPT !.sel.state = "ACTIVE", !.sel.boots = 0, !.active = p.sel.v] ELSE p

Confirm == pkg' = Confirmed(pkg) /\ ran' = ran \cup {Effective(pkg)}

(* AsunaFloor.publish: her candidate is selected and copied to the checkout; *)
(* one that changes only what the worker loads has passed the boot probe.    *)
Publish(v, state) ==
    /\ host = "on" /\ Spend("publish")
    /\ state = "APPLIED" => v \in Good
    /\ v # pkg.tree /\ v # pkg.active
    /\ pkg' = [pkg EXCEPT !.tree = v, !.sel = Selection(pkg, v, state)]
    /\ UNCHANGED <<sup, last, host, asking, stops, ran, called>>

-----------------------------------------------------------------------------
(* The worker of a Host that starts.                                         *)

WorkerRuns == host \in {"desk", "ready", "on"}

(* host_stops.record of a lease left behind.                                 *)
How == IF lease = "planned" THEN "planned"
       ELSE IF last.by = "nobody" /\ ~last.back THEN "crashed" ELSE "killed"

Acquire ==
    /\ host = "spawned" /\ host' = "leased"
    /\ rows' = IF lease = "none" THEN rows ELSE rows \cup {[how |-> How, cause |-> cause]}
    /\ lease' = "held"
    /\ UNCHANGED <<things, sup, last, asking, cause, called, left>>

(* Desk.__init__ reads pending.json; call_after_fallback tells her of a      *)
(* restart that fell back and is back.                                       *)
WrongLoaded == None
Loaded == files.pending

MakeDesk ==
    /\ desk' = [pc |-> "idle", pending |-> Loaded, hand |-> None]
    /\ called' = (called \/ (last.result = "fell_back" /\ last.back))

OpenDesk ==
    /\ host = "leased" /\ host' = "desk"
    /\ MakeDesk
    /\ UNCHANGED <<things, sup, last, files, ripe, fate, carried, blind, stops, left>>

RuntimeReady ==
    /\ host = "desk" /\ Runs(pkg) /\ host' = "ready"
    /\ UNCHANGED <<things, sup, last, asking, stops, called, left>>

WorkerReady ==
    /\ host = "ready" /\ host' = "on"
    /\ Confirm
    /\ UNCHANGED <<sup, last, asking, stops, called, left>>

(* The Host's processes are gone: what the desk had in hand is lost, what it *)
(* handed over and nobody took will find another Host.                       *)
Gone(why) ==
    /\ host' = "none" /\ desk' = NoDesk
    /\ fate' = [r \in Requests |-> IF r = desk.hand THEN "cut" ELSE fate[r]]
    /\ blind' = blind \cup ({files.request} \cap Requests)
    /\ cause' = IF host \in {"none", "spawned"} THEN cause ELSE why

(* The worker is replaced in place: a clean stop and a start on the lease.   *)
(* The supervisor takes a written request sooner than that.                  *)
ReplaceWorker ==
    /\ host = "on" /\ files.request = None /\ Spend("replace") /\ Runs(pkg)
    /\ fate' = [r \in Requests |-> IF r = desk.hand THEN "cut" ELSE fate[r]]
    /\ MakeDesk /\ Confirm /\ lease' = "held"
    /\ UNCHANGED <<sup, last, host, files, ripe, carried, blind, cause, rows>>

-----------------------------------------------------------------------------
(* Her desk.                                                                 *)

Asked(r) == fate[r] = "asked"

Ask(r) ==
    /\ host = "on" /\ fate[r] = "none" /\ Spend("ask")
    /\ fate' = [s \in Requests |-> IF s = r THEN "asked"
                                   ELSE IF s = desk.pending THEN "replaced" ELSE fate[s]]
    /\ desk' = [desk EXCEPT !.pending = r] /\ files' = [files EXCEPT !.pending = r]
    /\ UNCHANGED <<things, sup, last, host, ripe, carried, blind, stops, called>>

CancelAsk ==
    /\ host = "on" /\ desk.pending # None /\ Spend("cancel")
    /\ fate' = [fate EXCEPT ![desk.pending] = "cancelled"]
    /\ desk' = [desk EXCEPT !.pending = None] /\ files' = [files EXCEPT !.pending = None]
    /\ UNCHANGED <<things, sup, last, host, ripe, carried, blind, stops, called>>

(* Its time comes: not_before, and quiet or the half hour after it.          *)
Ripen(r) ==
    /\ Asked(r) /\ r \notin ripe /\ ripe' = ripe \cup {r}
    /\ UNCHANGED <<things, sup, last, host, desk, files, fate, carried, blind, stops, called, left>>

Due ==
    /\ WorkerRuns /\ desk.pc = "idle" /\ desk.pending \in ripe
    /\ desk' = [desk EXCEPT !.pc = "due"]
    /\ UNCHANGED <<things, sup, last, host, files, ripe, fate, carried, blind, stops, called, left>>

(* go(): takes whatever is pending by then ...                               *)
WrongEmptied == files
Emptied == [files EXCEPT !.pending = None]

Take ==
    /\ WorkerRuns /\ desk.pc = "due"
    /\ desk' = [pc |-> IF desk.pending = None THEN "idle" ELSE "taken", pending |-> None,
                hand |-> desk.pending]
    /\ files' = Emptied
    /\ UNCHANGED <<things, sup, last, host, ripe, fate, carried, blind, stops, called, left>>

(* ... marks the stop as planned, which may fail ...                         *)
WrongMarked == lease
Marked == "planned"

Mark ==
    /\ WorkerRuns /\ desk.pc = "taken" /\ desk' = [desk EXCEPT !.pc = "marked"]
    /\ \/ lease' = Marked /\ UNCHANGED <<blind, left>>
       \/ Spend("mark") /\ blind' = blind \cup {desk.hand} /\ UNCHANGED lease
    /\ UNCHANGED <<things, sup, last, host, files, ripe, fate, carried, cause, rows, called>>

(* ... and writes request.json, over one nobody has taken yet.               *)
Write ==
    /\ WorkerRuns /\ desk.pc = "marked"
    /\ desk' = [desk EXCEPT !.pc = "idle", !.hand = None]
    /\ files' = [files EXCEPT !.request = desk.hand]
    /\ fate' = [r \in Requests |-> IF r = files.request THEN "replaced" ELSE fate[r]]
    /\ UNCHANGED <<things, sup, last, host, ripe, carried, blind, stops, called, left>>

DeskStep == Due \/ Take \/ Mark \/ Write

-----------------------------------------------------------------------------
(* The supervisor.                                                           *)

(* What a failed start writes down; the next one is a rung higher.           *)
NotBack(by) == last' = [by |-> by, result |-> "not_back", back |-> FALSE] /\ called' = FALSE
NextRung == IF sup.rung < 2 THEN sup.rung + 1 ELSE 2
StartFailed ==
    /\ sup' = [sup EXCEPT !.pc = "prepare", !.rung = NextRung, !.rec.failed = TRUE]
    /\ NotBack(sup.rec.by)

(* The first start of a restart she asked for brings origin/main in.         *)
FastForward(v) ==
    /\ sup.pc = "prepare" /\ sup.asked /\ sup.rung = 0 /\ Spend("push")
    /\ pkg' = [pkg EXCEPT !.tree = v] /\ sup' = [sup EXCEPT !.asked = FALSE]
    /\ UNCHANGED <<last, host, asking, stops, ran, called>>

(* The packages after a preparation, and whether it noted a fallback.        *)
Prepared == CASE sup.rung = 0 -> Advanced(Synced(pkg))
              [] sup.rung = 1 -> Reverted(pkg)
              [] OTHER        -> pkg
Noted == Prepared.sel.from # None /\ Prepared.sel.from # pkg.sel.from

Prepare ==
    /\ sup.pc = "prepare"
    /\ \/ pkg' = (IF sup.rung < 2 THEN Installed(Prepared) ELSE pkg) /\ UNCHANGED left
       \/ sup.rung < 2 /\ Installed(Prepared) # Prepared /\ Spend("install") /\ pkg' = Prepared
    /\ sup' = [sup EXCEPT !.pc = "starting", !.asked = FALSE, !.reverted = @ \/ Noted]
    /\ host' = "spawned"
    /\ UNCHANGED <<last, asking, stops, ran, called>>

(* The preparation throws: the checkout does not pack or install, or the     *)
(* process that prepares fails.                                              *)
PrepareFails ==
    /\ sup.pc = "prepare"
    /\ (sup.rung = 0 /\ Spend("fault")) \/ (sup.rung = 1 /\ Spend("install"))
    /\ StartFailed
    /\ UNCHANGED <<things, host, asking, stops>>

(* The Host exits before it was seen ready, or is not ready in time; the     *)
(* rest of it is killed.                                                     *)
StartFails ==
    /\ sup.pc = "starting"
    /\ IF Runs(pkg) THEN Spend("fault") ELSE UNCHANGED left
    /\ StartFailed
    /\ Gone("start")
    /\ UNCHANGED <<things, files, ripe, carried, lease, rows>>

SeesReady ==
    /\ sup.pc = "starting" /\ host \in {"ready", "on"}
    /\ last' = [by |-> sup.rec.by, back |-> TRUE,
                result |-> IF sup.rec.failed \/ sup.reverted THEN "fell_back" ELSE "running"]
    /\ called' = FALSE
    /\ sup' = [sup EXCEPT !.pc = "watch", !.rung = 0, !.reverted = FALSE]
    /\ UNCHANGED <<things, host, asking, stops, left>>

(* Her request, a drill or not: a drill's first start fails on purpose.      *)
TakeRequest(drill) ==
    /\ sup.pc = "watch" /\ files.request # None
    /\ files' = [files EXCEPT !.request = None]
    /\ carried' = [carried EXCEPT ![files.request] = @ + 1]
    /\ fate' = [r \in Requests |-> IF r = files.request THEN "carried"
                                   ELSE IF r = desk.hand THEN "cut" ELSE fate[r]]
    /\ sup' = [pc |-> "prepare", rung |-> IF drill THEN 1 ELSE 0, asked |-> TRUE, reverted |-> FALSE,
               rec |-> Record("self")]
    /\ host' = "none" /\ desk' = NoDesk
    /\ cause' = IF host = "none" THEN cause ELSE IF files.request \in blind THEN "blind" ELSE "asked"
    /\ UNCHANGED <<things, last, ripe, blind, lease, rows, called, left>>

HostExits ==
    /\ sup.pc = "watch" /\ host # "none" /\ Spend("exit")
    /\ Gone("exit")
    /\ sup' = [sup EXCEPT !.pc = "exited"]
    /\ UNCHANGED <<things, last, files, ripe, carried, lease, rows, called>>

(* Written before the next start, which reads it.                            *)
RecordExit ==
    /\ sup.pc = "exited"
    /\ sup' = [sup EXCEPT !.pc = "prepare", !.rec = Record("nobody")]
    /\ \/ NotBack("nobody") /\ UNCHANGED left
       \/ Spend("write") /\ UNCHANGED <<last, called>>
    /\ UNCHANGED <<things, host, asking, stops>>

(* The owner stops the launcher, or all of it is killed: a clean stop        *)
(* deletes the lease.                                                        *)
Stopped ==
    /\ sup.pc # "off" /\ Spend("stop")
    /\ sup' = [sup EXCEPT !.pc = "off"]
    /\ Gone("outside")
    /\ lease' \in {lease, "none"}
    /\ UNCHANGED <<things, last, files, ripe, carried, rows, called>>

LauncherStarts ==
    /\ sup.pc = "off"
    /\ sup' = [pc |-> "prepare", rung |-> 0, asked |-> FALSE, reverted |-> FALSE, rec |-> Record("launcher")]
    /\ UNCHANGED <<things, last, host, asking, stops, called, left>>

HostStep == Acquire \/ OpenDesk \/ RuntimeReady \/ WorkerReady
SupervisorStep == Prepare \/ SeesReady \/ RecordExit \/ \E drill \in BOOLEAN : TakeRequest(drill)

Next ==
    \/ HostStep \/ SupervisorStep \/ PrepareFails \/ StartFails
    \/ HostExits \/ Stopped \/ LauncherStarts \/ ReplaceWorker
    \/ \E v \in Versions : FastForward(v) \/ \E state \in {"APPLIED", "HOST_RESTART_REQUIRED"} : Publish(v, state)
    \/ \E r \in Requests : Ask(r) \/ Ripen(r)
    \/ CancelAsk \/ DeskStep

Spec == Init /\ [][Next]_vars

(* The supervisor and the Host go on, and a bad version fails to come up.    *)
Fairness == WF_vars(HostStep) /\ WF_vars(SupervisorStep) /\ WF_vars(~Runs(pkg) /\ StartFails)

LiveSpec == Spec /\ Fairness

-----------------------------------------------------------------------------
(* Properties                                                               *)

(* Her request restarts the Host at most once, whatever dies in between:     *)
(* a Host that comes back does not read one that was carried out.            *)
CarriedOnce == \A r \in Requests : carried[r] <= 1

(* "so a restart by someone else before it is due keeps it": a request of    *)
(* hers that was neither replaced, cancelled nor carried out is in the       *)
(* desk's hands, or written down for the supervisor, unless the process died *)
(* in the middle of handing it over.                                         *)
RequestStands == \A r \in Requests : Asked(r) =>
    \/ r = files.request \/ r = desk.hand
    \/ r = files.pending /\ (WorkerRuns => r = desk.pending)

(* The stop her own request brings is recorded as planned, never as a Host   *)
(* that crashed or was killed; one whose mark failed, or that another Host   *)
(* found written, cannot be told.                                            *)
OwnRestartIsPlanned == \A row \in rows : row.cause = "asked" => row.how = "planned"

(* A start that fails goes back to a version that ran before, not to one     *)
(* that was only ever selected.                                              *)
FallsBackToWhatRan == pkg.sel.from # None => pkg.sel.v \in ran

(* Whatever was published or pushed, the Host is up again in the end, as     *)
(* long as the launcher runs and no version it chose failed to be installed. *)
Comes == sup.pc # "off" /\ left["install"] > 0
HostComesBack == Comes ~> (host = "on" \/ ~Comes)

(* "if she came back on an older version, a home turn calls her at once".    *)
FellBack == sup.pc = "watch" /\ host = "on" /\ last.back /\ last.result = "fell_back"
CalledAfterFallback == FellBack ~> (called \/ ~FellBack)
=============================================================================

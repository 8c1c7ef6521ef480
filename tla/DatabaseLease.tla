---------------------------- MODULE DatabaseLease ----------------------------
(***************************************************************************)
(* One running Host for each database, across machines (host_lease.py):     *)
(* several deployments, each with one Host at a time (its file lock), on    *)
(* one lease, a document of the database whose times are the server's.      *)
(*                                                                         *)
(* A Host takes the lease in up to three operations, renews it from a       *)
(* thread of its own and deletes it when it stops. Its machine may be       *)
(* suspended, it may be killed, its renewals and the last deletion may      *)
(* fail. Whatever it finds at its start, it says of the stop before.        *)
(*                                                                         *)
(* Time is counted in ticks. A renewal comes a little later than its tick,  *)
(* so a lease with no tick left may be taken before it is renewed.          *)
(***************************************************************************)
EXTENDS Integers, FiniteSets

CONSTANTS Deployments,  \* by their host id
          None,
          Length,       \* of a lease (LEASE_SECONDS)
          Renewal,      \* between two renewals (RENEW_SECONDS)
          Window,       \* how long a mark counts (PLANNED_SECONDS)
          Bounds        \* bounds: how often each disturbance may happen

Disturbances == {"kill", "suspend", "miss", "stop", "mark"}

ASSUME LeaseAssumption ==
    /\ None \notin Deployments
    /\ Length \in Nat /\ Renewal \in Nat \ {0} /\ Window \in Nat
    /\ Length > 2 * Renewal
    /\ Bounds \subseteq [Disturbances -> Nat]

VARIABLES row,    \* the lease: its holder, the ticks to its expiry, the planned mark
          host,   \* each deployment's Host: where it is, what it found, its next renewal
          asleep, \* those whose machine is suspended
          late,   \* observed: the Hosts that were suspended, or missed two renewals in a row
          ended,  \* observed: how the last run of each deployment ended; "lost" when it was
                  \* cut and another deployment has had the lease since
          left    \* what is left of each bound

vars == <<row, host, asleep, late, ended, left>>

Spend(kind) == left[kind] > 0 /\ left' = [left EXCEPT ![kind] = @ - 1]

NoLease == [by |-> None]
NoMark  == [kept |-> -1]
Off     == [pc |-> "off"]
Cut     == {"killed", "unreleased"}

Init ==
    /\ row = NoLease /\ host = [d \in Deployments |-> Off]
    /\ asleep = {} /\ late = {} /\ ended = [d \in Deployments |-> "none"]
    /\ left \in Bounds

At(d, pc) == host[d].pc = pc
Up(d)     == At(d, "up")
Awake(d)  == d \notin asleep
Mine(d)   == row.by = d
Held      == row # NoLease

-----------------------------------------------------------------------------
(* Taking the lease.                                                         *)

Begin(d) ==
    /\ At(d, "off") /\ Awake(d)
    /\ host' = [host EXCEPT ![d] = [pc |-> "find"]]
    /\ UNCHANGED <<row, asleep, late, ended, left>>

(* A lease of its own says that the Host before did not stop by itself, and  *)
(* whether that stop was marked, not longer than Window before its last      *)
(* renewal.                                                                  *)
Planned(lease) == lease.mark.kept \in 0..Window
WrongFound(d) ==
    IF Held THEN [pc |-> "take", behind |-> TRUE, planned |-> Planned(row), of |-> row.mark]
    ELSE [pc |-> "take", behind |-> FALSE, planned |-> FALSE, of |-> NoMark]
Found(d) ==
    IF Mine(d) THEN [pc |-> "take", behind |-> TRUE, planned |-> Planned(row), of |-> row.mark]
    ELSE [pc |-> "take", behind |-> FALSE, planned |-> FALSE, of |-> NoMark]

Find(d) ==
    /\ At(d, "find") /\ Awake(d)
    /\ host' = [host EXCEPT ![d] = Found(d)]
    /\ UNCHANGED <<row, asleep, late, ended, left>>

New(d) == [by |-> d, left |-> Length, mark |-> NoMark]
Starts(d) ==
    /\ host' = [host EXCEPT ![d] = [pc |-> "up", behind |-> @.behind, planned |-> @.planned, of |-> @.of,
                                    due |-> Renewal, missed |-> 0]]
    /\ ended' = [e \in Deployments |-> IF e # d /\ ended[e] \in Cut THEN "lost" ELSE ended[e]]

(* update(free_or_mine): one that expired, or this deployment's own; a mark  *)
(* belongs to the Host that was stopped.                                     *)
WrongTaken(d) == [row EXCEPT !.by = d, !.left = Length, !.mark = IF @ = NoMark THEN @ ELSE [@ EXCEPT !.old = TRUE]]
Taken(d) == [row EXCEPT !.by = d, !.left = Length, !.mark = NoMark]
WrongFreeOrMine(d) == Held /\ Mine(d)
FreeOrMine(d) == Held /\ (row.left = 0 \/ Mine(d))

Take(d) ==
    /\ At(d, "take") /\ Awake(d)
    /\ IF FreeOrMine(d)
       THEN row' = Taken(d) /\ Starts(d)
       ELSE host' = [host EXCEPT ![d].pc = "insert"] /\ UNCHANGED <<row, ended>>
    /\ UNCHANGED <<asleep, late, left>>

(* No lease yet: insert one. One that exists is someone else's.              *)
Insert(d) ==
    /\ At(d, "insert") /\ Awake(d)
    /\ IF Held THEN host' = [host EXCEPT ![d] = Off] /\ UNCHANGED <<row, ended>>
               ELSE row' = New(d) /\ Starts(d)
    /\ UNCHANGED <<asleep, late, left>>

-----------------------------------------------------------------------------
(* Keeping it.                                                               *)

(* What a renewal does to the lease; the mark has now been kept for as long  *)
(* as it is old.                                                             *)
Renewed(d) ==
    IF Mine(d) THEN [row EXCEPT !.left = Length, !.mark = IF @ = NoMark THEN @ ELSE [@ EXCEPT !.kept = row.mark.age]]
    ELSE row

Renew(d) ==
    /\ Up(d) /\ Awake(d) /\ host[d].due = 0
    /\ row' = Renewed(d)
    /\ host' = [host EXCEPT ![d].due = Renewal, ![d].missed = 0]
    /\ UNCHANGED <<asleep, late, ended, left>>

(* "a missed renewal is retried".                                            *)
MissRenewal(d) ==
    /\ Up(d) /\ Awake(d) /\ host[d].due = 0 /\ Spend("miss")
    /\ host' = [host EXCEPT ![d].due = Renewal, ![d].missed = 1]
    /\ late' = IF host[d].missed = 1 THEN late \cup {d} ELSE late
    /\ UNCHANGED <<row, asleep, ended>>

(* mark_planned, asked for by a running Host (restarts.py): whoever holds    *)
(* the lease is marked.                                                      *)
MarkPlanned(d) ==
    /\ Up(d) /\ Awake(d) /\ Held /\ Spend("mark")
    /\ row' = [row EXCEPT !.mark = [kept |-> 0, age |-> 0, by |-> d, late |-> d \in late, old |-> FALSE]]
    /\ UNCHANGED <<host, asleep, late, ended>>

-----------------------------------------------------------------------------
(* Losing it.                                                                *)

EndsAs(d, how) ==
    /\ host' = [host EXCEPT ![d] = Off] /\ late' = late \ {d}
    /\ ended' = IF ~Up(d) THEN ended
                ELSE [ended EXCEPT ![d] = IF how \in Cut /\ ~Mine(d) THEN "lost" ELSE how]

(* __exit__ deletes this deployment's lease; the deletion may fail.          *)
WrongReleased(d) == NoLease
Released(d) == IF Mine(d) THEN NoLease ELSE row
Release(d) ==
    /\ Up(d) /\ Awake(d) /\ Spend("stop")
    /\ row' = Released(d) /\ EndsAs(d, "stopped")
    /\ UNCHANGED asleep
ReleaseFails(d) ==
    /\ Up(d) /\ Awake(d) /\ Spend("miss")
    /\ EndsAs(d, "unreleased")
    /\ UNCHANGED <<row, asleep>>

Kill(d) ==
    /\ ~At(d, "off") /\ Spend("kill")
    /\ EndsAs(d, "killed")
    /\ UNCHANGED <<row, asleep>>

Suspend(d) ==
    /\ Awake(d) /\ Spend("suspend")
    /\ asleep' = asleep \cup {d}
    /\ late' = IF Up(d) THEN late \cup {d} ELSE late
    /\ UNCHANGED <<row, host, ended>>
Resume(d) ==
    /\ asleep' = asleep \ {d} /\ ~Awake(d)
    /\ UNCHANGED <<row, host, late, ended, left>>

(* A tick: the renewals that are due were made, but of suspended machines.   *)
Running == {d \in Deployments : Up(d) /\ Awake(d)}
Older(m) == IF m = NoMark \/ m.age > Window THEN m ELSE [m EXCEPT !.age = @ + 1]
Tick ==
    /\ \A d \in Running : host[d].due > 0
    /\ host' = [d \in Deployments |-> IF d \in Running THEN [host[d] EXCEPT !.due = @ - 1] ELSE host[d]]
    /\ row' = IF ~Held THEN row
              ELSE [row EXCEPT !.left = IF @ = 0 THEN 0 ELSE @ - 1, !.mark = Older(@)]
    /\ UNCHANGED <<asleep, late, ended, left>>

HostStep(d) == Begin(d) \/ Find(d) \/ Take(d) \/ Insert(d) \/ Renew(d)

Next ==
    \/ \E d \in Deployments :
        \/ HostStep(d) \/ MissRenewal(d) \/ MarkPlanned(d)
        \/ Release(d) \/ ReleaseFails(d) \/ Kill(d) \/ Suspend(d) \/ Resume(d)
    \/ Tick

Spec == Init /\ [][Next]_vars

(* A Host that is not suspended goes on, its launcher starts it again, and   *)
(* time passes.                                                              *)
Fairness == WF_vars(Tick) /\ \A d \in Deployments : WF_vars(HostStep(d))

LiveSpec == Spec /\ Fairness

-----------------------------------------------------------------------------
(* Properties                                                                *)

Marks == {NoMark} \cup [kept : Nat, age : Nat, by : Deployments, late : BOOLEAN, old : BOOLEAN]
RowTyped  == row \in {NoLease} \cup [by : Deployments, left : Nat, mark : Marks]
HostStates ==
    [pc : {"off", "find"}]
    \cup [pc : {"take", "insert"}, behind : BOOLEAN, planned : BOOLEAN, of : Marks]
    \cup [pc : {"up"}, behind : BOOLEAN, planned : BOOLEAN, of : Marks, due : Nat, missed : {0, 1}]
HostTyped == host \in [Deployments -> HostStates]
SideTyped == /\ asleep \subseteq Deployments /\ late \subseteq Deployments
             /\ ended \in [Deployments -> Cut \cup {"none", "stopped", "lost"}]
             /\ left \in [Disturbances -> Nat]
(* The lease, the Hosts and what is observed of them are well formed.        *)
TypeOK == RowTyped /\ HostTyped /\ SideTyped

(* "One running Host per database, across machines": a Host that was never   *)
(* suspended and never missed two renewals in a row holds the lease as long  *)
(* as it runs, and only Hosts that were late run beside it.                  *)
RunsAlone == \A d \in Deployments : Up(d) /\ d \notin late =>
    Mine(d) /\ \A e \in Deployments \ {d} : Up(e) => e \in late

(* "A planned-restart mark belongs to the Host that was stopped, never to    *)
(* this one": a start calls the stop before planned only if that run itself  *)
(* was marked, unless a Host that was late marked the lease of another.      *)
PlannedIsOwnUnlessLate == \A d \in Deployments :
    Up(d) /\ host[d].planned => host[d].of.late \/ (host[d].of.by = d /\ ~host[d].of.old)

(* A start finds that the run before it was cut when it was, and not when it *)
(* stopped by itself; that nobody can say once another deployment has had    *)
(* the lease.                                                                *)
CutsAreNoticed == \A d \in Deployments : Up(d) =>
    /\ host[d].behind => ended[d] \in Cut \cup {"lost"}
    /\ ended[d] \in Cut => host[d].behind

(* Both: what a start says of the stop before it is true of that stop.       *)
StopBeforeIsTrue == PlannedIsOwnUnlessLate /\ CutsAreNoticed

(* "another deployment waits until the lease expires": the database is not   *)
(* left to a Host that is gone, or suspended for good.                       *)
IsServed == []<>(Running # {} \/ asleep = Deployments)
=============================================================================

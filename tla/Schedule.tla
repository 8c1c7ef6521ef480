------------------------------ MODULE Schedule ------------------------------
(***************************************************************************)
(* One plan of hers (schedule.py ScheduleService) and the native records    *)
(* that wake it (schedule.js NativeSchedules over DSH's scheduler).         *)
(*                                                                         *)
(* DSH keeps the records and a log of what fired; both outlive the Host. A  *)
(* fired record is handed to the Host's delivery thread, in the order of    *)
(* the log; a Host that starts first goes through the whole log and then    *)
(* mends the plan. Meanwhile a turn of hers may create, change or cancel    *)
(* the plan: each native call and each save is a step. A one-shot record    *)
(* serves a plan that is due once and one on a clock, which is armed again  *)
(* after each firing; a repeating record fires by itself.                   *)
(***************************************************************************)
EXTENDS Naturals, Sequences, FiniteSets

CONSTANTS Rules,      \* of "once", "clock" (armed again by the Host), "native" (repeats by itself)
          Bounds      \* bounds of a behaviour: firings, changes of the plan, crashes,
                      \* native calls that fail, occurrences refused

ASSUME ScheduleAssumption ==
    /\ Rules \subseteq {"once", "clock", "native"}
    /\ Bounds \subseteq [fires : Nat, updates : Nat, crashes : Nat, fails : Nat, refusals : Nat]

VARIABLES records,   \* the native records, by id: shot or repeat, live or not, for which
             \* version, made after how many firings
          fired,     \* the native log's dispatches, by sequence number: the record that fired
          through,   \* the plugin's mark: the last dispatch the worker has answered
          plan,      \* the plan's row
          up,        \* the Host runs
          her,       \* her turn's plan call: what it does next and what it holds
          hand,      \* the thread that hands firings over, or goes through the log at a start
          acted,     \* observed: the firings that became an event of hers
          dropped,   \* observed: those refused, and those taken for an older version
          rules,     \* observed: the rules she has asked for
          apart,     \* observed: what went wrong on the way (see Unless... below)
          left       \* what is left of the bounds

native == <<records, fired, through>>
seen   == <<acted, dropped, rules>>
vars   == <<native, plan, up, her, hand, seen, apart, left>>

None == 0
Ended == {"CANCELLED", "FIRED"}

Records  == 1..Len(records)
Live(i)  == i \in Records /\ records[i].live
Fired    == {fired[s] : s \in DOMAIN fired}
(* _live: the plan's records that neither fired nor were deleted.            *)
Waiting(except) == {i \in Records : Live(i) /\ i \notin Fired /\ i # except}
Newest(ids) == CHOOSE i \in ids : \A j \in ids : j <= i

Kind(rule) == IF rule = "native" THEN "repeat" ELSE "shot"
Record(kind, version) == [kind |-> kind, version |-> version, live |-> TRUE,
                          since |-> Len(fired)]
NextId == Len(records) + 1

Spend(what) == left[what] > 0 /\ left' = [left EXCEPT ![what] = @ - 1]

Saved(row) == plan' = [row EXCEPT !.revision = @ + 1]

NoPlan  == [status |-> "NONE", id |-> None, rule |-> "none", version |-> 0, last |-> 0, revision |-> 0]
Quiet   == [pc |-> "idle"]
Waits   == [pc |-> "idle", start |-> FALSE]
Begins  == [pc |-> "read", start |-> TRUE, seq |-> 1, upto |-> Len(fired)]

Init ==
    /\ records = <<>> /\ fired = <<>> /\ through = 0
    /\ plan = NoPlan /\ up = TRUE
    /\ her = Quiet /\ hand = Waits
    /\ acted = {} /\ dropped = {} /\ rules = {}
    /\ apart = {} /\ left \in Bounds

-----------------------------------------------------------------------------
(* DSH: a record fires. A one-shot has ended then; a repeating one goes on,   *)
(* at an interval (a minute at least) longer than a call of hers.         *)
Fire(i) ==
    /\ Live(i) /\ Spend("fires")
    /\ i \in Fired => her.pc = "idle"
    /\ fired' = Append(fired, i)
    /\ records' = [records EXCEPT ![i].live = (records[i].kind = "repeat")]
    /\ UNCHANGED <<through, plan, up, her, hand, seen, apart>>

Delete(i) == records' = [records EXCEPT ![i].live = FALSE]
Make(kind, version) == records' = Append(records, Record(kind, version))

-----------------------------------------------------------------------------
(* Her plan tool, in a turn. A call that fails raises: what was done stays.   *)

HerStep(pc) == up /\ ~hand.start /\ her.pc = pc

(* create saves the row first; a repeated call finds it.                     *)
Create(rule) ==
    /\ HerStep("idle") /\ plan.status = "NONE"
    /\ Saved([plan EXCEPT !.status = "CREATING", !.rule = rule, !.version = 1])
    /\ rules' = {rule}
    /\ her' = [pc |-> "find"]
    /\ UNCHANGED <<native, up, hand, acted, dropped, apart, left>>

CreateAgain ==
    /\ HerStep("idle") /\ plan.status # "NONE" /\ plan.id = None
    /\ her' = [pc |-> "find"]
    /\ UNCHANGED <<native, plan, up, hand, seen, apart, left>>

(* _created: the plan's only record is taken, whatever became of it, and of   *)
(* several none; with none, one is made.                                      *)
Find ==
    /\ HerStep("find")
    /\ CASE Len(records) = 0 -> /\ Make(Kind(plan.rule), plan.version)
                                /\ her' = [pc |-> "bind", id |-> NextId]
         [] Len(records) = 1 -> her' = [pc |-> "bind", id |-> 1] /\ UNCHANGED records
         [] OTHER            -> her' = Quiet /\ UNCHANGED records
    /\ UNCHANGED <<fired, through, plan, up, hand, seen, apart, left>>

Bind ==
    /\ HerStep("bind")
    /\ Saved([plan EXCEPT !.id = her.id,
                          !.status = IF plan.status \in Ended THEN @ ELSE "ACTIVE"])
    /\ her' = Quiet
    /\ apart' = apart \cup (IF plan.id # None \/ hand.pc # "idle" THEN {"crossed"} ELSE {})
    /\ UNCHANGED <<native, up, hand, seen, left>>

(* update reads the row. New wording and a new pace of a repeating record are *)
(* edits of that record; any other change makes a new one first.              *)
Update(rule, timing) ==
    /\ HerStep("idle") /\ plan.status \in {"CREATING", "ACTIVE"} /\ Spend("updates")
    /\ timing \/ rule = plan.rule
    /\ her' = [pc |-> IF plan.id # None /\ plan.rule = rule /\ (~timing \/ rule = "native")
                        THEN "edit" ELSE "make",
               row |-> plan, rule |-> rule, timing |-> timing]
    /\ rules' = rules \cup {rule}
    /\ UNCHANGED <<native, plan, up, hand, acted, dropped, apart>>

(* DSH refuses to edit a record that has ended.                              *)
Edited == records' = [records EXCEPT
                        ![her.row.id].kind = IF her.timing THEN Kind(her.rule) ELSE @,
                        ![her.row.id].version = her.row.version + 1]

Edit ==
    /\ HerStep("edit")
    /\ IF Live(her.row.id)
         THEN Edited /\ her' = [pc |-> "save", row |-> her.row, rule |-> her.rule, id |-> her.row.id]
         ELSE her' = [her EXCEPT !.pc = "make"] /\ UNCHANGED records
    /\ UNCHANGED <<fired, through, plan, up, hand, seen, apart, left>>

MakeNew ==
    /\ HerStep("make")
    /\ Make(Kind(her.rule), her.row.version + 1)
    /\ her' = [pc |-> IF her.row.id = None THEN "save" ELSE "drop",
               row |-> her.row, rule |-> her.rule, id |-> NextId]
    /\ UNCHANGED <<fired, through, plan, up, hand, seen, apart, left>>

(* The old record goes; that it could not be deleted is only noted.           *)
DropOld ==
    /\ HerStep("drop")
    /\ \/ Delete(her.row.id) /\ UNCHANGED <<apart, left>>
       \/ Spend("fails") /\ apart' = apart \cup {"native"} /\ UNCHANGED records
    /\ her' = [her EXCEPT !.pc = "save"]
    /\ UNCHANGED <<fired, through, plan, up, hand, seen>>

Changed(row) == [row EXCEPT !.status = "ACTIVE", !.id = her.id, !.rule = her.rule, !.version = @ + 1]

(* Store.put with `expected`: the row is as it was read.                     *)
WrongUnchanged == plan.status # "CANCELLED"
Unchanged == plan.revision = her.row.revision

SaveUpdate ==
    /\ HerStep("save")
    /\ IF Unchanged
         THEN /\ Saved(Changed(her.row))
              /\ apart' = apart \cup (IF hand.pc # "idle" THEN {"crossed"} ELSE {})
         ELSE apart' = apart \cup {"refused"} /\ UNCHANGED plan
    /\ her' = Quiet
    /\ UNCHANGED <<native, up, hand, seen, left>>

(* cancel deletes the record it read of, then saves the row as it is now.     *)
Cancel ==
    /\ HerStep("idle") /\ plan.status \in {"CREATING", "ACTIVE", "FIRED"}
    /\ her' = [pc |-> IF plan.id = None THEN "cancel" ELSE "delete", row |-> plan]
    /\ UNCHANGED <<native, plan, up, hand, seen, apart, left>>

DeleteIts ==
    /\ HerStep("delete")
    /\ Delete(her.row.id)
    /\ her' = [her EXCEPT !.pc = "cancel"]
    /\ UNCHANGED <<fired, through, plan, up, hand, seen, apart, left>>

SaveCancel ==
    /\ HerStep("cancel")
    /\ Saved([plan EXCEPT !.status = "CANCELLED"])
    /\ her' = Quiet
    /\ UNCHANGED <<native, up, hand, seen, apart, left>>

(* A native call of hers raises: it was not carried out, or only its answer   *)
(* was lost.                                                                  *)
HerCallFails ==
    /\ up /\ ~hand.start /\ her.pc \in {"find", "edit", "make", "delete"} /\ Spend("fails")
    /\ \/ UNCHANGED records
       \/ her.pc = "find" /\ Len(records) = 0 /\ Make(Kind(plan.rule), plan.version)
       \/ her.pc = "edit" /\ Live(her.row.id) /\ Edited
       \/ her.pc = "make" /\ Make(Kind(her.rule), her.row.version + 1)
       \/ her.pc = "delete" /\ Delete(her.row.id)
    /\ her' = Quiet
    /\ apart' = apart \cup {"native"}
    /\ UNCHANGED <<fired, through, plan, up, hand, seen>>

-----------------------------------------------------------------------------
(* Handing over: deliver takes the dispatches after the plugin's mark, a      *)
(* start all of them; each is a step under deliver_lock, in order.            *)

HandAt(pc) == up /\ hand.pc = pc
The(seq)   == fired[seq]

WrongFirst == Len(fired)
First == through + 1

Deliver ==
    /\ HandAt("idle") /\ through < Len(fired)
    /\ hand' = [pc |-> "read", start |-> FALSE, seq |-> First, upto |-> Len(fired)]
    /\ UNCHANGED <<native, plan, up, her, seen, apart, left>>

Onward == [pc |-> "read", start |-> hand.start, seq |-> hand.seq + 1, upto |-> hand.upto]

(* The version guard: one that is over or handed over before is left, one of  *)
(* a record the plan no longer names is noted.                                *)
WrongStale(seq) == FALSE
Stale(seq) == plan.id # None /\ plan.id # The(seq)

Past(seq) == seq <= plan.last \/ plan.status \in Ended

Read ==
    /\ HandAt("read") /\ hand.seq <= hand.upto
    /\ CASE Past(hand.seq) -> hand' = Onward /\ UNCHANGED <<plan, dropped, apart>>
         [] ~Past(hand.seq) /\ Stale(hand.seq) ->
                /\ Saved([plan EXCEPT !.last = hand.seq])
                /\ dropped' = dropped \cup {hand.seq}
                /\ hand' = Onward /\ UNCHANGED apart
         [] OTHER -> /\ hand' = [hand EXCEPT !.pc = "act"] /\ UNCHANGED <<plan, dropped>>
                     /\ apart' = apart \cup (IF plan.id = None THEN {"early"} ELSE {})
    /\ UNCHANGED <<native, up, her, acted, rules, left>>

(* controller.receive, which knows the occurrence if it comes again; or it is *)
(* refused, which is written on the plan.                                     *)
Act ==
    /\ HandAt("act")
    /\ \/ acted' = acted \cup {hand.seq} /\ UNCHANGED <<dropped, left>>
       \/ Spend("refusals") /\ dropped' = dropped \cup {hand.seq} /\ UNCHANGED acted
    /\ hand' = [hand EXCEPT !.pc = "reread"]
    /\ UNCHANGED <<native, plan, up, her, rules, apart>>

Reread ==
    /\ HandAt("reread")
    /\ hand' = [pc |-> "save", start |-> hand.start, seq |-> hand.seq, upto |-> hand.upto, row |-> plan]
    /\ UNCHANGED <<native, plan, up, her, seen, apart, left>>

AfterFiring(row, seq) ==
    CASE row.status = "CANCELLED"             -> "CANCELLED"
      [] row.status # "CANCELLED" /\ row.rule = "clock" -> "ACTIVE"
      [] OTHER -> IF records[The(seq)].kind = "shot" THEN "FIRED" ELSE row.status

ArmsNext == [pc |-> "arm", back |-> "read", id |-> None, taken |-> FALSE,
             start |-> hand.start, seq |-> hand.seq + 1, upto |-> hand.upto]

(* After a conflict the rest waits for the next call of deliver.             *)
SaveFiring ==
    /\ HandAt("save")
    /\ IF plan.revision = hand.row.revision
         THEN LET status == AfterFiring(hand.row, hand.seq)
              IN /\ Saved([hand.row EXCEPT !.status = status, !.last = hand.seq])
                 /\ hand' = CASE status = "FIRED" -> [Onward EXCEPT !.pc = "remove"]
                              [] status = "ACTIVE" /\ hand.row.rule = "clock" -> ArmsNext
                              [] OTHER -> Onward
         ELSE hand' = Waits /\ UNCHANGED plan
    /\ UNCHANGED <<native, up, her, seen, apart, left>>

(* A one-off that has fired leaves DSH's page; a refusal is only noted.       *)
RemoveFired ==
    /\ HandAt("remove")
    /\ \/ Delete(The(hand.seq - 1)) \/ UNCHANGED records
    /\ hand' = [hand EXCEPT !.pc = "read"]
    /\ UNCHANGED <<fired, through, plan, up, her, seen, apart, left>>

(* _rearm, outside the lock, by the row as it is now: a record that waits is  *)
(* taken, else one is made. The Host makes a one-shot for every rule but      *)
(* `every`, which repeats.                                                    *)
Armed(id, taken) == [hand EXCEPT !.pc = "hang", !.id = id, !.taken = taken]
Return == [hand EXCEPT !.pc = hand.back]

Taken == Waiting(plan.id)

Arm ==
    /\ HandAt("arm")
    /\ IF plan.status \in Ended
         THEN hand' = Return /\ UNCHANGED <<records, apart>>
         ELSE \/ /\ Taken # {}
                 /\ hand' = Armed(Newest(Taken), TRUE) /\ UNCHANGED records
                 /\ apart' = apart \cup (IF her.pc \in {"drop", "save"} THEN {"crossed"} ELSE {})
              \/ /\ Taken = {}
                 /\ \E kind \in {"shot", Kind(plan.rule)} : Make(kind, plan.version)
                 /\ hand' = Armed(NextId, FALSE) /\ UNCHANGED apart
    /\ UNCHANGED <<fired, through, plan, up, her, seen, left>>

(* The row is read again: a plan that was cancelled meanwhile stays so.       *)
WrongHanged == plan.status = "NONE"
Hanged == plan.status \in Ended

Hang ==
    /\ HandAt("hang")
    /\ IF Hanged
         THEN (IF hand.taken THEN UNCHANGED records ELSE Delete(hand.id)) /\ UNCHANGED plan
         ELSE Saved([plan EXCEPT !.id = hand.id, !.status = "ACTIVE"]) /\ UNCHANGED records
    /\ hand' = Return
    /\ UNCHANGED <<fired, through, up, her, seen, apart, left>>

(* A native call raises: the rest waits for the next call, the start fails.   *)
HandFails ==
    /\ HandAt("arm") /\ plan.status \notin Ended /\ Spend("fails")
    /\ UNCHANGED records \/ (Taken = {} /\ Make("shot", plan.version))
    /\ hand' = Waits /\ up' = ~hand.start
    /\ apart' = apart \cup {"native"}
    /\ UNCHANGED <<fired, through, plan, her, seen>>

(* The worker answers: the plugin moves its mark.                            *)
Answer ==
    /\ HandAt("read") /\ ~hand.start /\ hand.seq > hand.upto
    /\ through' = hand.upto /\ hand' = Waits
    /\ UNCHANGED <<records, fired, plan, up, her, seen, apart, left>>

-----------------------------------------------------------------------------
(* A start: the log is read again, then the plan is looked at once for every  *)
(* record in it.                                                              *)

ReadAgain ==
    /\ HandAt("read") /\ hand.start /\ hand.seq > hand.upto
    /\ hand' = [pc |-> "mend", start |-> TRUE, back |-> "mend", id |-> None, taken |-> FALSE, armed |-> FALSE,
                at |-> 1, made |-> Len(records), waiting |-> Waiting(None)]
    /\ UNCHANGED <<native, plan, up, her, seen, apart, left>>

WrongLacks == plan.status = "ACTIVE" /\ plan.id > hand.made
Lacks == plan.status = "ACTIVE" /\ plan.id \notin hand.waiting
Others == hand.waiting \ {plan.id}
After  == [hand EXCEPT !.at = @ + 1]

Mend ==
    /\ HandAt("mend") /\ hand.at <= hand.made
    /\ CASE plan.id = None /\ plan.status # "CANCELLED" /\ ~(plan.status = "FIRED" /\ hand.at \in Fired) ->
              /\ Saved([plan EXCEPT !.id = hand.at, !.status = IF @ \in Ended THEN @ ELSE "ACTIVE"])
              /\ hand' = After /\ UNCHANGED apart
         [] plan.id # None /\ Lacks /\ Others # {} ->
              /\ Saved([plan EXCEPT !.id = Newest(Others)])
              /\ hand' = After /\ UNCHANGED apart
         [] plan.id # None /\ Lacks /\ Others = {} /\ plan.rule = "clock" ->
              /\ hand' = [After EXCEPT !.pc = "arm", !.armed = TRUE]
              /\ apart' = apart \cup (IF hand.armed THEN {"doubled"} ELSE {})
              /\ UNCHANGED plan
         [] OTHER -> hand' = After /\ UNCHANGED <<plan, apart>>
    /\ UNCHANGED <<native, up, her, seen, left>>

Started ==
    /\ HandAt("mend") /\ hand.at > hand.made
    /\ hand' = Waits
    /\ UNCHANGED <<native, plan, up, her, seen, apart, left>>

HostCrashes ==
    /\ up /\ Spend("crashes")
    /\ up' = FALSE /\ her' = Quiet /\ hand' = Waits
    /\ apart' = apart \cup (IF her.pc \in {"drop", "save", "cancel"} THEN {"cut"} ELSE {})
    /\ UNCHANGED <<native, plan, seen>>

HostStarts ==
    /\ ~up
    /\ up' = TRUE /\ hand' = Begins
    /\ UNCHANGED <<native, plan, her, seen, apart, left>>

-----------------------------------------------------------------------------
HerNext == \/ \E rule \in Rules : Create(rule) \/ \E timing \in BOOLEAN : Update(rule, timing)
           \/ CreateAgain \/ Find \/ Bind \/ Edit \/ MakeNew \/ DropOld \/ SaveUpdate
           \/ Cancel \/ DeleteIts \/ SaveCancel \/ HerCallFails
HandNext == \/ Deliver \/ Read \/ Act \/ Reread \/ SaveFiring \/ RemoveFired
            \/ Arm \/ Hang \/ HandFails \/ Answer \/ ReadAgain \/ Mend \/ Started
Next == \/ \E i \in Records : Fire(i)
        \/ HerNext \/ HandNext \/ HostCrashes \/ HostStarts

Spec == Init /\ [][Next]_vars

-----------------------------------------------------------------------------
(* What a behaviour may have met, beside a crash between the steps of a        *)
(* delivery: a native call that failed ("native"), an update cut by a crash   *)
(* ("cut") or refused because the row had changed ("refused"), one saved      *)
(* while a firing was being handed over or whose record the arming took       *)
(* ("crossed"), a record that fired      *)
(* before the plan named it ("early"), a start that armed more than once      *)
(* ("doubled").                                                               *)

(* A plan that is due once becomes one event of hers at most, whatever she    *)
(* changed about it, whatever failed or crashed.                              *)
OneOffActsOnceUnlessCrossed ==
    rules = {"once"} /\ apart \cap {"crossed", "early"} = {} => Cardinality(acted) <= 1

(* Of two records that were armed at the same time only one acts: what acts   *)
(* fired before any later record that acts was made (update makes the new     *)
(* record before it deletes the old).                                         *)
OneVersionActs ==
    apart = {} => \A s, t \in acted : The(s) < The(t) => s <= records[The(t)].since

(* Both: what is due once, or was replaced, does not act twice.               *)
ActsOnceUnlessCrossed == OneOffActsOnceUnlessCrossed /\ OneVersionActs

(* A firing that is passed over was handed over, refused or of an older       *)
(* version: none is skipped by a later one (last_dispatch_seq).               *)
PassedIsHandled == 1..plan.last \subseteq acted \cup dropped

(* When nothing is under way, a plan that is ACTIVE names a record that will  *)
(* fire, made for its current version, also after a crash at any step of the  *)
(* deliveries before.                                                         *)
Settled == up /\ her.pc = "idle" /\ hand.pc = "idle" /\ through = Len(fired)
ActiveIsArmed ==
    Settled /\ plan.status = "ACTIVE" /\ apart = {}
      => Live(plan.id) /\ records[plan.id].version = plan.version

(* A plan that was cancelled stays so, one that has fired is not armed again: *)
(* no delivery, arming, start or update that began before revives it.         *)
EndedStands == [][/\ plan.status = "CANCELLED" => plan'.status = "CANCELLED"
                  /\ plan.status = "FIRED" => plan'.status \in Ended]_vars
=============================================================================

--------------------------- MODULE Schedule_proofs ---------------------------
(***************************************************************************)
(* For any rules and bounds: a plan that ended stays ended, no firing is    *)
(* passed over without having been dealt with, a plan that is due once acts *)
(* once, of two records armed at the same time one acts, and an ACTIVE plan *)
(* names a record that will wake her.                                       *)
(*                                                                         *)
(* The first two rest on what a thread knows of the row it read. Each save  *)
(* raises the revision, so a save that finds the revision it read finds the *)
(* row it read; only the thread that hands firings over marks a plan FIRED, *)
(* so a plan it found open has not fired when it saves. And it goes through *)
(* the log in order: when it takes a firing up, what lies before is passed, *)
(* or the plan has ended and the mark moves no more.                        *)
(*                                                                         *)
(* The others rest on what the records are worth to the plan while nothing  *)
(* has gone wrong (Sound): the plan's own will wake her, is being deleted   *)
(* by her, or is about to be armed; one other may wait at most, left by a   *)
(* crash, newer than the plan's, made for its version and after all that    *)
(* acted.                                                                   *)
(***************************************************************************)
EXTENDS Schedule, TLAPS, SequenceTheorems, WellFoundedInduction, FiniteSetTheorems

Reading  == {"edit", "make", "drop", "save"}      \* an update holds the row it read
Firing   == {"act", "reread", "save"}             \* a firing was found due

Logged == fired \in Seq(Nat) /\ through \in Nat

IsRow(r) ==
    /\ {"status", "id", "rule", "version", "last", "revision"} \subseteq DOMAIN r
    /\ r.revision \in Nat /\ r.last \in Nat

(* A row that was read is the plan's unless its revision is behind.           *)
Fresh(r) == /\ r.revision \in Nat /\ r.revision <= plan.revision
            /\ r.revision = plan.revision => r = plan

HerFresh == /\ "pc" \in DOMAIN her
            /\ her.pc \in Reading => /\ "row" \in DOMAIN her
                                     /\ Fresh(her.row) /\ her.row.status \notin Ended

(* The delivery goes through the log; a start that mends the plan does not.   *)
Mending == hand.pc = "mend" \/ (hand.pc \in {"arm", "hang"} /\ hand.back = "mend")
Goes    == hand.pc # "idle" /\ ~Mending

HandGoes ==
    /\ {"pc", "start"} \subseteq DOMAIN hand
    /\ hand.pc \in {"arm", "hang", "mend"} => {"back", "id", "taken"} \subseteq DOMAIN hand
                                              /\ hand.back \in {"read", "mend"}
    /\ hand.pc = "mend" => hand.back = "mend"
    /\ Goes => /\ {"seq", "upto"} \subseteq DOMAIN hand
               /\ hand.seq \in Nat \ {0} /\ hand.upto \in Nat

(* What a delivery of a due firing knows.                                     *)
HandFresh ==
    /\ hand.pc \in Firing => plan.status # "FIRED" /\ hand.seq = plan.last + 1
    /\ hand.pc \in {"reread", "save"} => hand.seq \in acted \cup dropped
    /\ hand.pc = "save" => Fresh(hand.row)

(* Passed: the firings before n lie behind the mark, or the plan has ended.   *)
PassedTo(n) == n <= plan.last + 1 \/ plan.status \in Ended
InOrder == PassedTo(through + 1) /\ (Goes => PassedTo(hand.seq))

IInv == Logged /\ IsRow(plan) /\ HerFresh /\ HandGoes /\ HandFresh /\ InOrder /\ PassedIsHandled

(* Nothing has fired in the initial states. *)
LEMMA InitKnown == Init => IInv
BY DEF Init, IInv, Logged, IsRow, HerFresh, HandGoes, HandFresh, InOrder, PassedIsHandled,
       PassedTo, Goes, Mending, NoPlan, Quiet, Waits, Fresh, Reading, Firing, Ended

(* What the invariant speaks of but for her call and her records. *)
delivered == <<fired, through, hand, acted, dropped>>

(* A step of her call that saves nothing and holds what it read. *)
LEMMA HerHolds ==
    ASSUME IInv, UNCHANGED <<delivered, plan>>, HerFresh'
    PROVE  IInv'
BY DEF IInv, Logged, HandGoes, HandFresh, InOrder, PassedIsHandled, PassedTo, Goes, Mending,
       Fresh, IsRow, delivered, Firing, Ended

(* Her call saves a row and ends: a plan that ended is not opened, nothing    *)
(* fires, the mark stays.                                                     *)
LEMMA HerSaves ==
    ASSUME IInv, UNCHANGED delivered, NEW r, IsRow(r), Saved(r),
           r.revision = plan.revision, r.last = plan.last,
           plan.status \in Ended => r.status \in Ended,
           plan.status # "FIRED" => r.status # "FIRED",
           "pc" \in DOMAIN her', her'.pc \notin Reading
    PROVE  IInv'
<1>1. IsRow(plan') /\ plan'.revision = plan.revision + 1 /\ plan'.last = plan.last
      /\ plan'.status = r.status
  BY DEF IsRow, Saved
<1>2. HandFresh'
  BY <1>1 DEF IInv, HandFresh, delivered, Fresh, IsRow, Firing
<1> QED
  BY <1>1, <1>2 DEF IInv, Logged, HerFresh, HandGoes, InOrder, PassedIsHandled, PassedTo,
                    Goes, Mending, delivered, IsRow

(* Her plan tool. *)
LEMMA HerKnown == IInv /\ HerNext => IInv'
<1> SUFFICES ASSUME IInv, HerNext PROVE IInv'
  OBVIOUS
<1> USE DEF HerStep, Quiet
<1>1. ASSUME NEW rule \in Rules, Create(rule) PROVE IInv'
  <2> DEFINE row == [plan EXCEPT !.status = "CREATING", !.rule = rule, !.version = 1]
  <2>1. IsRow(row) /\ row.revision = plan.revision /\ row.last = plan.last /\ row.status = "CREATING"
    BY DEF IInv, IsRow
  <2>2. Saved(row) /\ plan.status = "NONE" /\ UNCHANGED delivered /\ her' = [pc |-> "find"]
    BY <1>1 DEF Create, delivered, native
  <2> HIDE DEF row
  <2> QED BY <2>1, <2>2, HerSaves DEF Ended, Reading
<1>2. ASSUME NEW rule \in Rules, NEW timing \in BOOLEAN, Update(rule, timing) PROVE IInv'
  <2>1. HerFresh'
    BY <1>2 DEF Update, IInv, HerFresh, Fresh, IsRow, Reading, Ended
  <2> QED BY <1>2, <2>1, HerHolds DEF Update, delivered, native
<1>3. CASE CreateAgain
  BY <1>3, HerHolds DEF CreateAgain, delivered, native, seen, HerFresh, Reading
<1>4. CASE Find
  BY <1>4, HerHolds DEF Find, delivered, seen, HerFresh, Reading
<1>5. CASE Bind
  <2> DEFINE row == [plan EXCEPT !.id = her.id, !.status = IF plan.status \in Ended THEN @ ELSE "ACTIVE"]
  <2>1. IsRow(row) /\ row.revision = plan.revision /\ row.last = plan.last
        /\ row.status = IF plan.status \in Ended THEN plan.status ELSE "ACTIVE"
    BY DEF IInv, IsRow
  <2>2. Saved(row) /\ UNCHANGED delivered /\ her' = Quiet
    BY <1>5 DEF Bind, delivered, native, seen
  <2> HIDE DEF row
  <2> QED BY <2>1, <2>2, HerSaves DEF Ended, Reading
<1>6. CASE Edit
  <2>1. HerFresh'
    BY <1>6 DEF Edit, IInv, HerFresh, Fresh, Reading
  <2> QED BY <1>6, <2>1, HerHolds DEF Edit, delivered, seen
<1>7. CASE MakeNew
  <2>1. HerFresh'
    BY <1>7 DEF MakeNew, IInv, HerFresh, Fresh, Reading
  <2> QED BY <1>7, <2>1, HerHolds DEF MakeNew, delivered, seen
<1>8. CASE DropOld
  <2>1. HerFresh'
    BY <1>8 DEF DropOld, IInv, HerFresh, Fresh, Reading
  <2> QED BY <1>8, <2>1, HerHolds DEF DropOld, delivered, seen
<1>9. CASE SaveUpdate
  <2>1. CASE Unchanged
    <3>1. her.row = plan /\ plan.status \notin Ended
      BY <1>9, <2>1 DEF SaveUpdate, Unchanged, IInv, HerFresh, Fresh, Reading
    <3> DEFINE row == Changed(plan)
    <3>2. IsRow(row) /\ row.revision = plan.revision /\ row.last = plan.last /\ row.status = "ACTIVE"
      BY DEF IInv, IsRow, Changed
    <3>3. Saved(row) /\ UNCHANGED delivered /\ her' = Quiet
      BY <1>9, <2>1, <3>1 DEF SaveUpdate, delivered, native, seen
    <3> HIDE DEF row
    <3> QED BY <3>1, <3>2, <3>3, HerSaves DEF Ended, Reading
  <2>2. CASE ~Unchanged
    BY <1>9, <2>2, HerHolds DEF SaveUpdate, delivered, native, seen, HerFresh, Reading
  <2> QED BY <2>1, <2>2
<1>10. CASE Cancel
  BY <1>10, HerHolds DEF Cancel, delivered, native, seen, HerFresh, Reading
<1>11. CASE DeleteIts
  BY <1>11, HerHolds DEF DeleteIts, delivered, seen, IInv, HerFresh, Reading
<1>12. CASE SaveCancel
  <2> DEFINE row == [plan EXCEPT !.status = "CANCELLED"]
  <2>1. IsRow(row) /\ row.revision = plan.revision /\ row.last = plan.last /\ row.status = "CANCELLED"
    BY DEF IInv, IsRow
  <2>2. Saved(row) /\ UNCHANGED delivered /\ her' = Quiet
    BY <1>12 DEF SaveCancel, delivered, native, seen
  <2> HIDE DEF row
  <2> QED BY <2>1, <2>2, HerSaves DEF Ended, Reading
<1>13. CASE HerCallFails
  BY <1>13, HerHolds DEF HerCallFails, delivered, seen, HerFresh, Reading
<1> QED
  BY <1>1, <1>2, <1>3, <1>4, <1>5, <1>6, <1>7, <1>8, <1>9, <1>10, <1>11, <1>12, <1>13 DEF HerNext

(* Every save but an update's own keeps what an update has read behind. *)
LEMMA HerStaysFresh ==
    ASSUME HerFresh, IsRow(plan), UNCHANGED her, NEW r, Saved(r), IsRow(r), r.revision = plan.revision
    PROVE  HerFresh' /\ IsRow(plan')
<1>1. IsRow(plan') /\ plan'.revision = plan.revision + 1
  BY DEF IsRow, Saved
<1> QED BY <1>1 DEF HerFresh, Fresh, IsRow

(* The thread that hands over goes on in the log, knowing no more of a row. *)
LEMMA HandMoves ==
    ASSUME IInv, UNCHANGED <<fired, through, plan, her, acted, dropped>>,
           HandGoes', hand'.pc \notin Firing, Goes' => PassedTo(hand'.seq)
    PROVE  IInv'
BY DEF IInv, Logged, HerFresh, Fresh, HandFresh, InOrder, PassedIsHandled, PassedTo, Firing

(* Deliveries. *)
LEMMA DeliveryKnown ==
    ASSUME IInv, Deliver \/ Read \/ Act \/ Reread \/ SaveFiring \/ RemoveFired \/ Answer
    PROVE  IInv'
<1> USE DEF HandAt, Waits, Onward
<1>1. CASE Deliver
  <2>1. Len(fired) \in Nat /\ through \in Nat
    BY DEF IInv, Logged
  <2>2. HandGoes' /\ hand'.pc = "read" /\ hand'.seq = through + 1
    BY <1>1, <2>1 DEF Deliver, First, HandGoes, Goes, Mending
  <2> QED BY <1>1, <2>2, HandMoves DEF Deliver, IInv, InOrder, PassedTo, native, seen, Firing
<1>2. CASE Read
  <2> DEFINE seq == hand.seq
  <2>0. Goes /\ seq \in Nat \ {0} /\ hand.upto \in Nat /\ IsRow(plan) /\ PassedTo(seq)
    BY <1>2 DEF Read, IInv, HandGoes, Goes, Mending, InOrder
  <2>1. CASE Past(seq)
    <3>1. HandGoes' /\ hand'.pc = "read" /\ hand'.seq = seq + 1 /\ UNCHANGED plan
      BY <1>2, <2>0, <2>1 DEF Read, HandGoes, Goes, Mending
    <3>2. PassedTo(hand'.seq)
      BY <2>0, <2>1, <3>1 DEF Past, PassedTo, IsRow
    <3> QED BY <1>2, <2>1, <3>1, <3>2, HandMoves DEF Read, native, Firing
  <2>2. CASE ~Past(seq) /\ Stale(seq)
    <3> DEFINE r == [plan EXCEPT !.last = seq]
    <3>1. IsRow(r) /\ r.revision = plan.revision /\ r.last = seq /\ r.status = plan.status
      BY <2>0 DEF IsRow
    <3>2. Saved(r) /\ hand' = Onward /\ dropped' = dropped \cup {seq}
          /\ UNCHANGED <<fired, through, her, acted>>
      BY <1>2, <2>2 DEF Read, native
    <3> HIDE DEF r
    <3>3. HerFresh' /\ IsRow(plan') /\ plan'.last = seq /\ plan'.status = plan.status
      BY <3>1, <3>2, HerStaysFresh DEF IInv, IsRow, Saved
    <3>4. seq = plan.last + 1
      BY <2>0, <2>2 DEF Past, PassedTo, IsRow
    <3>5. HandGoes' /\ HandFresh'
      BY <2>0, <3>2 DEF HandGoes, HandFresh, Goes, Mending, Firing
    <3>6. InOrder' /\ PassedIsHandled'
      BY <2>0, <3>2, <3>3, <3>4 DEF IInv, Logged, InOrder, PassedTo, PassedIsHandled, IsRow
    <3> QED BY <3>2, <3>3, <3>5, <3>6 DEF IInv, Logged
  <2>3. CASE ~Past(seq) /\ ~Stale(seq)
    <3>1. hand' = [hand EXCEPT !.pc = "act"] /\ UNCHANGED <<fired, through, plan, her, acted, dropped>>
      BY <1>2, <2>3 DEF Read, native
    <3>2. seq = plan.last + 1 /\ plan.status # "FIRED"
      BY <2>0, <2>3 DEF Past, PassedTo, IsRow, Ended
    <3>3. HandGoes' /\ HandFresh' /\ (Goes' => PassedTo(hand'.seq))
      BY <1>2, <2>0, <3>1, <3>2 DEF IInv, HandGoes, HandFresh, Goes, Mending, Firing
    <3> QED BY <3>1, <3>3 DEF IInv, Logged, HerFresh, Fresh, InOrder, PassedTo, PassedIsHandled
  <2> QED BY <2>1, <2>2, <2>3
<1>3. CASE Act
  <2>1. hand' = [hand EXCEPT !.pc = "reread"] /\ UNCHANGED <<fired, through, plan, her>>
        /\ acted \cup dropped \subseteq acted' \cup dropped' /\ hand.seq \in acted' \cup dropped'
    BY <1>3 DEF Act, native
  <2>2. HandGoes' /\ HandFresh' /\ (Goes' => PassedTo(hand'.seq))
    BY <1>3, <2>1 DEF Act, IInv, HandGoes, HandFresh, InOrder, Goes, Mending, Firing
  <2>3. PassedIsHandled'
    BY <2>1 DEF IInv, PassedIsHandled
  <2> QED BY <2>1, <2>2, <2>3 DEF IInv, Logged, HerFresh, Fresh, InOrder, PassedTo
<1>4. CASE Reread
  <2>1. HandGoes' /\ HandFresh' /\ (Goes' => PassedTo(hand'.seq))
    BY <1>4 DEF Reread, IInv, HandGoes, HandFresh, InOrder, Goes, Mending, Firing, Fresh, IsRow, PassedTo, seen
  <2> QED BY <1>4, <2>1 DEF Reread, IInv, Logged, HerFresh, Fresh, InOrder, PassedTo, PassedIsHandled, native, seen
<1>5. CASE SaveFiring
  <2>0. Goes /\ hand.seq = plan.last + 1 /\ IsRow(plan) /\ Fresh(hand.row) /\ plan.status # "FIRED"
        /\ hand.seq \in acted \cup dropped /\ hand.upto \in Nat /\ hand.seq \in Nat \ {0}
        /\ UNCHANGED <<fired, through, her, acted, dropped>>
    BY <1>5 DEF SaveFiring, IInv, HandFresh, HandGoes, Goes, Mending, Firing, native, seen
  <2>1. CASE plan.revision = hand.row.revision
    <3> DEFINE status == AfterFiring(plan, hand.seq)
               r == [plan EXCEPT !.status = status, !.last = hand.seq]
    <3>1. plan.status \in Ended => status \in Ended
      BY <2>0 DEF AfterFiring, Ended
    <3>2. Saved(r) /\ HandGoes' /\ hand'.pc \in {"read", "remove", "arm"} /\ hand'.seq = hand.seq + 1
      <4>1. Saved(r) /\ hand' \in {[Onward EXCEPT !.pc = "remove"], ArmsNext, Onward}
        BY <1>5, <2>0, <2>1 DEF SaveFiring, Fresh
      <4> QED BY <2>0, <4>1 DEF HandGoes, Goes, Mending, ArmsNext
    <3>3. IsRow(r) /\ r.revision = plan.revision /\ r.last = hand.seq /\ r.status = status
      BY <2>0 DEF IsRow
    <3> HIDE DEF r, status
    <3>4. HerFresh' /\ IsRow(plan') /\ plan'.last = hand.seq /\ plan'.status = status
      BY <2>0, <3>2, <3>3, HerStaysFresh DEF IInv, IsRow, Saved
    <3>5. HandFresh'
      BY <3>2 DEF HandFresh, Firing
    <3>6. InOrder' /\ PassedIsHandled'
      BY <2>0, <3>1, <3>2, <3>4 DEF IInv, Logged, InOrder, PassedTo, PassedIsHandled, IsRow
    <3> QED BY <2>0, <3>2, <3>4, <3>5, <3>6 DEF IInv, Logged
  <2>2. CASE plan.revision # hand.row.revision
    BY <1>5, <2>0, <2>2, HandMoves DEF SaveFiring, HandGoes, Goes, Firing
  <2> QED BY <2>1, <2>2
<1>6. CASE RemoveFired
  <2>1. HandGoes' /\ hand'.pc = "read" /\ (Goes' => PassedTo(hand'.seq))
    BY <1>6 DEF RemoveFired, IInv, HandGoes, InOrder, Goes, Mending
  <2> QED BY <1>6, <2>1, HandMoves DEF RemoveFired, seen, Firing
<1>7. CASE Answer
  <2>1. through' = hand.upto /\ hand' = Waits /\ UNCHANGED <<fired, plan, her, acted, dropped>>
    BY <1>7 DEF Answer, seen
  <2>2. hand.upto \in Nat /\ hand.seq \in Nat /\ hand.seq > hand.upto /\ PassedTo(hand.seq)
    BY <1>7 DEF Answer, IInv, HandGoes, InOrder, Goes, Mending
  <2>3. PassedTo(hand.upto + 1)
    BY <2>2 DEF IInv, PassedTo, IsRow
  <2> QED
    BY <2>1, <2>2, <2>3 DEF IInv, Logged, HerFresh, Fresh, HandGoes, HandFresh, InOrder, PassedTo,
                            PassedIsHandled, Goes, Firing
<1> QED BY <1>1, <1>2, <1>3, <1>4, <1>5, <1>6, <1>7

(* The thread that hands over saves a row outside a delivery: what had ended  *)
(* stays ended, nothing fires, the mark stays.                                *)
LEMMA HandSaves ==
    ASSUME IInv, UNCHANGED <<fired, through, her, acted, dropped>>, NEW r, IsRow(r), Saved(r),
           r.revision = plan.revision, r.last = plan.last,
           plan.status \in Ended => r.status \in Ended,
           HandGoes', hand'.pc \notin Firing, Goes' => Goes /\ hand'.seq = hand.seq
    PROVE  IInv'
<1>1. HerFresh' /\ IsRow(plan') /\ plan'.last = plan.last /\ plan'.status = r.status
  BY HerStaysFresh DEF IInv, IsRow, Saved
<1> QED
  BY <1>1 DEF IInv, Logged, HandFresh, InOrder, PassedTo, PassedIsHandled, Firing

(* Arming, and the plan's mending at a start. *)
LEMMA ArmingKnown ==
    ASSUME IInv, Arm \/ Hang \/ HandFails \/ ReadAgain \/ Mend \/ Started
    PROVE  IInv'
<1> USE DEF HandAt, Waits
<1>0. IsRow(plan)
  BY DEF IInv
<1>1. CASE Arm
  <2>1. /\ UNCHANGED <<fired, through, plan, her, acted, dropped>>
        /\ hand.pc = "arm"
        /\ \/ hand' = Return
           \/ \E id, taken : hand' = Armed(id, taken)
    BY <1>1 DEF Arm, seen
  <2>2. HandGoes' /\ hand'.pc \notin Firing /\ (Goes' => PassedTo(hand'.seq))
    BY <2>1 DEF IInv, HandGoes, InOrder, Goes, Mending, Return, Armed, Firing
  <2> QED BY <2>1, <2>2, HandMoves
<1>2. CASE Hang
  <2>1. /\ hand.pc = "hang" /\ hand' = Return
        /\ UNCHANGED <<fired, through, her, acted, dropped>>
    BY <1>2 DEF Hang, seen
  <2>2. HandGoes' /\ hand'.pc \notin Firing /\ (Goes' => Goes /\ hand'.seq = hand.seq)
    BY <2>1 DEF IInv, HandGoes, Goes, Mending, Return, Firing
  <2>3. CASE Hanged
    BY <1>2, <2>1, <2>2, <2>3, HandMoves DEF Hang, IInv, InOrder
  <2>4. CASE ~Hanged
    <3> DEFINE r == [plan EXCEPT !.id = hand.id, !.status = "ACTIVE"]
    <3>1. IsRow(r) /\ r.revision = plan.revision /\ r.last = plan.last
      BY <1>0 DEF IsRow
    <3>2. Saved(r) /\ plan.status \notin Ended
      BY <1>2, <2>4 DEF Hang, Hanged
    <3> HIDE DEF r
    <3> QED BY <2>1, <2>2, <3>1, <3>2, HandSaves
  <2> QED BY <2>3, <2>4
<1>3. CASE HandFails
  <2>1. hand' = Waits /\ UNCHANGED <<fired, through, plan, her, acted, dropped>>
    BY <1>3 DEF HandFails, seen
  <2> QED BY <2>1, HandMoves DEF HandGoes, Goes, Firing
<1>4. CASE ReadAgain
  <2>1. UNCHANGED <<fired, through, plan, her, acted, dropped>> /\ hand'.pc = "mend"
        /\ hand'.back = "mend" /\ {"pc", "start", "back", "id", "taken"} \subseteq DOMAIN hand'
    BY <1>4 DEF ReadAgain, native, seen
  <2> QED BY <2>1, HandMoves DEF HandGoes, Goes, Mending, Firing
<1>5. CASE Mend
  <2>0. hand.pc = "mend" /\ UNCHANGED <<fired, through, her, acted, dropped>>
    BY <1>5 DEF Mend, native, seen
  <2>1. DOMAIN hand' = DOMAIN hand /\ hand'.back = hand.back /\ hand'.pc \in {"mend", "arm"}
    <3>1. hand' \in {After, [After EXCEPT !.pc = "arm", !.armed = TRUE]}
      BY <1>5 DEF Mend
    <3> QED BY <2>0, <3>1 DEF IInv, HandGoes, After
  <2>2. HandGoes' /\ hand'.pc \notin Firing /\ (Goes' => Goes /\ hand'.seq = hand.seq)
    BY <2>0, <2>1 DEF IInv, HandGoes, Goes, Mending, Firing
  <2>3. CASE UNCHANGED plan
    BY <2>0, <2>2, <2>3, HandMoves DEF IInv, InOrder
  <2>4. ASSUME Saved([plan EXCEPT !.id = hand.at, !.status = IF @ \in Ended THEN @ ELSE "ACTIVE"])
        PROVE  IInv'
    <3> DEFINE r == [plan EXCEPT !.id = hand.at, !.status = IF @ \in Ended THEN @ ELSE "ACTIVE"]
    <3>1. IsRow(r) /\ r.revision = plan.revision /\ r.last = plan.last
          /\ (plan.status \in Ended => r.status \in Ended) /\ Saved(r)
      BY <1>0, <2>4 DEF IsRow
    <3> HIDE DEF r
    <3> QED BY <2>0, <2>2, <3>1, HandSaves
  <2>5. ASSUME Saved([plan EXCEPT !.id = Newest(Others)]) PROVE IInv'
    <3> DEFINE r == [plan EXCEPT !.id = Newest(Others)]
    <3>1. IsRow(r) /\ r.revision = plan.revision /\ r.last = plan.last
          /\ r.status = plan.status /\ Saved(r)
      BY <1>0, <2>5 DEF IsRow
    <3> HIDE DEF r
    <3> QED BY <2>0, <2>2, <3>1, HandSaves
  <2> QED BY <1>5, <2>3, <2>4, <2>5 DEF Mend
<1>6. CASE Started
  BY <1>6, HandMoves DEF Started, HandGoes, Goes, native, seen, Firing
<1> QED BY <1>1, <1>2, <1>3, <1>4, <1>5, <1>6

(* A record fires: the log grows. *)
LEMMA FireKnown == ASSUME IInv, NEW i \in Records, Fire(i) PROVE IInv'
<1>1. fired' = Append(fired, i) /\ i \in Nat /\ UNCHANGED <<through, plan, her, hand, acted, dropped>>
  BY DEF Fire, Records, seen
<1>2. Logged'
  BY <1>1 DEF IInv, Logged
<1> QED
  BY <1>1, <1>2 DEF IInv, HerFresh, Fresh, HandGoes, HandFresh, InOrder, PassedTo, PassedIsHandled,
                    Goes, Mending

(* A crash forgets what the threads hold; a start goes through the log from   *)
(* its first entry.                                                           *)
LEMMA HostKnown == IInv /\ (HostCrashes \/ HostStarts) => IInv'
<1> SUFFICES ASSUME IInv, HostCrashes \/ HostStarts PROVE IInv'
  OBVIOUS
<1>1. CASE HostCrashes
  <2>1. her' = Quiet /\ hand' = Waits /\ UNCHANGED <<fired, through, plan, acted, dropped>>
    BY <1>1 DEF HostCrashes, native, seen
  <2> QED
    BY <2>1 DEF IInv, Logged, HerFresh, HandGoes, HandFresh, InOrder, PassedTo, PassedIsHandled,
                Goes, Waits, Quiet, Reading, Firing
<1>2. CASE HostStarts
  <2>1. hand' = Begins /\ UNCHANGED <<fired, through, plan, her, acted, dropped>>
    BY <1>2 DEF HostStarts, native, seen
  <2>2. HandGoes' /\ hand'.pc = "read" /\ hand'.seq = 1
    BY <2>1 DEF IInv, Logged, Begins, HandGoes, Goes, Mending
  <2>3. PassedTo(1)
    BY DEF IInv, IsRow, PassedTo
  <2> QED BY <2>1, <2>2, <2>3, HandMoves DEF Firing
<1> QED BY <1>1, <1>2

(* A step that changes nothing. *)
LEMMA StutterKnown == IInv /\ UNCHANGED vars => IInv'
BY DEF IInv, vars, native, seen, Logged, IsRow, HerFresh, Fresh, HandGoes, HandFresh, InOrder,
       PassedTo, PassedIsHandled, Goes, Mending

LEMMA StepKnown == IInv /\ [Next]_vars => IInv'
BY HerKnown, DeliveryKnown, ArmingKnown, FireKnown, HostKnown, StutterKnown DEF Next, HandNext

(* A firing the plan has passed over was handed over, refused or taken for an *)
(* older version (last_dispatch_seq): PassedIsHandled holds.                  *)
THEOREM PassedAreHandled == Spec => []PassedIsHandled
<1>1. IInv => PassedIsHandled
  BY DEF IInv
<1> QED BY <1>1, InitKnown, StepKnown, PTL DEF Spec

Stands == /\ plan.status = "CANCELLED" => plan'.status = "CANCELLED"
          /\ plan.status = "FIRED" => plan'.status \in Ended

(* A save that keeps the status of an ended row, or cancels. *)
LEMMA SavedStands ==
    ASSUME NEW r, Saved(r), "status" \in DOMAIN r,
           plan.status \in Ended => r.status \in {plan.status, "CANCELLED"}
    PROVE  Stands
<1>1. plan'.status = r.status
  BY DEF Saved
<1> QED BY <1>1 DEF Stands, Ended

(* Saves of hers. *)
LEMMA HerStands == ASSUME IInv, HerNext PROVE Stands
<1>0. IsRow(plan) /\ HerFresh
  BY DEF IInv
<1>1. CASE UNCHANGED plan
  BY <1>1 DEF Stands, Ended
<1>2. ASSUME NEW rule \in Rules, Create(rule) PROVE Stands
  BY <1>2 DEF Create, Stands
<1>3. CASE Bind
  <2> DEFINE row == [plan EXCEPT !.id = her.id, !.status = IF plan.status \in Ended THEN @ ELSE "ACTIVE"]
  <2>1. Saved(row) /\ "status" \in DOMAIN row /\ (plan.status \in Ended => row.status = plan.status)
    BY <1>0, <1>3 DEF Bind, IsRow
  <2> HIDE DEF row
  <2> QED BY <2>1, SavedStands
<1>4. CASE SaveUpdate
  <2>1. CASE Unchanged
    <3>1. plan.status \notin Ended
      BY <1>0, <1>4, <2>1 DEF SaveUpdate, Unchanged, HerStep, HerFresh, Fresh, Reading
    <3> QED BY <3>1 DEF Stands, Ended
  <2>2. CASE ~Unchanged
    BY <1>1, <1>4, <2>2 DEF SaveUpdate
  <2> QED BY <2>1, <2>2
<1>5. CASE SaveCancel
  <2> DEFINE row == [plan EXCEPT !.status = "CANCELLED"]
  <2>1. Saved(row) /\ "status" \in DOMAIN row /\ row.status = "CANCELLED"
    BY <1>0, <1>5 DEF SaveCancel, IsRow
  <2> HIDE DEF row
  <2> QED BY <2>1, SavedStands
<1>6. UNCHANGED plan \/ (\E rule \in Rules : Create(rule)) \/ Bind \/ SaveUpdate \/ SaveCancel
  BY DEF HerNext, Update, CreateAgain, Find, Edit, MakeNew, DropOld, Cancel, DeleteIts, HerCallFails
<1> QED BY <1>1, <1>2, <1>3, <1>4, <1>5, <1>6

(* Saves of the thread that hands over. *)
LEMMA HandStands == ASSUME IInv, HandNext PROVE Stands
<1>0. IsRow(plan) /\ HandFresh
  BY DEF IInv
<1>1. CASE UNCHANGED plan
  BY <1>1 DEF Stands, Ended
<1>2. CASE Read
  <2>1. UNCHANGED plan \/ Saved([plan EXCEPT !.last = hand.seq])
    BY <1>2 DEF Read
  <2>2. ASSUME Saved([plan EXCEPT !.last = hand.seq]) PROVE Stands
    <3> DEFINE row == [plan EXCEPT !.last = hand.seq]
    <3>1. Saved(row) /\ "status" \in DOMAIN row /\ row.status = plan.status
      BY <1>0, <2>2 DEF IsRow
    <3> HIDE DEF row
    <3> QED BY <3>1, SavedStands
  <2> QED BY <1>1, <2>1, <2>2
<1>3. CASE SaveFiring
  <2>1. CASE plan.revision = hand.row.revision
    <3> DEFINE row == [plan EXCEPT !.status = AfterFiring(plan, hand.seq), !.last = hand.seq]
    <3>1. hand.row = plan /\ plan.status # "FIRED"
      BY <1>0, <1>3, <2>1 DEF SaveFiring, HandAt, HandFresh, Fresh, Firing
    <3>2. Saved(row) /\ "status" \in DOMAIN row /\ (plan.status \in Ended => row.status = plan.status)
      BY <1>0, <1>3, <2>1, <3>1 DEF SaveFiring, AfterFiring, IsRow, Ended
    <3> HIDE DEF row
    <3> QED BY <3>2, SavedStands
  <2>2. CASE plan.revision # hand.row.revision
    BY <1>1, <1>3, <2>2 DEF SaveFiring
  <2> QED BY <2>1, <2>2
<1>4. CASE Hang
  BY <1>1, <1>4 DEF Hang, Hanged, Stands, Ended
<1>5. CASE Mend
  <2>1. \/ UNCHANGED plan
        \/ Saved([plan EXCEPT !.id = hand.at, !.status = IF @ \in Ended THEN @ ELSE "ACTIVE"])
        \/ Saved([plan EXCEPT !.id = Newest(Others)])
    BY <1>5 DEF Mend
  <2>2. ASSUME Saved([plan EXCEPT !.id = hand.at, !.status = IF @ \in Ended THEN @ ELSE "ACTIVE"])
        PROVE  Stands
    <3> DEFINE row == [plan EXCEPT !.id = hand.at, !.status = IF @ \in Ended THEN @ ELSE "ACTIVE"]
    <3>1. Saved(row) /\ "status" \in DOMAIN row /\ (plan.status \in Ended => row.status = plan.status)
      BY <1>0, <2>2 DEF IsRow
    <3> HIDE DEF row
    <3> QED BY <3>1, SavedStands
  <2>3. ASSUME Saved([plan EXCEPT !.id = Newest(Others)]) PROVE Stands
    <3> DEFINE row == [plan EXCEPT !.id = Newest(Others)]
    <3>1. Saved(row) /\ "status" \in DOMAIN row /\ row.status = plan.status
      BY <1>0, <2>3 DEF IsRow
    <3> HIDE DEF row
    <3> QED BY <3>1, SavedStands
  <2> QED BY <1>1, <2>1, <2>2, <2>3
<1>6. UNCHANGED plan \/ Read \/ SaveFiring \/ Hang \/ Mend
  BY DEF HandNext, Deliver, Act, Reread, RemoveFired, Arm, HandFails, Answer, ReadAgain, Started
<1> QED BY <1>1, <1>2, <1>3, <1>4, <1>5, <1>6

(* No delivery, arming, start or update that began before a plan was          *)
(* cancelled or had fired revives it: EndedStands holds.                      *)
THEOREM EndedPlansStand == Spec => EndedStands
<1>1. IInv /\ [Next]_vars => [Stands]_vars
  <2> SUFFICES ASSUME IInv, Next PROVE Stands
    OBVIOUS
  <2>1. CASE UNCHANGED plan
    BY <2>1 DEF Stands, Ended
  <2>2. UNCHANGED plan \/ HerNext \/ HandNext
    BY DEF Next, Fire, HostCrashes, HostStarts
  <2> QED BY <2>1, <2>2, HerStands, HandStands
<1>2. [][Stands]_vars => EndedStands
  <2>1. [Stands]_vars => [/\ plan.status = "CANCELLED" => plan'.status = "CANCELLED"
                          /\ plan.status = "FIRED" => plan'.status \in Ended]_vars
    BY DEF Stands
  <2> QED BY <2>1, PTL DEF EndedStands
<1> QED BY <1>1, <1>2, InitKnown, StepKnown, PTL DEF Spec

-----------------------------------------------------------------------------
(* Of a set of records, some of them, the newest exists. *)
LEMMA NewestOf ==
    ASSUME NEW n \in Nat, NEW ids \in SUBSET (1..n), ids # {}
    PROVE  Newest(ids) \in ids /\ \A j \in ids : j <= Newest(ids)
<1> DEFINE back == {n - i : i \in ids}
<1>0. PICK k \in ids : TRUE
  OBVIOUS
<1>1. n - k \in back /\ back \subseteq Nat
  OBVIOUS
<1>2. PICK x \in back : \A y \in back : ~(<<y, x>> \in OpToRel(<, Nat))
  <2> HIDE DEF back
  <2> QED BY <1>1, NatLessThanWellFounded, WFMin, Zenon
<1>3. \A y \in back : ~(y < x)
  BY <1>1, <1>2 DEF OpToRel
<1>4. PICK i \in ids : x = n - i
  OBVIOUS
<1>5. ASSUME NEW j \in ids PROVE j <= i
  <2>1. n - j \in back
    OBVIOUS
  <2>2. ~(n - j < n - i)
    BY <1>3, <1>4, <2>1
  <2> QED BY <2>2
<1> QED BY <1>5 DEF Newest

-----------------------------------------------------------------------------
(* What the rows, records and threads hold. *)

RecordType == [kind : {"shot", "repeat"}, version : Nat, live : BOOLEAN, since : Nat]
Rows == [status : {"NONE", "CREATING", "ACTIVE", "CANCELLED", "FIRED"}, id : Nat, rule : Rules \cup {"none"},
         version : Nat, last : Nat, revision : Nat]

(* A record was made before it fires, and a one-shot that fired has ended.    *)
RecordsOK ==
    /\ records \in Seq(RecordType)
    /\ \A i \in Records : /\ records[i].since <= Len(fired)
                          /\ records[i].kind = "shot" /\ records[i].live => i \notin Fired
    /\ \A s \in DOMAIN fired : fired[s] \in Records /\ records[fired[s]].since < s

PlanOK == /\ plan \in Rows /\ plan.last <= Len(fired) /\ plan.id <= Len(records)
          /\ acted \subseteq DOMAIN fired

HerOK ==
    /\ her.pc \in {"idle", "find", "bind", "edit", "make", "drop", "save", "delete", "cancel"}
    /\ her.pc = "bind" => her.id \in Records
    /\ her.pc \in {"edit", "make"} => her \in [pc : {"edit", "make"}, row : Rows, rule : Rules, timing : BOOLEAN]
    /\ her.pc = "edit" => (her.timing => her.rule = "native") /\ her.rule = her.row.rule
    /\ her.pc \in {"drop", "save"} => her \in [pc : {"drop", "save"}, row : Rows, rule : Rules, id : Records]
    /\ her.pc \in {"delete", "cancel"} => her \in [pc : {"delete", "cancel"}, row : Rows]
    /\ her.pc \in Reading \cup {"delete"} => her.row.id <= Len(records)
    /\ her.pc \in {"edit", "drop", "delete"} => her.row.id # None
    /\ her.pc = "drop" => her.row.id < her.id
    /\ her.pc = "save" => her.row.id <= her.id
    /\ hand.start \/ ~up => her.pc = "idle"

HandOK ==
    /\ hand.pc \in {"idle", "read", "act", "reread", "save", "remove", "arm", "hang", "mend"}
    /\ hand.start \in BOOLEAN /\ (~up => hand.pc = "idle") /\ (hand.pc = "idle" => ~hand.start)
    /\ Goes => hand.upto <= Len(fired)
    /\ hand.pc \in Firing => hand.seq <= hand.upto
    /\ hand.pc = "save" => hand.row \in Rows /\ hand.row.id <= Len(records)
    /\ hand.pc = "hang" => hand.id \in Records
    /\ Mending => /\ {"waiting", "made", "at", "armed"} \subseteq DOMAIN hand
                  /\ hand.start
                  /\ hand.made \in Nat /\ hand.made <= Len(records) /\ hand.at \in Nat \ {0}
                  /\ hand.waiting \subseteq 1..hand.made

TInv == RecordsOK /\ PlanOK /\ HerOK /\ HandOK

(* What becomes of the records when one is deleted, edited, made or fires.    *)
Kept(i)   == records'[i].kind = records[i].kind /\ records'[i].version = records[i].version
             /\ records'[i].since = records[i].since
SameIds   == Len(records') = Len(records) /\ Records' = Records /\ records' \in Seq(RecordType)

(* Deleting a record ends it, and only it. *)
LEMMA Deleted ==
    ASSUME records \in Seq(RecordType), NEW i, Delete(i)
    PROVE  /\ SameIds
           /\ \A k \in Records : Kept(k) /\ records'[k].live = IF k = i THEN FALSE ELSE records[k].live
<1>1. CASE i \in Records
  <2>0. records[i] \in RecordType
    BY <1>1 DEF Records
  <2>1. [records[i] EXCEPT !.live = FALSE] \in RecordType
    BY <2>0 DEF RecordType
  <2>2. records' = [records EXCEPT ![i] = [records[i] EXCEPT !.live = FALSE]]
    BY DEF Delete
  <2>3. SameIds /\ \A k \in Records : records'[k] = IF k = i THEN [records[i] EXCEPT !.live = FALSE] ELSE records[k]
    BY <1>1, <2>1, <2>2, ExceptSeq DEF SameIds, Records
  <2> DEFINE e == [records[i] EXCEPT !.live = FALSE]
  <2>5. e.kind = records[i].kind /\ e.version = records[i].version /\ e.since = records[i].since /\ e.live = FALSE
    BY <2>0 DEF RecordType
  <2>6. SameIds /\ \A k \in Records : records'[k] = IF k = i THEN e ELSE records[k]
    BY <2>3
  <2> HIDE DEF e
  <2> QED BY <2>5, <2>6 DEF Kept
<1>2. CASE i \notin Records
  <2>1. records' = records
    BY <1>2 DEF Delete, Records
  <2> QED BY <1>2, <2>1 DEF SameIds, Kept, Records
<1> QED BY <1>1, <1>2

(* A record made is the newest, and live; the others stay as they are. *)
LEMMA Making ==
    ASSUME records \in Seq(RecordType), NEW kind \in {"shot", "repeat"}, NEW version \in Nat,
           Make(kind, version), fired \in Seq(Nat)
    PROVE  /\ Len(records') = Len(records) + 1 /\ records' \in Seq(RecordType)
           /\ NextId \in Nat /\ Records' = Records \cup {NextId}
           /\ \A k \in Records : records'[k] = records[k] /\ k < NextId
           /\ records'[NextId] = Record(kind, version)
<1>1. Record(kind, version) \in RecordType
  BY DEF Record, RecordType
<1> QED BY <1>1 DEF Make, Records, NextId

(* An edit gives its record the new version, and with a new timing the kind   *)
(* of the rule.                                                               *)
LEMMA EditedOne ==
    ASSUME records \in Seq(RecordType), her.row.id \in Records, Edited,
           her.row.version \in Nat
    PROVE  /\ SameIds
           /\ \A k \in Records : /\ k # her.row.id => records'[k] = records[k]
                                /\ records'[k].since = records[k].since /\ records'[k].live = records[k].live
           /\ records'[her.row.id].version = her.row.version + 1
           /\ records'[her.row.id].kind = IF her.timing THEN Kind(her.rule) ELSE records[her.row.id].kind
<1> DEFINE i == her.row.id
           e1 == [records[i] EXCEPT !.kind = IF her.timing THEN Kind(her.rule) ELSE @]
           e2 == [e1 EXCEPT !.version = her.row.version + 1]
           r1 == [records EXCEPT ![i] = e1]
<1>1. records[i] \in RecordType
  BY DEF Records
<1>2. /\ e1 \in RecordType /\ e2 \in RecordType
      /\ e2.kind = IF her.timing THEN Kind(her.rule) ELSE records[i].kind
      /\ e2.version = her.row.version + 1 /\ e2.since = records[i].since /\ e2.live = records[i].live
  <2> DEFINE kind == IF her.timing THEN Kind(her.rule) ELSE records[i].kind
  <2>1. kind \in {"shot", "repeat"}
    BY <1>1 DEF RecordType, Kind
  <2>2. e1 = [records[i] EXCEPT !.kind = kind]
    BY <1>1 DEF RecordType
  <2> HIDE DEF kind, e1
  <2>3. e1 \in RecordType /\ e1.kind = kind /\ e1.since = records[i].since /\ e1.live = records[i].live
    BY <1>1, <2>1, <2>2 DEF RecordType
  <2>4. e2 \in RecordType /\ e2.kind = kind /\ e2.version = her.row.version + 1
        /\ e2.since = records[i].since /\ e2.live = records[i].live
    BY <2>3 DEF RecordType
  <2> QED BY <2>3, <2>4 DEF kind
<1>3. r1 \in Seq(RecordType) /\ Len(r1) = Len(records) /\ r1[i] = e1
      /\ \A k \in Records : k # i => r1[k] = records[k]
  <2> HIDE DEF e1
  <2> QED BY <1>2, ExceptSeq DEF Records
<1>4. records' = [r1 EXCEPT ![i] = e2]
  <2>1. records' = [r1 EXCEPT ![i].version = her.row.version + 1]
    BY DEF Edited
  <2> HIDE DEF r1, e1
  <2> QED BY <1>3, <2>1
<1>5. SameIds /\ \A k \in Records : records'[k] = IF k = i THEN e2 ELSE r1[k]
  <2> HIDE DEF e2, r1
  <2> QED BY <1>2, <1>3, <1>4, ExceptSeq DEF SameIds, Records
<1> HIDE DEF e1, e2, r1
<1> QED BY <1>2, <1>3, <1>5

(* A record that fires is the log's last entry; a one-shot has ended then. *)
LEMMA FiredOne ==
    ASSUME IInv, RecordsOK, NEW i \in Records, Fire(i)
    PROVE  /\ SameIds
           /\ records[i].live /\ fired' = Append(fired, i)
           /\ Len(fired') = Len(fired) + 1 /\ DOMAIN fired' = DOMAIN fired \cup {Len(fired) + 1}
           /\ fired'[Len(fired) + 1] = i /\ \A s \in DOMAIN fired : fired'[s] = fired[s] /\ s <= Len(fired)
           /\ Fired' = Fired \cup {i}
           /\ \A k \in Records : Kept(k) /\ records'[k].live = IF k = i THEN records[i].kind = "repeat" ELSE records[k].live
<1>1. fired \in Seq(Nat) /\ i \in Nat /\ records[i] \in RecordType /\ records \in Seq(RecordType)
  BY DEF IInv, Logged, RecordsOK, Records
<1>2. /\ fired' = Append(fired, i) /\ Live(i)
      /\ records' = [records EXCEPT ![i] = [records[i] EXCEPT !.live = (records[i].kind = "repeat")]]
  BY DEF Fire
<1> DEFINE e == [records[i] EXCEPT !.live = (records[i].kind = "repeat")]
<1>3. e \in RecordType /\ e.kind = records[i].kind /\ e.version = records[i].version /\ e.since = records[i].since
      /\ e.live = (records[i].kind = "repeat")
  BY <1>1 DEF RecordType
<1>4. SameIds /\ \A k \in Records : records'[k] = IF k = i THEN e ELSE records[k]
  <2> HIDE DEF e
  <2> QED BY <1>1, <1>2, <1>3, ExceptSeq DEF SameIds, Records, e
<1>5. /\ Len(fired') = Len(fired) + 1 /\ DOMAIN fired' = DOMAIN fired \cup {Len(fired) + 1}
      /\ fired'[Len(fired) + 1] = i /\ \A s \in DOMAIN fired : fired'[s] = fired[s] /\ s <= Len(fired)
  BY <1>1, <1>2
<1>6. Fired' = Fired \cup {i}
  BY <1>5 DEF Fired
<1>7. ASSUME NEW k \in Records
      PROVE  Kept(k) /\ records'[k].live = IF k = i THEN records[i].kind = "repeat" ELSE records[k].live
  <2> HIDE DEF e
  <2>1. CASE k = i
    BY <1>3, <1>4, <2>1 DEF Kept
  <2>2. CASE k # i
    BY <1>4, <2>2 DEF Kept
  <2> QED BY <2>1, <2>2
<1> QED BY <1>2, <1>4, <1>5, <1>6, <1>7 DEF Live
Grown == /\ records' \in Seq(RecordType) /\ Len(records) <= Len(records') /\ Records \subseteq Records'
         /\ \A i \in Records : records'[i].since = records[i].since /\ (records'[i].live => records[i].live)

(* Nothing fires: the records stay in order whatever becomes of them. *)
LEMMA RecordsMove ==
    ASSUME IInv, RecordsOK, UNCHANGED fired,
           \/ UNCHANGED records
           \/ \E i : Delete(i)
           \/ \E kind \in {"shot", "repeat"}, version \in Nat : Make(kind, version)
           \/ Edited /\ her.row.id \in Records /\ her.row.version \in Nat
              /\ (her.timing => Kind(her.rule) = "repeat")
    PROVE  RecordsOK' /\ Grown
<1> DEFINE R == Records
<1>0. records \in Seq(RecordType) /\ fired \in Seq(Nat) /\ fired' = fired /\ Fired' = Fired
      /\ \A i \in Records : records[i] \in RecordType
  BY DEF RecordsOK, IInv, Logged, Fired, Records
<1>1. CASE UNCHANGED records
  BY <1>0, <1>1 DEF RecordsOK, Grown, Records, Fired
<1>2. ASSUME NEW i, Delete(i) PROVE RecordsOK' /\ Grown
  <2>1. /\ SameIds
        /\ \A k \in Records : Kept(k) /\ records'[k].live = IF k = i THEN FALSE ELSE records[k].live
    BY <1>0, <1>2, Deleted
  <2>2. \A k \in Records : Kept(k) /\ (records'[k].live => records[k].live)
    BY <2>1
  <2>3. \A k \in Records' : /\ records'[k].since <= Len(fired)
                            /\ records'[k].kind = "shot" /\ records'[k].live => k \notin Fired
    BY <2>1, <2>2 DEF RecordsOK, Kept, SameIds
  <2>4. \A s \in DOMAIN fired : fired[s] \in Records' /\ records'[fired[s]].since < s
    BY <2>1, <2>2 DEF RecordsOK, Kept, SameIds
  <2>5. Grown
    BY <1>0, <2>1, <2>2 DEF Grown, Kept, SameIds
  <2> QED BY <1>0, <2>1, <2>3, <2>4, <2>5 DEF RecordsOK, SameIds
<1>3. ASSUME NEW kind \in {"shot", "repeat"}, NEW version \in Nat, Make(kind, version) PROVE RecordsOK' /\ Grown
  <2>1. /\ Len(records') = Len(records) + 1 /\ records' \in Seq(RecordType)
        /\ NextId \in Nat /\ Records' = Records \cup {NextId}
        /\ \A k \in Records : records'[k] = records[k] /\ k < NextId
        /\ records'[NextId] = Record(kind, version)
    BY <1>0, <1>3, Making
  <2>2. NextId \notin Fired
    BY <1>0, <2>1 DEF RecordsOK, Fired
  <2>3. Len(fired) \in Nat
    BY <1>0
  <2>4. \A i \in Records' : i \in Records \/ i = NextId
    BY <2>1
  <2>5. \A i \in Records' : /\ records'[i].since <= Len(fired)
                            /\ records'[i].kind = "shot" /\ records'[i].live => i \notin Fired
    BY <2>1, <2>2, <2>3, <2>4 DEF RecordsOK, Record
  <2>6. \A s \in DOMAIN fired : fired[s] \in Records' /\ records'[fired[s]].since < s
    BY <2>1 DEF RecordsOK
  <2> QED BY <1>0, <2>1, <2>5, <2>6 DEF RecordsOK, Grown
<1>4. ASSUME Edited, her.row.id \in Records, her.row.version \in Nat, her.timing => Kind(her.rule) = "repeat"
      PROVE  RecordsOK' /\ Grown
  BY <1>0, <1>4, EditedOne DEF RecordsOK, Grown, SameIds
<1> QED BY <1>1, <1>2, <1>3, <1>4

(* A row saved is a row of the plan's type. *)
LEMMA SavedOK ==
    ASSUME NEW r \in Rows, Saved(r)
    PROVE  plan' \in Rows /\ plan'.status = r.status /\ plan'.id = r.id /\ plan'.rule = r.rule
           /\ plan'.version = r.version /\ plan'.last = r.last /\ plan'.revision = r.revision + 1
BY DEF Saved, Rows

(* Her call moves on, the hand and the log stay. *)
LEMMA HerMovesOK ==
    ASSUME TInv, IInv, UNCHANGED <<fired, up, hand, acted>>, RecordsOK', Grown,
           plan' = plan \/ (plan' \in Rows /\ plan'.last = plan.last /\ plan'.id <= Len(records')),
           HerOK'
    PROVE  TInv'
<1>1. Len(records) \in Nat /\ Len(records') \in Nat /\ Len(records) <= Len(records')
  BY DEF TInv, RecordsOK, Grown
<1>2. PlanOK'
  BY <1>1 DEF TInv, PlanOK, Rows
<1>3. HandOK'
  <2>1. hand.pc = "save" => hand.row.id \in Nat
    BY DEF TInv, HandOK, Rows
  <2>2. Mending' = Mending /\ Goes' = Goes
    BY DEF Mending, Goes
  <2>3. hand.pc = "save" => hand.row.id <= Len(records')
    BY <1>1, <2>1 DEF TInv, HandOK
  <2>4. Mending => hand.made <= Len(records')
    BY <1>1 DEF TInv, HandOK
  <2> QED BY <1>1, <2>2, <2>3, <2>4 DEF TInv, HandOK, Grown
<1> QED BY <1>2, <1>3 DEF TInv
(* Her plan tool keeps the types. *)
LEMMA HerTyped == ASSUME TInv, IInv, HerNext PROVE TInv' /\ Grown
<1> USE DEF HerStep, Quiet
<1>0. /\ plan \in Rows /\ plan.id \in Nat /\ Len(records) \in Nat /\ records \in Seq(RecordType) /\ fired \in Seq(Nat)
      /\ \A r \in Rows : r.version \in Nat /\ r.id \in Nat
      /\ \A rule : Kind(rule) \in {"shot", "repeat"}
  BY DEF TInv, PlanOK, RecordsOK, IInv, Logged, Rows, Kind
<1>1. ASSUME NEW rule \in Rules, Create(rule) PROVE TInv' /\ Grown
  <2> DEFINE row == [plan EXCEPT !.status = "CREATING", !.rule = rule, !.version = 1]
  <2>1. row \in Rows /\ Saved(row) /\ row.id = plan.id /\ row.last = plan.last
    BY <1>0, <1>1 DEF Rows, Create
  <2>2. plan' \in Rows /\ plan'.last = plan.last /\ plan'.id = plan.id
    <3> HIDE DEF row
    <3> QED BY <2>1, SavedOK
  <2>3. her' = [pc |-> "find"] /\ UNCHANGED <<records, fired, up, hand, acted>> /\ ~hand.start /\ up
    BY <1>1 DEF Create, native
  <2>4. HerOK'
    BY <2>3 DEF HerOK, Reading
  <2> QED BY <1>0, <2>2, <2>3, <2>4, RecordsMove, HerMovesOK DEF TInv, PlanOK
<1>2. ASSUME NEW rule \in Rules, NEW timing \in BOOLEAN, Update(rule, timing) PROVE TInv' /\ Grown
  <2>1. UNCHANGED <<records, fired, up, hand, acted, plan>> /\ ~hand.start /\ up
    BY <1>2 DEF Update, native
  <2>2. her' = [pc |-> IF plan.id # None /\ plan.rule = rule /\ (~timing \/ rule = "native") THEN "edit" ELSE "make",
                row |-> plan, rule |-> rule, timing |-> timing]
    BY <1>2 DEF Update
  <2>3. HerOK'
    <3>1. /\ her' \in [pc : {"edit", "make"}, row : Rows, rule : Rules, timing : BOOLEAN]
          /\ her'.pc \in {"edit", "make"} /\ her'.row = plan /\ her'.rule = rule /\ her'.timing = timing
          /\ her'.pc = "edit" => plan.id # None /\ plan.rule = rule /\ (~timing \/ rule = "native")
      BY <1>0, <2>2
    <3> QED BY <2>1, <3>1 DEF HerOK, Reading, TInv, PlanOK
  <2> QED BY <2>1, <2>3, RecordsMove, HerMovesOK DEF TInv
<1>3. CASE CreateAgain
  <2>1. UNCHANGED <<records, fired, up, hand, acted, plan>> /\ ~hand.start /\ up /\ her' = [pc |-> "find"]
    BY <1>3 DEF CreateAgain, native, seen
  <2>2. HerOK'
    BY <2>1 DEF HerOK, Reading
  <2> QED BY <2>1, <2>2, RecordsMove, HerMovesOK DEF TInv
<1>4. CASE Find
  <2>1. UNCHANGED <<fired, up, hand, acted, plan>> /\ ~hand.start /\ up
    BY <1>4 DEF Find, seen
  <2>2. CASE Len(records) = 0
    <3>1. Make(Kind(plan.rule), plan.version) /\ her' = [pc |-> "bind", id |-> NextId]
      BY <1>4, <2>2 DEF Find
    <3>2. RecordsOK' /\ Grown /\ NextId \in Records'
      BY <1>0, <2>1, <3>1, RecordsMove, Making DEF TInv
    <3>3. HerOK'
      BY <2>1, <3>1, <3>2 DEF HerOK, Reading
    <3> QED BY <2>1, <3>2, <3>3, HerMovesOK
  <2>3. CASE Len(records) # 0
    <3>1. UNCHANGED records /\ (her' = [pc |-> "idle"] \/ (her' = [pc |-> "bind", id |-> 1] /\ Len(records) = 1))
      BY <1>4, <2>3 DEF Find
    <3>2. HerOK'
      BY <2>1, <3>1 DEF HerOK, Reading, Records
    <3> QED BY <2>1, <3>1, <3>2, RecordsMove, HerMovesOK DEF TInv
  <2> QED BY <2>2, <2>3
<1>5. CASE Bind
  <2> DEFINE row == [plan EXCEPT !.id = her.id, !.status = IF plan.status \in Ended THEN @ ELSE "ACTIVE"]
  <2>0. her.id \in Records /\ her.id \in Nat /\ her.id <= Len(records)
    BY <1>5, <1>0 DEF Bind, TInv, HerOK, Records
  <2>1. row \in Rows /\ Saved(row) /\ row.id = her.id /\ row.last = plan.last
    BY <1>0, <1>5, <2>0 DEF Rows, Bind
  <2>2. plan' \in Rows /\ plan'.last = plan.last /\ plan'.id = her.id
    <3> HIDE DEF row
    <3> QED BY <2>1, SavedOK
  <2>3. her' = [pc |-> "idle"] /\ UNCHANGED <<records, fired, up, hand, acted>> /\ ~hand.start /\ up
    BY <1>5 DEF Bind, native, seen
  <2>4. HerOK'
    BY <2>3 DEF HerOK, Reading
  <2> QED BY <2>0, <2>2, <2>3, <2>4, RecordsMove, HerMovesOK DEF TInv
<1>6. CASE Edit
  <2>1. UNCHANGED <<fired, up, hand, acted, plan>> /\ ~hand.start /\ up
        /\ her \in [pc : {"edit", "make"}, row : Rows, rule : Rules, timing : BOOLEAN]
        /\ (her.timing => her.rule = "native") /\ her.rule = her.row.rule /\ her.row.id <= Len(records) /\ her.row.id # None
        /\ her.pc = "edit"
    BY <1>6 DEF Edit, seen, TInv, HerOK, Reading
  <2>2. CASE Live(her.row.id)
    <3>1. Edited /\ her' = [pc |-> "save", row |-> her.row, rule |-> her.rule, id |-> her.row.id] /\ her.row.id \in Records
      BY <1>6, <2>2 DEF Edit, Live
    <3>2. RecordsOK' /\ Grown
      BY <1>0, <2>1, <3>1, RecordsMove DEF TInv, Kind
    <3>3. HerOK'
      <4>1. /\ her' \in [pc : {"drop", "save"}, row : Rows, rule : Rules, id : Records'] /\ her'.pc = "save"
            /\ her'.row = her.row /\ her'.id = her.row.id /\ her.row.id \in Nat
        BY <1>0, <2>1, <3>1, <3>2 DEF Grown
      <4>2. her.row.id <= Len(records')
        BY <1>0, <2>1, <3>2, <4>1 DEF Grown
      <4> QED BY <2>1, <4>1, <4>2 DEF HerOK, Reading
    <3> QED BY <2>1, <3>2, <3>3, HerMovesOK
  <2>3. CASE ~Live(her.row.id)
    <3>1. UNCHANGED records /\ her' = [her EXCEPT !.pc = "make"]
      BY <1>6, <2>3 DEF Edit
    <3>2. HerOK'
      <4>1. her' \in [pc : {"edit", "make"}, row : Rows, rule : Rules, timing : BOOLEAN] /\ her'.pc = "make" /\ her'.row = her.row
        BY <2>1, <3>1
      <4> QED BY <2>1, <3>1, <4>1 DEF HerOK, Reading
    <3> QED BY <2>1, <3>1, <3>2, RecordsMove, HerMovesOK DEF TInv
  <2> QED BY <2>2, <2>3
<1>7. CASE MakeNew
  <2>1. UNCHANGED <<fired, up, hand, acted, plan>> /\ ~hand.start /\ up
        /\ her \in [pc : {"edit", "make"}, row : Rows, rule : Rules, timing : BOOLEAN] /\ her.row.id <= Len(records)
        /\ Make(Kind(her.rule), her.row.version + 1)
        /\ her' = [pc |-> IF her.row.id = None THEN "save" ELSE "drop", row |-> her.row, rule |-> her.rule, id |-> NextId]
    BY <1>7 DEF MakeNew, seen, TInv, HerOK, Reading
  <2>2. RecordsOK' /\ Grown /\ NextId \in Records' /\ Len(records') = Len(records) + 1
    BY <1>0, <2>1, RecordsMove, Making DEF TInv
  <2>3. HerOK'
    <3>1. /\ her' \in [pc : {"drop", "save"}, row : Rows, rule : Rules, id : Records'] /\ her'.pc \in {"save", "drop"}
          /\ her'.row = her.row /\ her'.id = Len(records) + 1 /\ her.row.id \in Nat
          /\ her'.pc = "drop" => her.row.id # None
      BY <1>0, <2>1, <2>2 DEF NextId
    <3>2. her.row.id <= Len(records') /\ her.row.id < her'.id
      BY <1>0, <2>1, <2>2, <3>1
    <3> QED BY <2>1, <3>1, <3>2 DEF HerOK, Reading
  <2> QED BY <2>1, <2>2, <2>3, HerMovesOK
<1>8. CASE DropOld
  <2>1. UNCHANGED <<fired, up, hand, acted, plan>> /\ ~hand.start /\ up
        /\ her \in [pc : {"drop", "save"}, row : Rows, rule : Rules, id : Records] /\ her.row.id <= Len(records)
        /\ her.row.id < her.id
        /\ (Delete(her.row.id) \/ UNCHANGED records) /\ her' = [her EXCEPT !.pc = "save"]
    BY <1>8 DEF DropOld, seen, TInv, HerOK, Reading
  <2>2. RecordsOK' /\ Grown
    BY <1>0, <2>1, RecordsMove DEF TInv
  <2>3. HerOK'
    <3>1. /\ her' \in [pc : {"drop", "save"}, row : Rows, rule : Rules, id : Records'] /\ her'.pc = "save"
          /\ her'.row = her.row /\ her'.id = her.id /\ her.row.id \in Nat /\ her.id \in Nat
      <4>1. /\ her' \in [pc : {"drop", "save"}, row : Rows, rule : Rules, id : Records] /\ her'.pc = "save"
            /\ her'.row = her.row /\ her'.id = her.id
        BY <2>1
      <4>2. her.id \in Records' /\ her.id \in Nat /\ her.row.id \in Nat
        BY <1>0, <2>1, <2>2 DEF Grown, Records
      <4> QED BY <4>1, <4>2
    <3>2. her.row.id <= Len(records') /\ her.row.id <= her.id
      BY <1>0, <2>1, <2>2, <3>1 DEF Grown
    <3> QED BY <2>1, <3>1, <3>2 DEF HerOK, Reading
  <2> QED BY <2>1, <2>2, <2>3, HerMovesOK
<1>9. CASE SaveUpdate
  <2>1. UNCHANGED <<records, fired, up, hand, acted>> /\ ~hand.start /\ up /\ her' = [pc |-> "idle"]
        /\ her \in [pc : {"drop", "save"}, row : Rows, rule : Rules, id : Records] /\ her.id <= Len(records) /\ her.id \in Nat
    BY <1>9, <1>0 DEF SaveUpdate, native, seen, TInv, HerOK, Records
  <2>2. HerOK'
    BY <2>1 DEF HerOK, Reading
  <2>3. CASE Unchanged
    <3> DEFINE row == Changed(her.row)
    <3>1. her.row = plan
      BY <1>9, <2>3 DEF SaveUpdate, Unchanged, IInv, HerFresh, Fresh, Reading
    <3>2. row \in Rows /\ row.id = her.id /\ row.last = plan.last
      <4>1. row = [plan EXCEPT !.status = "ACTIVE", !.id = her.id, !.rule = her.rule, !.version = @ + 1]
        BY <3>1 DEF Changed
      <4>2. her.rule \in Rules
        BY <2>1
      <4> HIDE DEF row
      <4>3. row = [status |-> "ACTIVE", id |-> her.id, rule |-> her.rule, version |-> plan.version + 1,
                   last |-> plan.last, revision |-> plan.revision]
        BY <1>0, <4>1 DEF Rows
      <4>4. plan.version + 1 \in Nat /\ plan.last \in Nat /\ plan.revision \in Nat
        BY <1>0 DEF Rows
      <4> QED BY <2>1, <4>2, <4>3, <4>4 DEF Rows
    <3>4. Saved(row)
      BY <1>9, <2>3 DEF SaveUpdate
    <3>3. plan' \in Rows /\ plan'.last = plan.last /\ plan'.id = her.id
      <4> HIDE DEF row
      <4> QED BY <3>2, <3>4, SavedOK
    <3> QED BY <2>1, <2>2, <3>3, RecordsMove, HerMovesOK DEF TInv
  <2>4. CASE ~Unchanged
    BY <1>9, <2>1, <2>2, <2>4, RecordsMove, HerMovesOK DEF TInv, SaveUpdate
  <2> QED BY <2>3, <2>4
<1>10. CASE Cancel
  <2>1. UNCHANGED <<records, fired, up, hand, acted, plan>> /\ ~hand.start /\ up
        /\ her' = [pc |-> IF plan.id = None THEN "cancel" ELSE "delete", row |-> plan]
    BY <1>10 DEF Cancel, native, seen
  <2>2. HerOK'
    <3>1. her' \in [pc : {"delete", "cancel"}, row : Rows] /\ her'.pc \in {"cancel", "delete"} /\ her'.row = plan
          /\ (her'.pc = "delete" => plan.id # None)
      BY <1>0, <2>1
    <3> QED BY <2>1, <3>1 DEF HerOK, Reading, TInv, PlanOK
  <2> QED BY <2>1, <2>2, RecordsMove, HerMovesOK DEF TInv
<1>11. CASE DeleteIts
  <2>1. UNCHANGED <<fired, up, hand, acted, plan>> /\ ~hand.start /\ up
        /\ her \in [pc : {"delete", "cancel"}, row : Rows] /\ Delete(her.row.id) /\ her' = [her EXCEPT !.pc = "cancel"]
    BY <1>11 DEF DeleteIts, seen, TInv, HerOK
  <2>2. HerOK'
    <3>1. her' \in [pc : {"delete", "cancel"}, row : Rows] /\ her'.pc = "cancel"
      BY <2>1
    <3> QED BY <2>1, <3>1 DEF HerOK, Reading
  <2> QED BY <2>1, <2>2, RecordsMove, HerMovesOK DEF TInv
<1>12. CASE SaveCancel
  <2> DEFINE row == [plan EXCEPT !.status = "CANCELLED"]
  <2>1. row \in Rows /\ Saved(row) /\ row.id = plan.id /\ row.last = plan.last
    BY <1>0, <1>12 DEF Rows, SaveCancel
  <2>2. plan' \in Rows /\ plan'.last = plan.last /\ plan'.id = plan.id
    <3> HIDE DEF row
    <3> QED BY <2>1, SavedOK
  <2>3. her' = [pc |-> "idle"] /\ UNCHANGED <<records, fired, up, hand, acted>> /\ ~hand.start /\ up
    BY <1>12 DEF SaveCancel, native, seen
  <2>4. HerOK'
    BY <2>3 DEF HerOK, Reading
  <2> QED BY <2>2, <2>3, <2>4, RecordsMove, HerMovesOK DEF TInv, PlanOK
<1>13. CASE HerCallFails
  <2>1. UNCHANGED <<fired, up, hand, acted, plan>> /\ ~hand.start /\ up /\ her' = [pc |-> "idle"]
    BY <1>13 DEF HerCallFails, seen
  <2>2. HerOK'
    BY <2>1 DEF HerOK, Reading
  <2>3. RecordsOK' /\ Grown
    <3>1. CASE UNCHANGED records
      BY <2>1, <3>1, RecordsMove DEF TInv
    <3>2. CASE Make(Kind(plan.rule), plan.version)
      BY <1>0, <2>1, <3>2, RecordsMove DEF TInv
    <3>3. CASE her.pc = "edit" /\ Live(her.row.id) /\ Edited
      BY <1>0, <2>1, <3>3, RecordsMove DEF TInv, HerOK, Live, Kind
    <3>4. CASE her.pc = "make" /\ Make(Kind(her.rule), her.row.version + 1)
      BY <1>0, <2>1, <3>4, RecordsMove DEF TInv, HerOK
    <3>5. CASE Delete(her.row.id)
      BY <2>1, <3>5, RecordsMove DEF TInv
    <3> QED BY <1>13, <3>1, <3>2, <3>3, <3>4, <3>5 DEF HerCallFails
  <2> QED BY <2>1, <2>2, <2>3, HerMovesOK
<1> QED
  BY <1>1, <1>2, <1>3, <1>4, <1>5, <1>6, <1>7, <1>8, <1>9, <1>10, <1>11, <1>12, <1>13 DEF HerNext
(* The thread that hands over moves on, her call and the log stay. *)
LEMMA HandMovesOK ==
    ASSUME TInv, IInv, UNCHANGED <<fired, her>>, RecordsOK', Grown,
           plan' = plan \/ (plan' \in Rows /\ plan'.last <= Len(fired) /\ plan'.id <= Len(records')),
           acted' \subseteq DOMAIN fired,
           HandOK', hand'.start \/ ~up' => hand.start \/ ~up
    PROVE  TInv'
<1>1. Len(records) \in Nat /\ Len(records') \in Nat /\ Len(records) <= Len(records')
  BY DEF TInv, RecordsOK, Grown
<1>2. PlanOK'
  BY <1>1 DEF TInv, PlanOK, Rows
<1>3. HerOK'
  <2>1. her.pc \in Reading \cup {"delete"} => her.row.id \in Nat
    BY DEF TInv, HerOK, Rows, Reading
  <2>2. her.pc \in Reading \cup {"delete"} => her.row.id <= Len(records')
    BY <1>1, <2>1 DEF TInv, HerOK
  <2>3. her.pc \in {"drop", "save"} => her \in [pc : {"drop", "save"}, row : Rows, rule : Rules, id : Records']
    BY DEF TInv, HerOK, Grown
  <2>4. her.pc = "bind" => her.id \in Records'
    BY DEF TInv, HerOK, Grown
  <2> QED BY <2>2, <2>3, <2>4 DEF TInv, HerOK
<1> QED BY <1>2, <1>3 DEF TInv

(* The thread that hands over keeps the types. *)
LEMMA HandTyped == ASSUME TInv, IInv, HandNext PROVE TInv' /\ Grown
<1> USE DEF HandAt, Waits, Onward
<1>0. /\ plan \in Rows /\ plan.id \in Nat /\ plan.last \in Nat /\ plan.id <= Len(records) /\ plan.last <= Len(fired)
      /\ Len(records) \in Nat /\ records \in Seq(RecordType) /\ fired \in Seq(Nat) /\ Len(fired) \in Nat
      /\ \A r \in Rows : r.version \in Nat /\ r.id \in Nat
      /\ \A rule : Kind(rule) \in {"shot", "repeat"}
      /\ acted \subseteq DOMAIN fired
      /\ RecordsOK /\ HandOK /\ HandGoes
  BY DEF TInv, PlanOK, RecordsOK, IInv, Logged, Rows, Kind
<1>1. CASE Deliver
  <2>1. UNCHANGED <<records, fired, plan, her, acted, up>> /\ ~hand.start /\ up
        /\ hand' = [pc |-> "read", start |-> FALSE, seq |-> First, upto |-> Len(fired)]
    BY <1>1 DEF Deliver, native, seen, TInv, HandOK
  <2>2. HandOK'
    BY <1>0, <2>1 DEF HandOK, Goes, Mending, Firing
  <2> QED BY <1>0, <2>1, <2>2, RecordsMove, HandMovesOK
<1>2. CASE Read
  <2>1. UNCHANGED <<records, fired, her, acted, up>> /\ up /\ hand.pc = "read" /\ hand.seq <= hand.upto
        /\ hand' \in {Onward, [hand EXCEPT !.pc = "act"]}
        /\ (UNCHANGED plan \/ Saved([plan EXCEPT !.last = hand.seq]))
    BY <1>2 DEF Read, native
  <2>2. Goes /\ hand.seq \in Nat \ {0} /\ hand.upto \in Nat /\ hand.upto <= Len(fired)
    BY <1>0, <2>1 DEF HandGoes, HandOK, Goes, Mending
  <2>3. hand'.pc \in {"read", "act"} /\ hand'.start = hand.start /\ hand'.upto = hand.upto
        /\ (hand'.pc = "act" => hand'.seq = hand.seq)
    BY <1>0, <2>1, <2>2 DEF HandGoes
  <2>4. HandOK'
    BY <1>0, <2>1, <2>2, <2>3 DEF HandOK, Goes, Mending, Firing
  <2>5. plan' = plan \/ (plan' \in Rows /\ plan'.last <= Len(fired) /\ plan'.id <= Len(records))
    <3> DEFINE row == [plan EXCEPT !.last = hand.seq]
    <3>1. row \in Rows /\ row.last = hand.seq /\ row.id = plan.id
      BY <1>0, <2>2 DEF Rows
    <3>2. UNCHANGED plan \/ Saved(row)
      BY <2>1
    <3>3. hand.seq <= Len(fired)
      BY <1>0, <2>1, <2>2
    <3> HIDE DEF row
    <3> QED BY <1>0, <3>1, <3>2, <3>3, SavedOK
  <2> QED BY <1>0, <2>1, <2>3, <2>4, <2>5, RecordsMove, HandMovesOK
<1>3. CASE Act
  <2>1. UNCHANGED <<records, fired, her, plan, up>> /\ up /\ hand.pc = "act"
        /\ hand' = [hand EXCEPT !.pc = "reread"] /\ acted' \subseteq acted \cup {hand.seq}
    BY <1>3 DEF Act, native
  <2>2. Goes /\ hand.seq \in Nat \ {0} /\ hand.upto \in Nat /\ hand.upto <= Len(fired) /\ hand.seq <= hand.upto
    BY <1>0, <2>1 DEF HandGoes, HandOK, Goes, Mending, Firing
  <2>3. hand'.pc = "reread" /\ hand'.start = hand.start /\ hand'.upto = hand.upto /\ hand'.seq = hand.seq
    BY <1>0, <2>1, <2>2 DEF HandGoes
  <2>4. HandOK'
    BY <1>0, <2>1, <2>2, <2>3 DEF HandOK, Goes, Mending, Firing
  <2>5. hand.seq \in DOMAIN fired
    BY <1>0, <2>2
  <2> QED BY <1>0, <2>1, <2>3, <2>4, <2>5, RecordsMove, HandMovesOK
<1>4. CASE Reread
  <2>1. UNCHANGED <<records, fired, her, acted, plan, up>> /\ up /\ hand.pc = "reread"
        /\ hand' = [pc |-> "save", start |-> hand.start, seq |-> hand.seq, upto |-> hand.upto, row |-> plan]
    BY <1>4 DEF Reread, native, seen
  <2>2. Goes /\ hand.upto <= Len(fired) /\ hand.seq <= hand.upto
    BY <1>0, <2>1 DEF HandOK, Goes, Mending, Firing
  <2>3. HandOK'
    BY <1>0, <2>1, <2>2 DEF HandOK, Goes, Mending, Firing
  <2> QED BY <1>0, <2>1, <2>3, RecordsMove, HandMovesOK
<1>5. CASE SaveFiring
  <2>1. UNCHANGED <<records, fired, her, acted, up>> /\ up /\ hand.pc = "save"
    BY <1>5 DEF SaveFiring, native, seen
  <2>2. Goes /\ hand.seq \in Nat \ {0} /\ hand.upto \in Nat /\ hand.upto <= Len(fired) /\ hand.seq <= hand.upto
        /\ hand.row \in Rows /\ hand.row.id <= Len(records)
    BY <1>0, <2>1 DEF HandGoes, HandOK, Goes, Mending, Firing
  <2>3. CASE plan.revision = hand.row.revision
    <3> DEFINE status == AfterFiring(hand.row, hand.seq)
               row == [hand.row EXCEPT !.status = status, !.last = hand.seq]
    <3>1. status \in {"NONE", "CREATING", "ACTIVE", "CANCELLED", "FIRED"}
      BY <2>2 DEF AfterFiring, Rows
    <3>2. Saved(row) /\ hand' \in {[Onward EXCEPT !.pc = "remove"], ArmsNext, Onward}
      BY <1>5, <2>3 DEF SaveFiring
    <3> HIDE DEF status
    <3>3. row \in Rows /\ row.last = hand.seq /\ row.id = hand.row.id /\ hand.seq <= Len(fired)
      <4>1. hand.seq <= Len(fired)
        BY <1>0, <2>2
      <4>2. hand.seq \in Nat
        BY <2>2
      <4>3. row \in Rows /\ row.last = hand.seq /\ row.id = hand.row.id
        <5> DEFINE r == hand.row
        <5>1. r \in Rows /\ row = [r EXCEPT !.status = status, !.last = hand.seq]
          BY <2>2
        <5> HIDE DEF row, r
        <5>2. row \in Rows /\ row.last = hand.seq /\ row.id = r.id
          BY <3>1, <4>2, <5>1 DEF Rows
        <5> QED BY <5>2 DEF r
      <4> QED BY <4>1, <4>3
    <3>4. plan' \in Rows /\ plan'.last <= Len(fired) /\ plan'.id <= Len(records)
      <4> HIDE DEF row
      <4> QED BY <1>0, <2>2, <3>2, <3>3, SavedOK
    <3>5. hand'.pc \in {"remove", "arm", "read"} /\ hand'.start = hand.start /\ hand'.upto = hand.upto
          /\ (hand'.pc = "arm" => hand'.back = "read")
      BY <3>2 DEF ArmsNext
    <3>6. HandOK'
      BY <1>0, <2>1, <2>2, <3>5 DEF HandOK, Goes, Mending, Firing
    <3> QED BY <1>0, <2>1, <3>4, <3>5, <3>6, RecordsMove, HandMovesOK
  <2>4. CASE plan.revision # hand.row.revision
    <3>1. hand' = [pc |-> "idle", start |-> FALSE] /\ UNCHANGED plan
      BY <1>5, <2>4 DEF SaveFiring
    <3>2. HandOK'
      BY <1>0, <2>1, <3>1 DEF HandOK, Goes, Mending, Firing
    <3> QED BY <1>0, <2>1, <3>1, <3>2, RecordsMove, HandMovesOK
  <2> QED BY <2>3, <2>4
<1>6. CASE RemoveFired
  <2>1. UNCHANGED <<fired, plan, her, acted, up>> /\ up /\ hand.pc = "remove" /\ hand' = [hand EXCEPT !.pc = "read"]
        /\ (Delete(The(hand.seq - 1)) \/ UNCHANGED records)
    BY <1>6 DEF RemoveFired, seen
  <2>2. hand'.pc = "read" /\ hand'.start = hand.start /\ (Goes /\ hand'.upto = hand.upto)
    BY <1>0, <2>1 DEF HandGoes, Goes, Mending
  <2>3. HandOK'
    BY <1>0, <2>1, <2>2 DEF HandOK, Goes, Mending, Firing
  <2> QED BY <1>0, <2>1, <2>2, <2>3, RecordsMove, HandMovesOK
<1>7. CASE Arm
  <2>1. UNCHANGED <<fired, plan, her, acted, up>> /\ up /\ hand.pc = "arm"
    BY <1>7 DEF Arm, seen
  <2>2. CASE hand' = Return /\ UNCHANGED records
    <3>1. hand' = [hand EXCEPT !.pc = hand.back]
      BY <2>2 DEF Return
    <3>2. /\ hand'.pc = hand.back /\ hand.back \in {"read", "mend"} /\ hand'.start = hand.start /\ hand'.back = hand.back
          /\ (Goes => hand'.upto = hand.upto)
          /\ (Mending => /\ hand'.waiting = hand.waiting /\ hand'.made = hand.made /\ hand'.at = hand.at
                         /\ hand'.armed = hand.armed /\ DOMAIN hand' = DOMAIN hand)
      BY <1>0, <2>1, <3>1 DEF HandGoes, HandOK, Goes, Mending
    <3>3. HandOK'
      BY <1>0, <2>1, <2>2, <3>2 DEF HandOK, Goes, Mending, Firing
    <3> QED BY <1>0, <2>1, <2>2, <3>2, <3>3, RecordsMove, HandMovesOK
  <2>3. ASSUME NEW id, NEW taken, hand' = Armed(id, taken), id \in Records', RecordsOK', Grown PROVE TInv' /\ Grown
    <3>1. hand' = [hand EXCEPT !.pc = "hang", !.id = id, !.taken = taken]
      BY <2>3 DEF Armed
    <3>2. /\ hand'.pc = "hang" /\ hand'.start = hand.start /\ hand'.back = hand.back /\ hand'.id = id
          /\ (Goes => hand'.upto = hand.upto)
          /\ (Mending => /\ hand'.waiting = hand.waiting /\ hand'.made = hand.made /\ hand'.at = hand.at
                         /\ hand'.armed = hand.armed /\ DOMAIN hand' = DOMAIN hand)
      BY <1>0, <2>1, <3>1 DEF HandGoes, HandOK, Goes, Mending
    <3>3. Mending => hand.made <= Len(records')
      BY <1>0, <2>3 DEF HandOK, Grown
    <3>4. HandOK'
      BY <1>0, <2>1, <2>3, <3>2, <3>3 DEF HandOK, Goes, Mending, Firing
    <3> QED BY <1>0, <2>1, <2>3, <3>2, <3>4, HandMovesOK
  <2>4. CASE Taken # {} /\ hand' = Armed(Newest(Taken), TRUE) /\ UNCHANGED records
    <3>1. Taken \subseteq 1..Len(records)
      BY DEF Taken, Waiting, Records
    <3>2. Newest(Taken) \in Records
      BY <1>0, <2>4, <3>1, NewestOf DEF Records
    <3>3. RecordsOK' /\ Grown
      BY <1>0, <2>1, <2>4, RecordsMove
    <3>4. Newest(Taken) \in Records'
      BY <3>2, <3>3 DEF Grown
    <3> HIDE DEF Taken
    <3> QED BY <2>3, <2>4, <3>3, <3>4
  <2>5. ASSUME NEW kind \in {"shot", Kind(plan.rule)}, Make(kind, plan.version), hand' = Armed(NextId, FALSE)
        PROVE  TInv' /\ Grown
    <3>1. kind \in {"shot", "repeat"} /\ plan.version \in Nat
      BY <1>0, <2>5
    <3>2. RecordsOK' /\ Grown /\ NextId \in Records'
      BY <1>0, <2>1, <2>5, <3>1, RecordsMove, Making
    <3> QED BY <2>3, <2>5, <3>2
  <2> QED BY <1>7, <2>2, <2>4, <2>5 DEF Arm
<1>8. CASE Hang
  <2>1. UNCHANGED <<fired, her, acted, up>> /\ up /\ hand.pc = "hang" /\ hand' = [hand EXCEPT !.pc = hand.back]
    BY <1>8 DEF Hang, seen, Return
  <2>2. (UNCHANGED records \/ Delete(hand.id)) /\ (UNCHANGED plan \/ Saved([plan EXCEPT !.id = hand.id, !.status = "ACTIVE"]))
    BY <1>8 DEF Hang
  <2>3. RecordsOK' /\ Grown
    BY <1>0, <2>1, <2>2, RecordsMove
  <2>4. /\ hand'.pc = hand.back /\ hand.back \in {"read", "mend"} /\ hand'.start = hand.start /\ hand'.back = hand.back
        /\ (Goes => hand'.upto = hand.upto)
        /\ (Mending => /\ hand'.waiting = hand.waiting /\ hand'.made = hand.made /\ hand'.at = hand.at
                       /\ hand'.armed = hand.armed /\ DOMAIN hand' = DOMAIN hand)
    BY <1>0, <2>1 DEF HandGoes, HandOK, Goes, Mending
  <2>5. Mending => hand.made <= Len(records')
    BY <1>0, <2>3 DEF HandOK, Grown
  <2>6. HandOK'
    BY <1>0, <2>1, <2>4, <2>5 DEF HandOK, Goes, Mending, Firing
  <2>7. plan' = plan \/ (plan' \in Rows /\ plan'.last <= Len(fired) /\ plan'.id <= Len(records'))
    <3> DEFINE row == [plan EXCEPT !.id = hand.id, !.status = "ACTIVE"]
    <3>1. hand.id \in Nat /\ hand.id <= Len(records)
      BY <1>0, <2>1 DEF HandOK, Records
    <3>2. row \in Rows /\ row.id = hand.id /\ row.last = plan.last
      BY <1>0, <3>1 DEF Rows
    <3>3. UNCHANGED plan \/ Saved(row)
      BY <2>2
    <3>4. hand.id <= Len(records')
      BY <1>0, <2>3, <3>1 DEF Grown
    <3> HIDE DEF row
    <3> QED BY <1>0, <3>2, <3>3, <3>4, SavedOK
  <2> QED BY <1>0, <2>1, <2>3, <2>4, <2>6, <2>7, HandMovesOK
<1>9. CASE HandFails
  <2>1. UNCHANGED <<fired, plan, her, acted>> /\ hand' = [pc |-> "idle", start |-> FALSE] /\ up' = ~hand.start /\ up
        /\ (UNCHANGED records \/ Make("shot", plan.version))
    BY <1>9 DEF HandFails, seen
  <2>2. HandOK'
    BY <1>0, <2>1 DEF HandOK, Goes, Mending, Firing
  <2> QED BY <1>0, <2>1, <2>2, RecordsMove, HandMovesOK
<1>10. CASE Answer
  <2>1. UNCHANGED <<records, fired, plan, her, acted, up>> /\ hand' = [pc |-> "idle", start |-> FALSE] /\ up
    BY <1>10 DEF Answer, seen
  <2>2. HandOK'
    BY <1>0, <2>1 DEF HandOK, Goes, Mending, Firing
  <2> QED BY <1>0, <2>1, <2>2, RecordsMove, HandMovesOK
<1>11. CASE ReadAgain
  <2>1. UNCHANGED <<records, fired, plan, her, acted, up>> /\ up /\ hand.pc = "read" /\ hand.start
        /\ hand' = [pc |-> "mend", start |-> TRUE, back |-> "mend", id |-> None, taken |-> FALSE, armed |-> FALSE,
                    at |-> 1, made |-> Len(records), waiting |-> Waiting(None)]
    BY <1>11 DEF ReadAgain, native, seen
  <2>2. Waiting(None) \subseteq 1..Len(records)
    BY DEF Waiting, Records
  <2>3. HandOK'
    BY <1>0, <2>1, <2>2 DEF HandOK, Goes, Mending, Firing
  <2> QED BY <1>0, <2>1, <2>3, RecordsMove, HandMovesOK
<1>12. CASE Mend
  <2>1. UNCHANGED <<records, fired, her, acted, up>> /\ up /\ hand.pc = "mend" /\ hand.at <= hand.made
        /\ hand' \in {[hand EXCEPT !.at = @ + 1], [[hand EXCEPT !.at = @ + 1] EXCEPT !.pc = "arm", !.armed = TRUE]}
    BY <1>12 DEF Mend, native, seen, After
  <2>2. Mending /\ hand.made \in Nat /\ hand.made <= Len(records) /\ hand.at \in Nat \ {0} /\ hand.waiting \subseteq 1..hand.made
        /\ hand.back = "mend" /\ {"pc", "start", "back", "id", "taken", "waiting", "made", "at", "armed"} \subseteq DOMAIN hand
    BY <1>0, <2>1 DEF HandOK, HandGoes, Mending
  <2>3. /\ hand'.pc \in {"mend", "arm"} /\ hand'.start = hand.start /\ hand'.back = "mend"
        /\ hand'.waiting = hand.waiting /\ hand'.made = hand.made /\ hand'.at = hand.at + 1
        /\ hand'.armed \in {hand.armed, TRUE} /\ DOMAIN hand' = DOMAIN hand
    BY <2>1, <2>2
  <2>4. HandOK'
    <3>1. hand'.at \in Nat \ {0} /\ hand'.start
      BY <1>0, <2>2, <2>3 DEF HandOK
    <3> QED BY <2>1, <2>2, <2>3, <3>1 DEF HandOK, Goes, Mending, Firing
  <2>5. ASSUME NEW id \in Nat, id <= Len(records), NEW status \in {"NONE", "CREATING", "ACTIVE", "CANCELLED", "FIRED"},
               Saved([plan EXCEPT !.id = id, !.status = status])
        PROVE  plan' \in Rows /\ plan'.last <= Len(fired) /\ plan'.id <= Len(records)
    <3> DEFINE row == [plan EXCEPT !.id = id, !.status = status]
    <3>1. row \in Rows /\ row.id = id /\ row.last = plan.last /\ Saved(row)
      BY <1>0, <2>5 DEF Rows
    <3> HIDE DEF row
    <3> QED BY <1>0, <2>5, <3>1, SavedOK
  <2>6. ASSUME Saved([plan EXCEPT !.id = hand.at, !.status = IF @ \in Ended THEN @ ELSE "ACTIVE"])
        PROVE  plan' \in Rows /\ plan'.last <= Len(fired) /\ plan'.id <= Len(records)
    <3> DEFINE status == IF plan.status \in Ended THEN plan.status ELSE "ACTIVE"
    <3>1. Saved([plan EXCEPT !.id = hand.at, !.status = status]) /\ hand.at <= Len(records)
          /\ status \in {"NONE", "CREATING", "ACTIVE", "CANCELLED", "FIRED"}
      BY <1>0, <2>1, <2>2, <2>6 DEF Rows
    <3> HIDE DEF status
    <3> QED BY <2>2, <2>5, <3>1
  <2>7. ASSUME Others # {}, Saved([plan EXCEPT !.id = Newest(Others)])
        PROVE  plan' \in Rows /\ plan'.last <= Len(fired) /\ plan'.id <= Len(records)
    <3>1. Others \subseteq 1..hand.made
      BY <2>2 DEF Others
    <3>2. Newest(Others) \in 1..hand.made
      BY <2>2, <2>7, <3>1, NewestOf
    <3>3. Newest(Others) \in Nat /\ Newest(Others) <= Len(records)
      BY <1>0, <2>2, <3>2
    <3>4. [plan EXCEPT !.id = Newest(Others)] = [plan EXCEPT !.id = Newest(Others), !.status = plan.status]
      BY <1>0 DEF Rows
    <3>5. plan.status \in {"NONE", "CREATING", "ACTIVE", "CANCELLED", "FIRED"}
      BY <1>0 DEF Rows
    <3> QED BY <2>5, <2>7, <3>3, <3>4, <3>5
  <2>8. plan' = plan \/ (plan' \in Rows /\ plan'.last <= Len(fired) /\ plan'.id <= Len(records))
    BY <1>12, <2>6, <2>7 DEF Mend
  <2> QED BY <1>0, <2>1, <2>3, <2>4, <2>8, RecordsMove, HandMovesOK
<1>13. CASE Started
  <2>1. UNCHANGED <<records, fired, plan, her, acted, up>> /\ hand' = [pc |-> "idle", start |-> FALSE] /\ up
    BY <1>13 DEF Started, native, seen
  <2>2. HandOK'
    BY <1>0, <2>1 DEF HandOK, Goes, Mending, Firing
  <2> QED BY <1>0, <2>1, <2>2, RecordsMove, HandMovesOK
<1> QED
  BY <1>1, <1>2, <1>3, <1>4, <1>5, <1>6, <1>7, <1>8, <1>9, <1>10, <1>11, <1>12, <1>13 DEF HandNext
(* A record fires, the Host crashes or starts. *)
LEMMA FireTyped == ASSUME TInv, IInv, NEW i \in Records, Fire(i) PROVE TInv' /\ Grown
<1>1. /\ SameIds /\ Len(fired') = Len(fired) + 1 /\ DOMAIN fired' = DOMAIN fired \cup {Len(fired) + 1}
      /\ fired'[Len(fired) + 1] = i /\ \A s \in DOMAIN fired : fired'[s] = fired[s] /\ s <= Len(fired)
      /\ Fired' = Fired \cup {i}
      /\ \A k \in Records : Kept(k) /\ records'[k].live = IF k = i THEN records[i].kind = "repeat" ELSE records[k].live
      /\ records[i].live
  BY FiredOne DEF TInv
<1>2. UNCHANGED <<plan, up, her, hand, acted>>
  BY DEF Fire, seen
<1>3. Len(fired) \in Nat /\ RecordsOK
  BY DEF IInv, Logged, TInv
<1>0. \A k \in Records : records[k].since \in Nat /\ records[k].since <= Len(fired)
  <2>1. \A k \in Records : records[k] \in RecordType
    BY <1>3 DEF RecordsOK, Records
  <2> QED BY <1>3, <2>1 DEF RecordsOK, RecordType
<1>4. ASSUME NEW k \in Records
      PROVE  /\ records'[k].since <= Len(fired') /\ records'[k].since = records[k].since
             /\ records'[k].live => records[k].live
             /\ records'[k].kind = "shot" /\ records'[k].live => k \notin Fired'
  <2>1. records[k].since \in Nat /\ records[k].since <= Len(fired)
    BY <1>0
  <2>2. CASE k = i
    <3>1. Kept(i) /\ (records'[i].live => records[i].kind = "repeat") /\ records[i].live
      BY <1>1
    <3> QED BY <1>1, <1>3, <2>1, <2>2, <3>1 DEF Kept
  <2>3. CASE k # i
    <3>1. records'[k].live = records[k].live /\ Kept(k)
      BY <1>1, <2>3
    <3> QED BY <1>1, <1>3, <2>1, <2>3, <3>1 DEF Kept, RecordsOK
  <2> QED BY <2>2, <2>3
<1>5. ASSUME NEW s \in DOMAIN fired' PROVE fired'[s] \in Records' /\ records'[fired'[s]].since < s
  <2>1. CASE s \in DOMAIN fired
    BY <1>1, <1>3, <1>4, <2>1 DEF RecordsOK, SameIds
  <2>2. CASE s = Len(fired) + 1
    <3>1. records[i].since \in Nat /\ records[i].since <= Len(fired)
      BY <1>0
    <3> QED BY <1>1, <1>3, <1>4, <2>2, <3>1 DEF SameIds
  <2> QED BY <1>1, <2>1, <2>2
<1>6. RecordsOK' /\ Grown
  BY <1>1, <1>4, <1>5 DEF RecordsOK, Grown, SameIds
<1>7. PlanOK'
  BY <1>1, <1>2, <1>3 DEF TInv, PlanOK, SameIds, Rows
<1>8. HerOK'
  BY <1>1, <1>2 DEF TInv, HerOK, SameIds
<1>9. HandOK'
  <2>1. Goes => hand.upto \in Nat
    BY DEF IInv, HandGoes
  <2> QED BY <1>1, <1>2, <1>3, <2>1 DEF TInv, HandOK, SameIds, Goes, Mending
<1> QED BY <1>6, <1>7, <1>8, <1>9 DEF TInv

(* A crash, a start or a step that changes nothing keeps the types. *)
LEMMA HostTyped == ASSUME TInv, IInv, HostCrashes \/ HostStarts \/ UNCHANGED vars PROVE TInv' /\ Grown
<1>1. UNCHANGED <<records, fired, plan, acted>>
  BY DEF HostCrashes, HostStarts, vars, native, seen
<1>2. RecordsOK' /\ Grown
  BY <1>1, RecordsMove DEF TInv
<1>3. PlanOK'
  BY <1>1 DEF TInv, PlanOK
<1>4. CASE HostCrashes
  BY <1>1, <1>2, <1>3, <1>4 DEF HostCrashes, TInv, HerOK, HandOK, Quiet, Waits, Goes, Mending, Firing, Reading
<1>5. CASE HostStarts
  <2>1. her.pc = "idle" /\ UNCHANGED her /\ up' /\ hand' = Begins
    BY <1>5 DEF HostStarts, TInv, HerOK
  <2>2. HandOK'
    BY <1>1, <2>1 DEF HandOK, Begins, Goes, Mending, Firing, IInv, Logged
  <2>3. HerOK'
    BY <2>1 DEF HerOK, Reading
  <2> QED BY <1>2, <1>3, <2>2, <2>3 DEF TInv
<1>6. CASE UNCHANGED vars
  <2>1. UNCHANGED <<her, hand, up>>
    BY <1>6 DEF vars
  <2>2. HerOK'
    BY <1>1, <2>1 DEF TInv, HerOK, Records
  <2>3. HandOK'
    BY <1>1, <2>1 DEF TInv, HandOK, Records, Goes, Mending
  <2> QED BY <1>2, <1>3, <2>2, <2>3 DEF TInv
<1> QED BY <1>4, <1>5, <1>6

(* Every step keeps the types, and no record that ended is live again. *)
LEMMA StepTyped == ASSUME TInv, IInv, [Next]_vars PROVE TInv' /\ Grown
BY HerTyped, HandTyped, FireTyped, HostTyped DEF Next

(* There is no record, no firing and no plan at first. *)
LEMMA InitTyped == Init => TInv
<1> SUFFICES ASSUME Init PROVE TInv
  OBVIOUS
<1>1. records = <<>> /\ fired = <<>> /\ plan = NoPlan /\ her = Quiet /\ hand = Waits /\ acted = {} /\ up
  BY DEF Init
<1>2. Len(records) = 0 /\ records \in Seq(RecordType) /\ Records = {} /\ DOMAIN fired = {} /\ Len(fired) = 0
  BY <1>1 DEF Records
<1>3. RecordsOK
  BY <1>2 DEF RecordsOK
<1>4. PlanOK
  BY <1>1, <1>2 DEF PlanOK, NoPlan, Rows, None
<1>5. HerOK /\ HandOK
  BY <1>1 DEF HerOK, HandOK, Quiet, Waits, Goes, Mending, Firing, Reading
<1> QED BY <1>3, <1>4, <1>5 DEF TInv

-----------------------------------------------------------------------------
(* Before she has created the plan nothing is there. *)
NothingYet == plan.status = "NONE" => /\ Len(records) = 0 /\ rules = {} /\ her.pc = "idle"
                                      /\ hand.pc \in {"idle", "read", "mend"}

(* No save makes a plan one that was never created. *)
LEMMA NoneStays ==
    ASSUME TInv, IInv, Next, plan'.status = "NONE"
    PROVE  plan.status = "NONE"
<1>0. plan \in Rows /\ HandFresh /\ HandOK
  BY DEF TInv, PlanOK, IInv
<1>1. ASSUME NEW r, Saved(r), "status" \in DOMAIN r PROVE r.status = "NONE"
  BY <1>1 DEF Saved
<1>2. CASE Create("once") \/ \E rule \in Rules : Create(rule)
  BY <1>2 DEF Create
<1>3. CASE Bind
  <2> DEFINE row == [plan EXCEPT !.id = her.id, !.status = IF plan.status \in Ended THEN @ ELSE "ACTIVE"]
  <2>1. Saved(row) /\ "status" \in DOMAIN row /\ row.status # "NONE"
    BY <1>0, <1>3 DEF Bind, Rows, Ended
  <2> HIDE DEF row
  <2> QED BY <1>1, <2>1
<1>4. CASE SaveUpdate
  <2>1. CASE Unchanged
    <3>1. her.row \in Rows
      BY <1>4 DEF SaveUpdate, HerStep, TInv, HerOK
    <3>2. "status" \in DOMAIN Changed(her.row) /\ Changed(her.row).status = "ACTIVE" /\ Saved(Changed(her.row))
      BY <1>4, <2>1, <3>1 DEF SaveUpdate, Changed, Rows
    <3> QED BY <1>1, <3>2
  <2>2. CASE ~Unchanged
    BY <1>4, <2>2 DEF SaveUpdate
  <2> QED BY <2>1, <2>2
<1>5. CASE SaveCancel
  <2> DEFINE row == [plan EXCEPT !.status = "CANCELLED"]
  <2>1. Saved(row) /\ "status" \in DOMAIN row /\ row.status = "CANCELLED"
    BY <1>0, <1>5 DEF SaveCancel, Rows
  <2> HIDE DEF row
  <2> QED BY <1>1, <2>1
<1>6. CASE Read
  <2> DEFINE row == [plan EXCEPT !.last = hand.seq]
  <2>1. (UNCHANGED plan \/ Saved(row)) /\ "status" \in DOMAIN row /\ row.status = plan.status
    BY <1>0, <1>6 DEF Read, Rows
  <2> HIDE DEF row
  <2> QED BY <1>1, <2>1
<1>7. CASE SaveFiring
  <2>1. CASE plan.revision = hand.row.revision
    <3>1. hand.row = plan
      BY <1>0, <1>7, <2>1 DEF SaveFiring, HandAt, HandFresh, Fresh
    <3> DEFINE row == [plan EXCEPT !.status = AfterFiring(plan, hand.seq), !.last = hand.seq]
    <3>2. Saved(row) /\ "status" \in DOMAIN row /\ (row.status = "NONE" => plan.status = "NONE")
      BY <1>0, <1>7, <2>1, <3>1 DEF SaveFiring, AfterFiring, Rows
    <3> HIDE DEF row
    <3> QED BY <1>1, <3>2
  <2>2. CASE plan.revision # hand.row.revision
    BY <1>7, <2>2 DEF SaveFiring
  <2> QED BY <2>1, <2>2
<1>8. CASE Hang
  <2> DEFINE row == [plan EXCEPT !.id = hand.id, !.status = "ACTIVE"]
  <2>1. (UNCHANGED plan \/ Saved(row)) /\ "status" \in DOMAIN row /\ row.status = "ACTIVE"
    BY <1>0, <1>8 DEF Hang, Rows
  <2> HIDE DEF row
  <2> QED BY <1>1, <2>1
<1>9. CASE Mend
  <2> DEFINE row == [plan EXCEPT !.id = hand.at, !.status = IF @ \in Ended THEN @ ELSE "ACTIVE"]
             other == [plan EXCEPT !.id = Newest(Others)]
  <2>1. /\ UNCHANGED plan \/ Saved(row) \/ Saved(other)
        /\ "status" \in DOMAIN row /\ row.status # "NONE"
        /\ "status" \in DOMAIN other /\ other.status = plan.status
    BY <1>0, <1>9 DEF Mend, Rows, Ended
  <2> HIDE DEF row, other
  <2> QED BY <1>1, <2>1
<1>10. CASE UNCHANGED plan
  BY <1>10
<1> QED
  BY <1>2, <1>3, <1>4, <1>5, <1>6, <1>7, <1>8, <1>9, <1>10
     DEF Next, HerNext, HandNext, Fire, CreateAgain, Find, Update, Edit, MakeNew, DropOld, Cancel, DeleteIts,
         HerCallFails, Deliver, Act, Reread, RemoveFired, Arm, HandFails, Answer, ReadAgain, Started,
         HostCrashes, HostStarts

(* Nothing is there until she creates the plan. *)
LEMMA NothingYetStep == ASSUME TInv, IInv, NothingYet, [Next]_vars PROVE NothingYet'
<1>1. CASE UNCHANGED vars
  BY <1>1 DEF NothingYet, vars, native, seen
<1>2. ASSUME Next, plan'.status = "NONE" PROVE NothingYet'
  <2>1. /\ plan.status = "NONE" /\ Len(records) = 0 /\ rules = {} /\ her.pc = "idle"
        /\ hand.pc \in {"idle", "read", "mend"}
    BY <1>2, NoneStays DEF NothingYet
  <2>2. Records = {} /\ DOMAIN fired = {} /\ Len(fired) = 0 /\ through \in Nat
    <3>1. fired \in Seq(Nat) /\ through \in Nat /\ Records = {} /\ \A s \in DOMAIN fired : fired[s] \in Records
      BY <2>1 DEF Records, TInv, RecordsOK, IInv, Logged
    <3>2. DOMAIN fired = {}
      BY <3>1
    <3> QED BY <3>1, <3>2
  <2>3. ~HerNext
    <3>1. \A rule : Create(rule) => plan'.status = "CREATING"
      BY DEF Create, Saved, TInv, PlanOK, Rows
    <3> QED
      BY <1>2, <2>1, <3>1 DEF HerNext, HerStep, Update, CreateAgain, Find, Bind, Edit, MakeNew, DropOld, SaveUpdate, Cancel,
                              DeleteIts, SaveCancel, HerCallFails
  <2>4. ASSUME HandNext PROVE NothingYet'
    <3>1. Answer \/ ReadAgain \/ Started
      <4>1. Goes => hand.upto <= 0 /\ hand.seq \in Nat \ {0} /\ hand.upto \in Nat
        BY <2>2 DEF TInv, HandOK, IInv, HandGoes
      <4>2. Mending => hand.made <= 0 /\ hand.made \in Nat /\ hand.at \in Nat \ {0}
        BY <2>1 DEF TInv, HandOK
      <4>3. ~Read /\ ~Deliver /\ ~Mend
        BY <2>2, <4>1, <4>2 DEF Read, Deliver, Mend, HandAt, Goes, Mending
      <4> QED BY <2>1, <2>4, <4>3 DEF HandNext, HandAt, Act, Reread, SaveFiring, RemoveFired, Arm, Hang, HandFails
    <3> QED BY <2>1, <3>1 DEF NothingYet, Answer, ReadAgain, Started, native, seen, Waits
  <2>5. ASSUME HostCrashes \/ HostStarts PROVE NothingYet'
    BY <2>1, <2>5 DEF NothingYet, HostCrashes, HostStarts, native, seen, Quiet, Waits, Begins
  <2> QED BY <1>2, <2>2, <2>3, <2>4, <2>5 DEF Next
<1> QED BY <1>1, <1>2 DEF NothingYet

(* One plan that is due once, whose firings do not cross a change of hers.    *)
OneOff == rules \subseteq {"once"} /\ "crossed" \notin apart /\ "early" \notin apart

(* The firing that became her event, and whose saving the Host has not seen:  *)
(* it is the next one due, and a start hands it over again.                   *)
Again == LET due == plan.last + 1
         IN /\ due \in DOMAIN fired /\ acted = {due} /\ plan.id = fired[due]
            /\ \/ hand.pc \in {"reread", "save"} \/ ~up
               \/ hand.start /\ hand.pc \in {"read", "act"} /\ hand.seq <= due /\ due <= hand.upto

OnceRules == /\ plan.rule \in {"once", "none"}
             /\ \A i \in Records : records[i].kind = "shot"
             /\ her.pc \in Reading => her.rule = "once"
OnceHand  == /\ hand.pc \in Firing => plan.id = The(hand.seq)
             /\ hand.pc = "save" /\ plan.status \notin Ended => hand.row = plan
OnceActs  == /\ \A s, t \in acted : s = t
             /\ hand.pc = "act" => acted \subseteq {hand.seq}
             /\ acted = {} \/ plan.status \in Ended \/ Again

OnceInv == OneOff => OnceRules /\ OnceHand /\ OnceActs

(* Her call and her records: what has fired and what is handed over stays. *)
LEMMA OnceKeeps ==
    ASSUME OneOff, OnceInv, OnceRules', UNCHANGED <<plan, fired, acted, up, hand>>
    PROVE  OnceInv'
BY DEF OnceInv, OnceHand, OnceActs, Again, The

(* The kinds of the records stay, and those made are one-shots. *)
LEMMA OnceRecords ==
    ASSUME TInv, IInv, \A i \in Records : records[i].kind = "shot",
           \/ UNCHANGED records
           \/ \E i : Delete(i)
           \/ \E version \in Nat : Make("shot", version)
           \/ Edited /\ her.row.id \in Records /\ her.row.version \in Nat /\ her.rule = "once"
    PROVE  \A i \in Records' : records'[i].kind = "shot"
<1>0. records \in Seq(RecordType) /\ fired \in Seq(Nat)
  BY DEF TInv, RecordsOK, IInv, Logged
<1>1. CASE UNCHANGED records
  BY <1>1 DEF Records
<1>2. ASSUME NEW i, Delete(i) PROVE \A k \in Records' : records'[k].kind = "shot"
  BY <1>0, <1>2, Deleted DEF SameIds, Kept
<1>3. ASSUME NEW version \in Nat, Make("shot", version) PROVE \A k \in Records' : records'[k].kind = "shot"
  <2>1. Records' = Records \cup {NextId} /\ records'[NextId] = Record("shot", version)
        /\ \A k \in Records : records'[k] = records[k]
    BY <1>0, <1>3, Making
  <2>2. records'[NextId].kind = "shot"
    BY <2>1 DEF Record
  <2> QED BY <2>1, <2>2
<1>4. CASE Edited /\ her.row.id \in Records /\ her.row.version \in Nat /\ her.rule = "once"
  BY <1>0, <1>4, EditedOne DEF SameIds, Kind
<1> QED BY <1>1, <1>2, <1>3, <1>4

(* Her plan tool. *)
LEMMA OnceHer == ASSUME TInv, IInv, NothingYet, OnceInv, HerNext PROVE OnceInv'
<1> USE DEF HerStep, Quiet
<1> SUFFICES ASSUME OneOff' PROVE OnceInv'
  BY DEF OnceInv
<1>0. /\ plan \in Rows /\ Len(records) \in Nat /\ fired \in Seq(Nat) /\ records \in Seq(RecordType)
      /\ \A r \in Rows : r.version \in Nat /\ r.id \in Nat
      /\ acted \subseteq DOMAIN fired /\ HandOK /\ HerOK /\ Kind("once") = "shot" /\ Kind("none") = "shot"
      /\ \A s \in DOMAIN fired : fired[s] \in Records
  BY DEF TInv, PlanOK, RecordsOK, IInv, Logged, Rows, Kind
<1>1. ASSUME NEW rule \in Rules, Create(rule) PROVE OnceInv'
  <2>1. plan.status = "NONE" /\ Len(records) = 0 /\ rules = {} /\ hand.pc \in {"idle", "read", "mend"} /\ rule = "once"
        /\ her' = [pc |-> "find"] /\ UNCHANGED <<records, fired, hand, acted>>
    BY <1>1 DEF Create, NothingYet, OneOff, native
  <2>2. Records = {} /\ Records' = {} /\ acted = {}
    BY <1>0, <2>1 DEF Records
  <2>3. plan'.rule = "once"
    BY <1>0, <1>1, <2>1 DEF Create, Saved, Rows
  <2> QED BY <2>1, <2>2, <2>3 DEF OnceInv, OnceRules, OnceHand, OnceActs, Reading, Firing
<1>2. ASSUME NEW rule \in Rules, NEW timing \in BOOLEAN, Update(rule, timing) PROVE OnceInv'
  <2>1. OneOff /\ rule = "once" /\ UNCHANGED <<records, fired, hand, acted, plan, up>> /\ her'.rule = rule
    BY <1>2 DEF Update, OneOff, native
  <2> QED BY <2>1, OnceKeeps DEF OnceInv, OnceRules, Records
<1>3. CASE CreateAgain \/ Cancel
  <2>1. OneOff /\ UNCHANGED <<records, fired, hand, acted, plan, up>> /\ her'.pc \in {"find", "cancel", "delete"}
    <3>1. OneOff /\ UNCHANGED <<records, fired, hand, acted, plan, up>>
      BY <1>3 DEF CreateAgain, Cancel, OneOff, native, seen
    <3>2. CASE CreateAgain
      BY <3>1, <3>2 DEF CreateAgain
    <3>3. CASE Cancel
      BY <3>1, <3>3 DEF Cancel
    <3> QED BY <1>3, <3>2, <3>3
  <2> QED BY <2>1, OnceKeeps DEF OnceInv, OnceRules, Records, Reading
<1>4. CASE Find
  <2>1. OneOff /\ UNCHANGED <<fired, hand, acted, plan, up>> /\ her'.pc \in {"bind", "idle"}
        /\ (UNCHANGED records \/ Make(Kind(plan.rule), plan.version))
    BY <1>4 DEF Find, OneOff, seen
  <2>2. OnceRules'
    BY <1>0, <2>1, OnceRecords DEF OnceInv, OnceRules, Reading
  <2> QED BY <2>1, <2>2, OnceKeeps
<1>5. CASE Bind
  <2>1. OneOff /\ UNCHANGED <<records, fired, hand, acted, up>> /\ her'.pc = "idle" /\ plan.id = None /\ hand.pc = "idle"
    BY <1>5 DEF Bind, OneOff, native, seen
  <2>2. ~Again
    <3>1. None \notin Records
      BY DEF None, Records
    <3> QED BY <1>0, <2>1, <3>1 DEF Again
  <2> DEFINE row == [plan EXCEPT !.id = her.id, !.status = IF plan.status \in Ended THEN @ ELSE "ACTIVE"]
  <2>3. row.rule = plan.rule /\ (plan.status \in Ended => row.status \in Ended) /\ Saved(row)
        /\ "rule" \in DOMAIN row /\ "status" \in DOMAIN row
    BY <1>0, <1>5 DEF Bind, Rows
  <2>4. plan'.rule = plan.rule /\ (plan.status \in Ended => plan'.status \in Ended)
    <3> HIDE DEF row
    <3> QED BY <2>3 DEF Saved
  <2> QED BY <2>1, <2>2, <2>4 DEF OnceInv, OnceRules, OnceHand, OnceActs, Records, Reading, Firing
<1>6. CASE Edit \/ MakeNew \/ DropOld \/ DeleteIts
  <2>1. OneOff /\ UNCHANGED <<fired, hand, acted, plan, up>>
    BY <1>6 DEF Edit, MakeNew, DropOld, DeleteIts, OneOff, seen
  <2>2. her.pc \in {"edit", "make", "drop", "delete"} /\ (her.pc \in Reading => her.rule = "once")
    BY <1>6, <2>1 DEF Edit, MakeNew, DropOld, DeleteIts, OnceInv, OnceRules
  <2>3. her'.pc \in Reading => her'.rule = "once"
    <3>1. CASE Edit
      BY <1>0, <2>2, <3>1 DEF Edit, HerOK, Reading
    <3>2. CASE MakeNew
      BY <2>2, <3>2 DEF MakeNew, Reading
    <3>3. CASE DropOld
      BY <1>0, <2>2, <3>3 DEF DropOld, HerOK, Reading
    <3>4. CASE DeleteIts
      BY <1>0, <3>4 DEF DeleteIts, HerOK, Reading
    <3> QED BY <1>6, <3>1, <3>2, <3>3, <3>4
  <2>4. \A i \in Records' : records'[i].kind = "shot"
    <3>1. \A i \in Records : records[i].kind = "shot"
      BY <2>1 DEF OnceInv, OnceRules
    <3>2. CASE UNCHANGED records \/ \E i : Delete(i)
      BY <3>1, <3>2, OnceRecords
    <3>3. CASE MakeNew
      <4>1. Make("shot", her.row.version + 1) /\ her.row.version + 1 \in Nat
        BY <1>0, <2>2, <3>3 DEF MakeNew, HerOK, Reading
      <4> QED BY <3>1, <4>1, OnceRecords
    <3>4. CASE Edit /\ Live(her.row.id)
      <4>1. Edited /\ her.row.id \in Records /\ her.row.version \in Nat /\ her.rule = "once"
        BY <1>0, <2>2, <3>4 DEF Edit, HerOK, Reading, Live
      <4> QED BY <3>1, <4>1, OnceRecords
    <3> QED BY <1>6, <3>2, <3>3, <3>4 DEF Edit, DropOld, DeleteIts
  <2> QED BY <2>1, <2>3, <2>4, OnceKeeps DEF OnceInv, OnceRules
<1>7. CASE SaveUpdate
  <2>1. OneOff /\ UNCHANGED <<records, fired, hand, acted, up>> /\ her'.pc = "idle" /\ up
    BY <1>7 DEF SaveUpdate, OneOff, native, seen
  <2>2. CASE Unchanged
    <3>1. her.row = plan /\ plan.status \notin Ended /\ hand.pc = "idle" /\ her.rule = "once"
      BY <1>7, <2>1, <2>2 DEF SaveUpdate, Unchanged, IInv, HerFresh, Fresh, Reading, OneOff, OnceInv, OnceRules
    <3>2. ~hand.start /\ ~Again
      BY <1>0, <2>1, <3>1 DEF HandOK, Again
    <3>3. plan'.rule = "once"
      <4>1. Changed(plan).rule = "once" /\ "rule" \in DOMAIN Changed(plan)
        BY <1>0, <3>1 DEF Changed, Rows
      <4>2. Saved(Changed(plan))
        BY <1>7, <2>2, <3>1 DEF SaveUpdate
      <4> QED BY <4>1, <4>2 DEF Saved
    <3> QED BY <2>1, <3>1, <3>2, <3>3 DEF OnceInv, OnceRules, OnceHand, OnceActs, Records, Reading, Firing
  <2>3. CASE ~Unchanged
    BY <1>7, <2>1, <2>3, OnceKeeps DEF SaveUpdate, OnceInv, OnceRules, Records, Reading
  <2> QED BY <2>2, <2>3
<1>8. CASE SaveCancel
  <2>1. OneOff /\ UNCHANGED <<records, fired, hand, acted, up>> /\ her'.pc = "idle"
    BY <1>8 DEF SaveCancel, OneOff, native, seen
  <2> DEFINE row == [plan EXCEPT !.status = "CANCELLED"]
  <2>2. row.rule = plan.rule /\ row.status = "CANCELLED" /\ row.id = plan.id /\ Saved(row)
        /\ {"rule", "status", "id"} \subseteq DOMAIN row
    BY <1>0, <1>8 DEF SaveCancel, Rows
  <2>3. plan'.rule = plan.rule /\ plan'.status = "CANCELLED" /\ plan'.id = plan.id
    <3> HIDE DEF row
    <3> QED BY <2>2 DEF Saved
  <2> QED BY <2>1, <2>3 DEF OnceInv, OnceRules, OnceHand, OnceActs, Records, Reading, Firing, Ended, The
<1>9. CASE HerCallFails
  <2>1. OneOff /\ UNCHANGED <<fired, hand, acted, plan, up>> /\ her'.pc = "idle"
    BY <1>9 DEF HerCallFails, OneOff, seen
  <2>2. \A i \in Records : records[i].kind = "shot"
    BY <2>1 DEF OnceInv, OnceRules
  <2>3. \A i \in Records' : records'[i].kind = "shot"
    <3>1. CASE UNCHANGED records \/ \E i : Delete(i)
      BY <2>2, <3>1, OnceRecords
    <3>2. CASE Make(Kind(plan.rule), plan.version)
      BY <1>0, <2>1, <2>2, <3>2, OnceRecords DEF OnceInv, OnceRules
    <3>3. CASE her.pc = "make" /\ Make(Kind(her.rule), her.row.version + 1)
      <4>1. her.rule = "once" /\ her.row.version + 1 \in Nat
        BY <1>0, <2>1, <3>3 DEF HerOK, OnceInv, OnceRules, Reading
      <4> QED BY <1>0, <2>2, <3>3, <4>1, OnceRecords
    <3>4. CASE her.pc = "edit" /\ Live(her.row.id) /\ Edited
      <4>1. her.row.id \in Records /\ her.row.version \in Nat /\ her.rule = "once"
        BY <1>0, <2>1, <3>4 DEF HerOK, Live, OnceInv, OnceRules, Reading
      <4> QED BY <2>2, <3>4, <4>1, OnceRecords
    <3> QED BY <1>9, <3>1, <3>2, <3>3, <3>4 DEF HerCallFails
  <2> QED BY <2>1, <2>3, OnceKeeps DEF OnceInv, OnceRules, Reading
<1> QED BY <1>1, <1>2, <1>3, <1>4, <1>5, <1>6, <1>7, <1>8, <1>9 DEF HerNext

(* The thread that hands over. *)
LEMMA OnceHandStep == ASSUME TInv, IInv, NothingYet, OnceInv, HandNext PROVE OnceInv'
<1> USE DEF HandAt, Waits, Onward
<1> SUFFICES ASSUME OneOff' PROVE OnceInv'
  BY DEF OnceInv
<1>0. /\ plan \in Rows /\ plan.last \in Nat /\ fired \in Seq(Nat) /\ records \in Seq(RecordType)
      /\ acted \subseteq DOMAIN fired /\ HandOK /\ HandGoes /\ HandFresh
      /\ Kind("once") = "shot" /\ Kind("none") = "shot"
      /\ \A s \in DOMAIN fired : fired[s] \in Records
  BY DEF TInv, PlanOK, RecordsOK, IInv, Logged, Rows, Kind
<1>a. OneOff
  BY DEF OneOff, HandNext, Deliver, Read, Act, Reread, SaveFiring, RemoveFired, Arm, Hang, HandFails, Answer,
         ReadAgain, Mend, Started, seen
<1>b. OnceRules /\ OnceHand /\ OnceActs
  BY <1>a DEF OnceInv
<1>c. hand.pc \in Firing => hand.seq \in DOMAIN fired /\ hand.seq = plan.last + 1 /\ hand.seq \in Nat /\ Goes
  BY <1>0 DEF HandOK, HandGoes, HandFresh, Goes, Mending, Firing
<1>d. ASSUME hand.pc \notin {"read", "act", "reread", "save"}, up PROVE ~Again
  BY <1>d DEF Again
<1>1. CASE Deliver
  <2>1. UNCHANGED <<records, fired, plan, her, acted, up>> /\ hand.pc = "idle" /\ hand'.pc = "read" /\ up
    BY <1>1 DEF Deliver, native, seen
  <2> QED BY <1>b, <1>d, <2>1 DEF OnceInv, OnceRules, OnceHand, OnceActs, Records, Firing
<1>2. CASE Read
  <2>1. UNCHANGED <<records, fired, her, acted, up>> /\ hand.pc = "read" /\ up /\ hand.seq <= hand.upto
    BY <1>2 DEF Read, native
  <2>2. Goes /\ hand.seq \in Nat \ {0} /\ hand.upto \in Nat /\ hand.upto <= Len(fired) /\ {"pc", "start", "seq", "upto"} \subseteq DOMAIN hand
    BY <1>0, <2>1 DEF HandOK, HandGoes, Goes, Mending
  <2>3. CASE Past(hand.seq)
    <3>1. UNCHANGED plan /\ hand'.pc = "read" /\ hand'.start = hand.start /\ hand'.seq = hand.seq + 1 /\ hand'.upto = hand.upto
      BY <1>2, <2>3 DEF Read
    <3>2. plan.status \notin Ended => hand.seq <= plan.last
      BY <2>3 DEF Past
    <3>3. Again /\ plan.status \notin Ended => Again'
      BY <1>0, <2>1, <2>2, <3>1, <3>2 DEF Again
    <3> QED BY <1>b, <2>1, <3>1, <3>3 DEF OnceInv, OnceRules, OnceHand, OnceActs, Records, Firing
  <2>4. CASE ~Past(hand.seq) /\ Stale(hand.seq)
    <3>1. ~Again
      BY <1>0, <2>1, <2>2, <2>4 DEF Again, Past, Stale, The
    <3> DEFINE row == [plan EXCEPT !.last = hand.seq]
    <3>2. Saved(row) /\ row.status = plan.status /\ row.rule = plan.rule /\ {"status", "rule"} \subseteq DOMAIN row
      BY <1>0, <1>2, <2>4 DEF Read, Rows
    <3>3. plan'.status = plan.status /\ plan'.rule = plan.rule /\ hand'.pc = "read"
      <4>1. hand'.pc = "read"
        BY <1>2, <2>4 DEF Read
      <4> HIDE DEF row
      <4> QED BY <3>2, <4>1 DEF Saved
    <3> QED BY <1>b, <2>1, <3>1, <3>3 DEF OnceInv, OnceRules, OnceHand, OnceActs, Records, Firing
  <2>5. CASE ~Past(hand.seq) /\ ~Stale(hand.seq)
    <3>1. UNCHANGED plan /\ hand'.pc = "act" /\ hand'.start = hand.start /\ hand'.seq = hand.seq /\ hand'.upto = hand.upto
          /\ plan.id # None
      BY <1>2, <2>2, <2>5 DEF Read, OneOff
    <3>2. plan.id = The(hand.seq) /\ plan.status \notin Ended /\ hand.seq > plan.last
      BY <1>0, <2>2, <2>5, <3>1 DEF Past, Stale
    <3>3. Again => Again' /\ acted = {hand.seq}
      BY <1>0, <2>1, <2>2, <3>1, <3>2 DEF Again
    <3>4. plan'.id = fired'[hand'.seq]
      BY <2>1, <3>1, <3>2 DEF The
    <3>5. OnceHand' /\ OnceRules'
      BY <1>b, <2>1, <3>1, <3>4 DEF OnceRules, OnceHand, Records, Firing, The
    <3>6. OnceActs'
      BY <1>b, <2>1, <3>1, <3>2, <3>3 DEF OnceActs
    <3> QED BY <3>5, <3>6 DEF OnceInv
  <2> QED BY <2>3, <2>4, <2>5
<1>3. CASE Act
  <2>1. UNCHANGED <<records, fired, her, plan, up>> /\ up /\ hand.pc = "act"
        /\ hand' = [hand EXCEPT !.pc = "reread"] /\ (acted' = acted \cup {hand.seq} \/ acted' = acted)
    BY <1>3 DEF Act, native
  <2>2. hand'.pc = "reread" /\ hand'.seq = hand.seq
    BY <1>0, <1>c, <2>1 DEF HandGoes, Firing
  <2>3. acted \subseteq {hand.seq} /\ plan.id = The(hand.seq)
    BY <1>b, <2>1 DEF OnceActs, OnceHand, Firing
  <2>4. acted' = {} \/ Again'
    BY <1>0, <1>c, <2>1, <2>2, <2>3 DEF Again, The, Firing
  <2> QED BY <1>b, <2>1, <2>2, <2>3, <2>4 DEF OnceInv, OnceRules, OnceHand, OnceActs, Records, Firing, The
<1>4. CASE Reread
  <2>1. UNCHANGED <<records, fired, her, plan, up, acted>> /\ up /\ hand.pc = "reread"
        /\ hand'.pc = "save" /\ hand'.row = plan /\ hand'.seq = hand.seq
    BY <1>4 DEF Reread, native, seen
  <2>2. Again => Again'
    BY <2>1 DEF Again
  <2> QED BY <1>b, <2>1, <2>2 DEF OnceInv, OnceRules, OnceHand, OnceActs, Records, Firing, The
<1>5. CASE SaveFiring
  <2>1. UNCHANGED <<records, fired, her, up, acted>> /\ up /\ hand.pc = "save" /\ Fresh(hand.row)
    BY <1>0, <1>5 DEF SaveFiring, native, seen, HandFresh
  <2>2. CASE plan.revision = hand.row.revision
    <3> DEFINE row == [plan EXCEPT !.status = AfterFiring(plan, hand.seq), !.last = hand.seq]
    <3>1. hand.row = plan
      BY <2>1, <2>2 DEF Fresh
    <3>2. AfterFiring(plan, hand.seq) \in {"FIRED", "CANCELLED"}
      BY <1>0, <1>b, <1>c, <2>1 DEF AfterFiring, OnceRules, The, Firing
    <3>3. row.status \in Ended /\ row.rule = plan.rule /\ {"status", "rule"} \subseteq DOMAIN row
      BY <1>0, <3>2 DEF Rows, Ended
    <3>4. Saved(row) /\ hand'.pc \in {"remove", "read"}
      BY <1>5, <2>2, <3>1, <3>2 DEF SaveFiring
    <3>5. plan'.status \in Ended /\ plan'.rule = plan.rule
      <4> HIDE DEF row
      <4> QED BY <3>3, <3>4 DEF Saved
    <3> QED BY <1>b, <2>1, <3>4, <3>5 DEF OnceInv, OnceRules, OnceHand, OnceActs, Records, Firing
  <2>3. CASE plan.revision # hand.row.revision
    <3>1. plan.status \in Ended
      BY <1>b, <2>1, <2>3 DEF OnceHand
    <3>2. UNCHANGED plan /\ hand'.pc = "idle"
      BY <1>5, <2>3 DEF SaveFiring
    <3> QED BY <1>b, <2>1, <3>1, <3>2 DEF OnceInv, OnceRules, OnceHand, OnceActs, Records, Firing
  <2> QED BY <2>2, <2>3
<1>6. ASSUME UNCHANGED <<fired, plan, her, acted>>, up, hand.pc \notin {"read", "act", "reread", "save"},
             hand'.pc \notin Firing,
             \/ UNCHANGED records \/ \E i : Delete(i) \/ \E kind \in {"shot", Kind(plan.rule)} : Make(kind, plan.version)
      PROVE  OnceInv'
  <2>1. \A i \in Records' : records'[i].kind = "shot"
    <3>1. UNCHANGED records \/ \E i : Delete(i) \/ \E version \in Nat : Make("shot", version)
      <4>1. Kind(plan.rule) = "shot"
        BY <1>0, <1>b DEF OnceRules
      <4>2. plan.version \in Nat
        BY <1>0 DEF Rows
      <4> QED BY <1>6, <4>1, <4>2
    <3> QED BY <1>b, <3>1, OnceRecords DEF OnceRules
  <2> QED BY <1>b, <1>d, <1>6, <2>1 DEF OnceInv, OnceRules, OnceHand, OnceActs, Firing
<1>7. CASE RemoveFired
  <2>1. hand'.pc = "read"
    BY <1>0, <1>7 DEF RemoveFired, HandGoes
  <2> QED BY <1>6, <1>7, <2>1 DEF RemoveFired, seen, Firing
<1>8. CASE Arm
  <2>1. hand'.pc \notin Firing
    BY <1>0, <1>8 DEF Arm, Return, Armed, HandGoes, Firing
  <2> QED BY <1>6, <1>8, <2>1 DEF Arm, seen
<1>9. CASE Hang
  <2>1. hand'.pc \in {"read", "mend"} /\ hand.pc = "hang" /\ up /\ UNCHANGED <<fired, her, acted>>
    BY <1>0, <1>9 DEF Hang, Return, HandGoes, seen
  <2>2. CASE Hanged
    BY <1>6, <1>9, <2>1, <2>2 DEF Hang, Firing
  <2>3. CASE ~Hanged
    <3> DEFINE row == [plan EXCEPT !.id = hand.id, !.status = "ACTIVE"]
    <3>1. Saved(row) /\ row.rule = plan.rule /\ "rule" \in DOMAIN row /\ UNCHANGED records /\ plan.status \notin Ended
      BY <1>0, <1>9, <2>3 DEF Hang, Hanged, Rows
    <3>2. plan'.rule = plan.rule
      <4> HIDE DEF row
      <4> QED BY <3>1 DEF Saved
    <3> QED BY <1>b, <1>d, <2>1, <3>1, <3>2 DEF OnceInv, OnceRules, OnceHand, OnceActs, Records, Firing
  <2> QED BY <2>2, <2>3
<1>10. CASE HandFails
  BY <1>6, <1>10 DEF HandFails, seen, Firing
<1>11. CASE Answer \/ ReadAgain
  <2>1. UNCHANGED <<records, fired, her, plan, acted>> /\ up /\ hand.pc = "read" /\ hand.seq > hand.upto
        /\ hand'.pc \notin Firing
    BY <1>11 DEF Answer, ReadAgain, native, seen, Firing
  <2>2. ~Again
    BY <1>0, <2>1 DEF Again, HandGoes, Goes, Mending
  <2> QED BY <1>b, <2>1, <2>2 DEF OnceInv, OnceRules, OnceHand, OnceActs, Records, Firing
<1>12. CASE Mend
  <2>1. UNCHANGED <<records, fired, her, acted>> /\ up /\ hand.pc = "mend" /\ hand'.pc \in {"mend", "arm"}
    BY <1>0, <1>12 DEF Mend, After, native, seen, HandGoes
  <2> DEFINE row == [plan EXCEPT !.id = hand.at, !.status = IF @ \in Ended THEN @ ELSE "ACTIVE"]
             other == [plan EXCEPT !.id = Newest(Others)]
  <2>2. UNCHANGED plan \/ Saved(row) \/ Saved(other)
    BY <1>12 DEF Mend
  <2>3. /\ {"rule", "status"} \subseteq DOMAIN row /\ row.rule = plan.rule /\ (plan.status \in Ended => row.status \in Ended)
        /\ {"rule", "status"} \subseteq DOMAIN other /\ other.rule = plan.rule /\ other.status = plan.status
    BY <1>0 DEF Rows
  <2>4. plan'.rule = plan.rule /\ (plan.status \in Ended => plan'.status \in Ended)
    <3> HIDE DEF row, other
    <3> QED BY <2>2, <2>3 DEF Saved
  <2> QED BY <1>b, <1>d, <2>1, <2>4 DEF OnceInv, OnceRules, OnceHand, OnceActs, Records, Firing
<1>13. CASE Started
  BY <1>6, <1>13 DEF Started, native, seen, Firing
<1> QED
  BY <1>1, <1>2, <1>3, <1>4, <1>5, <1>7, <1>8, <1>9, <1>10, <1>11, <1>12, <1>13 DEF HandNext

(* A firing, a crash and a start keep what acted once as it was. *)
LEMMA OnceHost ==
    ASSUME TInv, IInv, OnceInv, (\E i \in Records : Fire(i)) \/ HostCrashes \/ HostStarts \/ UNCHANGED vars
    PROVE  OnceInv'
<1> SUFFICES ASSUME OneOff' PROVE OnceInv'
  BY DEF OnceInv
<1>1. OneOff
  BY DEF OneOff, Fire, HostCrashes, HostStarts, vars, seen
<1>2. OnceRules /\ OnceHand /\ OnceActs /\ HandOK /\ fired \in Seq(Nat) /\ plan.last \in Nat
  BY <1>1 DEF OnceInv, TInv, IInv, Logged, PlanOK, Rows
<1>3. ASSUME NEW i \in Records, Fire(i) PROVE OnceInv'
  <2>1. /\ SameIds /\ Len(fired') = Len(fired) + 1 /\ DOMAIN fired' = DOMAIN fired \cup {Len(fired) + 1}
        /\ \A s \in DOMAIN fired : fired'[s] = fired[s]
        /\ \A k \in Records : Kept(k)
    BY <1>3, FiredOne DEF TInv
  <2>2. UNCHANGED <<plan, up, her, hand, acted>>
    BY <1>3 DEF Fire, seen
  <2>3. hand.pc \in Firing => hand.seq \in DOMAIN fired
    BY <1>2 DEF HandOK, IInv, HandGoes, Goes, Mending, Firing
  <2>4. Again => Again'
    BY <2>1, <2>2 DEF Again
  <2>5. OnceHand'
    BY <1>2, <2>1, <2>2, <2>3 DEF OnceHand, The
  <2> QED BY <1>2, <2>1, <2>2, <2>4, <2>5 DEF OnceInv, OnceRules, OnceActs, SameIds, Kept
<1>4. CASE HostCrashes
  <2>1. UNCHANGED <<records, fired, plan, acted>> /\ her' = Quiet /\ hand' = Waits /\ ~up'
    BY <1>4 DEF HostCrashes, native, seen
  <2>2. Again => Again'
    BY <2>1 DEF Again
  <2> QED BY <1>2, <2>1, <2>2 DEF OnceInv, OnceRules, OnceHand, OnceActs, Records, Quiet, Waits, Firing, Reading
<1>5. CASE HostStarts
  <2>1. UNCHANGED <<records, fired, plan, her, acted>> /\ hand' = Begins
    BY <1>5 DEF HostStarts, native, seen
  <2>2. hand'.pc = "read" /\ hand'.start /\ hand'.seq = 1 /\ hand'.upto = Len(fired)
    BY <2>1 DEF Begins
  <2>3. Again => Again'
    BY <1>2, <2>1, <2>2 DEF Again
  <2> QED BY <1>2, <2>1, <2>2, <2>3 DEF OnceInv, OnceRules, OnceHand, OnceActs, Records, Firing
<1>6. CASE UNCHANGED vars
  BY <1>2, <1>6 DEF OnceInv, OnceRules, OnceHand, OnceActs, Again, The, Records, vars, native, seen
<1> QED BY <1>3, <1>4, <1>5, <1>6

-----------------------------------------------------------------------------
(* Nothing went wrong on the way, and the plan has not ended. *)
Clean == apart = {} /\ plan.status \notin Ended

Since(i) == records[i].since
(* A firing of the record that the plan has not passed.                       *)
Due(i)   == \E s \in DOMAIN fired : s > plan.last /\ fired[s] = i
(* The record will wake her, or has fired and is about to.                    *)
Alive(i) == Live(i) \/ (records[i].kind = "shot" /\ Due(i))

(* A record that waits, is not the plan's, nor one an update will save.       *)
Hers  == IF her.pc \in {"drop", "save"} THEN {her.id} ELSE {}
Loose == Waiting(plan.id) \ Hers

(* What the plan may be hung on: newer than its record, which has ended and   *)
(* whose firings were all before, as were those that acted.                   *)
Fit(j) == /\ j > plan.id
          /\ records[j].kind = Kind(plan.rule) /\ records[j].version = plan.version
          /\ \A s \in acted : s <= Since(j)
          /\ plan.id # None => ~Live(plan.id) /\ \A s \in DOMAIN fired : fired[s] = plan.id => s <= Since(j)

Named == /\ plan.status = "ACTIVE" <=> plan.id # None
         /\ her.pc \in {"find", "bind"} => plan.id = None

Unnamed == plan.id = None =>
    /\ acted = {} /\ plan.last = 0 /\ Len(records) <= 1
    /\ \A i \in Records : Alive(i)
    /\ \A i \in Records \ Hers : records[i].kind = Kind(plan.rule) /\ records[i].version = plan.version
    /\ up /\ ~hand.start /\ her.pc \notin {"bind", "save"} => Len(records) = 0

(* The plan's record is what the plan says, but for an edit not yet saved.    *)
Fits == plan.id # None =>
    /\ records[plan.id].kind = Kind(plan.rule)
    /\ records[plan.id].version = plan.version \/ (her.pc = "save" /\ her.id = plan.id)

(* What acted is of this record, or of an older one and before it was made.   *)
Latest == \A s \in acted : fired[s] <= plan.id /\ (fired[s] < plan.id => s <= Since(plan.id))

(* The plan's record will wake her, unless she is deleting it or the Host     *)
(* has yet to arm it.                                                         *)
Deleting == her.pc = "cancel" \/ (her.pc = "save" /\ her.id # her.row.id /\ her.row.id = plan.id)
ToArm    == /\ plan.rule = "clock"
            /\ ~up \/ hand.pc \in {"arm", "hang"} \/ (hand.start /\ (Goes \/ (hand.pc = "mend" /\ hand.at = 1)))
Wakes    == plan.id # None => Alive(plan.id) \/ Deleting \/ ToArm

(* The record an update has made, and the one it has edited.                  *)
HerRecord ==
    /\ her.pc \in {"drop", "save"} => records[her.id].version = her.row.version + 1
    /\ her.pc = "save" /\ her.id = her.row.id => her.rule = her.row.rule
    /\ her.pc \in {"drop", "save"} /\ her.id # her.row.id =>
          /\ records[her.id].kind = Kind(her.rule)
          /\ Live(her.id) \/ (records[her.id].kind = "shot" /\ her.id \in Fired)
          /\ her.pc = "save" /\ her.row.id # None => ~Live(her.row.id)
          /\ her.row = plan => /\ plan.last <= Since(her.id)
                               /\ \A s \in acted : \/ s <= Since(her.id)
                                                   \/ hand.pc \in {"reread", "save"} /\ s = hand.seq
HerBehind == /\ her.pc \in Reading \cup {"delete"} => her.row.id <= plan.id
             /\ her.pc \in Reading => her.row.rule = plan.rule

(* A firing that is handed over is of the plan's record.                      *)
HandKnows == /\ hand.pc \in Firing => plan.id = fired[hand.seq]
             /\ hand.pc = "save" => hand.row = plan
             /\ hand.pc # "remove"

Arming == /\ hand.pc \in {"arm", "hang"} => plan.rule = "clock" /\ plan.id # None /\ ~Live(plan.id)
          /\ hand.pc = "hang" => Fit(hand.id) /\ Alive(hand.id) /\ Loose \subseteq {hand.id}

(* There is one loose record at most, made by an arming or a creation that a  *)
(* crash cut, and it fits.                                                    *)
LooseFits == /\ \A i, j \in Loose : i = j
             /\ \A i \in Loose : Fit(i)
             /\ Loose # {} => ~up \/ hand.start \/ hand.pc = "hang" \/ her.pc = "bind"

(* What a start that mends the plan knows of the records.                     *)
Mends == Mending =>
    /\ \A i, j \in hand.waiting : i = j
    /\ \A i \in hand.waiting : Alive(i) /\ (i = plan.id \/ Fit(i))
    /\ \A i \in 1..hand.made : i \notin hand.waiting => ~Live(i) \/ i \in Fired
    /\ ~hand.armed => Waiting(None) \subseteq hand.waiting /\ plan.id <= hand.made /\ hand.made = Len(records)
    /\ hand.armed => hand.waiting = {} /\ hand.at >= 2
    /\ hand.pc \in {"arm", "hang"} => hand.armed
    /\ hand.at >= 2 => plan.id # None /\ (hand.pc = "mend" => Loose = {})

Sound == Named /\ Unnamed /\ Fits /\ Latest /\ Wakes /\ HerRecord /\ HerBehind /\ HandKnows /\ Arming /\ LooseFits /\ Mends

(* Of two firings the later record's comes after no firing of the older.      *)
Apart(s, t) == fired[s] < fired[t] => s <= Since(fired[t])
NextApart == hand.pc = "act" => \A s \in acted : Apart(s, hand.seq) /\ Apart(hand.seq, s)

(* The numbers and records that the parts speak of. *)
Numbers ==
    /\ plan \in Rows /\ plan.id \in Nat /\ plan.last \in Nat /\ plan.version \in Nat /\ plan.revision \in Nat
    /\ Len(records) \in Nat /\ Len(fired) \in Nat /\ plan.id <= Len(records) /\ plan.last <= Len(fired)
    /\ Records = 1..Len(records) /\ DOMAIN fired = 1..Len(fired)
    /\ \A i \in Records : /\ records[i].since \in Nat /\ records[i].since <= Len(fired)
                          /\ records[i].kind \in {"shot", "repeat"} /\ records[i].live \in BOOLEAN
                          /\ records[i].kind = "shot" /\ records[i].live => i \notin Fired
    /\ \A s \in DOMAIN fired : fired[s] \in Records /\ records[fired[s]].since < s
    /\ acted \subseteq DOMAIN fired

(* The types give the numbers. *)
LEMMA Basics == ASSUME TInv, IInv PROVE Numbers
<1>1. plan \in Rows /\ records \in Seq(RecordType) /\ fired \in Seq(Nat)
  BY DEF TInv, PlanOK, RecordsOK, IInv, Logged
<1>2. plan.id \in Nat /\ plan.last \in Nat /\ plan.version \in Nat /\ plan.revision \in Nat
  BY <1>1 DEF Rows
<1>3. \A i \in Records : records[i] \in RecordType
  BY <1>1 DEF Records
<1>4. \A i \in Records : records[i].since \in Nat /\ records[i].kind \in {"shot", "repeat"} /\ records[i].live \in BOOLEAN
  BY <1>3 DEF RecordType
<1> QED BY <1>1, <1>2, <1>4 DEF Numbers, TInv, RecordsOK, PlanOK, Records

(* What went wrong is not forgotten, and a plan that ended stays ended. *)
LEMMA CleanBefore ==
    ASSUME IInv, [Next]_vars
    PROVE  /\ apart' = {} => apart = {}
           /\ Clean' => Clean
<1>1. apart' = {} => apart = {}
  <2>1. ASSUME HerNext PROVE apart \subseteq apart'
    BY <2>1 DEF HerNext, Create, CreateAgain, Find, Bind, Update, Edit, MakeNew, DropOld, SaveUpdate, Cancel,
                DeleteIts, SaveCancel, HerCallFails
  <2>2. ASSUME HandNext PROVE apart \subseteq apart'
    BY <2>2 DEF HandNext, Deliver, Read, Act, Reread, SaveFiring, RemoveFired, Arm, Hang, HandFails, Answer,
                ReadAgain, Mend, Started
  <2> QED BY <2>1, <2>2 DEF Next, Fire, HostCrashes, HostStarts, vars
<1>2. plan.status \in Ended => plan'.status \in Ended
  <2>1. HerNext \/ HandNext => Stands
    BY HerStands, HandStands
  <2>2. HerNext \/ HandNext \/ UNCHANGED plan
    BY DEF Next, Fire, HostCrashes, HostStarts, vars
  <2> QED BY <2>1, <2>2 DEF Stands, Ended
<1> QED BY <1>1, <1>2 DEF Clean

-----------------------------------------------------------------------------
(* Her calls. *)

(* A step of hers that changes nothing but what she does next. *)
LEMMA HerTurns ==
    ASSUME TInv, IInv, Sound, UNCHANGED <<records, fired, plan, up, hand, acted>>,
           her.pc \in {"idle", "edit"}, her'.pc \in {"find", "edit", "make", "delete", "cancel"},
           her'.pc = "find" => plan.id = None,
           her'.pc \in Reading \cup {"delete"} => her'.row.id <= plan.id,
           her'.pc \in Reading => her'.row.rule = plan.rule
    PROVE  Sound'
<1>1. Hers = {} /\ Hers' = {} /\ Loose' = Loose /\ Waiting(None)' = Waiting(None)
  BY DEF Hers, Loose, Waiting, Live, Records, Fired
<1>2. Named' /\ Unnamed' /\ Fits' /\ Latest'
  BY <1>1 DEF Sound, Named, Unnamed, Fits, Latest, Records, Alive, Live, Due, Since
<1>3. Wakes'
  BY DEF Sound, Wakes, Deleting, ToArm, Goes, Mending, Alive, Live, Due, Records
<1>4. HerRecord' /\ HerBehind' /\ HandKnows'
  BY DEF Sound, HerRecord, HerBehind, HandKnows
<1>5. Arming' /\ LooseFits'
  BY <1>1 DEF Sound, Arming, LooseFits, Fit, Alive, Live, Due, Records, Since
<1>6. Mends'
  BY <1>1 DEF Sound, Mends, Mending, Fit, Alive, Live, Due, Records, Since, Fired
<1> QED BY <1>2, <1>3, <1>4, <1>5, <1>6 DEF Sound

(* create saves the row of a plan that has no record yet. *)
LEMMA SoundCreate ==
    ASSUME TInv, IInv, NothingYet, Clean, Sound, NEW rule \in Rules, Create(rule)
    PROVE  Sound'
<1>0. Numbers
  BY Basics
<1>1. /\ plan.status = "NONE" /\ Len(records) = 0 /\ her' = [pc |-> "find"]
      /\ up /\ ~hand.start /\ UNCHANGED <<records, fired, up, hand, acted>> /\ hand.pc \in {"idle", "read", "mend"}
  BY DEF Create, HerStep, NothingYet, native
<1>2. plan.id = None /\ acted = {} /\ plan.last = 0
  BY <1>1 DEF Sound, Named, Unnamed
<1> DEFINE row == [plan EXCEPT !.status = "CREATING", !.rule = rule, !.version = 1]
<1>3. row \in Rows /\ Saved(row) /\ row.id = plan.id /\ row.last = plan.last /\ row.status = "CREATING"
  BY <1>0 DEF Numbers, Rows, Create
<1>4. plan'.id = None /\ plan'.last = 0 /\ plan'.status = "CREATING"
  <2> HIDE DEF row
  <2> QED BY <1>2, <1>3, SavedOK
<1>5. Records = {} /\ Records' = {} /\ ~Mending /\ ~Mending' /\ hand.pc \notin Firing
  BY <1>0, <1>1 DEF Numbers, Records, Mending, TInv, HandOK, Firing
<1>6. Loose' = {}
  BY <1>5 DEF Loose, Waiting
<1>7. Named' /\ Unnamed' /\ Fits' /\ Latest' /\ Wakes'
  BY <1>1, <1>2, <1>4, <1>5 DEF Named, Unnamed, Fits, Latest, Wakes
<1>8. HerRecord' /\ HerBehind' /\ HandKnows' /\ Arming' /\ LooseFits' /\ Mends'
  BY <1>1, <1>5, <1>6 DEF HerRecord, HerBehind, HandKnows, Arming, LooseFits, Mends, Reading, Firing
<1> QED BY <1>7, <1>8 DEF Sound

(* A call that has read the row, or found its record ended, and saves nothing *)
(* yet.                                                                       *)
LEMMA SoundTurns ==
    ASSUME TInv, IInv, Clean, Sound,
           \/ \E rule \in Rules, timing \in BOOLEAN : Update(rule, timing)
           \/ CreateAgain \/ Cancel \/ (Edit /\ ~Live(her.row.id))
    PROVE  Sound'
<1> USE DEF HerStep
<1>0. plan.id \in Nat /\ HerOK /\ HerBehind
  BY Basics DEF Numbers, TInv, Sound
<1>1. UNCHANGED <<records, fired, plan, up, hand, acted>> /\ her.pc \in {"idle", "edit"}
  BY DEF Update, CreateAgain, Cancel, Edit, native, seen
<1>2. ASSUME NEW rule \in Rules, NEW timing \in BOOLEAN, Update(rule, timing) PROVE Sound'
  <2>1. her'.pc \in {"edit", "make"} /\ her'.row = plan
    BY <1>2 DEF Update
  <2> QED BY <1>0, <1>1, <2>1, HerTurns
<1>3. CASE CreateAgain
  <2>1. her'.pc = "find" /\ plan.id = None
    BY <1>3 DEF CreateAgain
  <2> QED BY <1>0, <1>1, <2>1, HerTurns DEF Reading
<1>4. CASE Cancel
  <2>1. her'.pc \in {"cancel", "delete"} /\ her'.row = plan
    BY <1>4 DEF Cancel
  <2> QED BY <1>0, <1>1, <2>1, HerTurns DEF Reading
<1>5. CASE Edit /\ ~Live(her.row.id)
  <2>1. her.pc = "edit" /\ her' = [her EXCEPT !.pc = "make"] /\ {"pc", "row"} \subseteq DOMAIN her
    BY <1>0, <1>5 DEF Edit, HerOK
  <2>2. her'.pc = "make" /\ her'.row = her.row
    BY <2>1
  <2> QED BY <1>0, <1>1, <2>1, <2>2, HerTurns DEF HerBehind, Reading
<1> QED BY <1>2, <1>3, <1>4, <1>5

(* _created makes the plan's first record, which waits for its name. *)
LEMMA SoundFind == ASSUME TInv, IInv, Clean, Sound, Find PROVE Sound'
<1>0. Numbers
  BY Basics
<1>1. /\ up /\ ~hand.start /\ her.pc = "find" /\ UNCHANGED <<fired, plan, up, hand, acted>>
      /\ plan.id = None /\ Len(records) = 0 /\ Hers = {}
  BY DEF Find, HerStep, Sound, Named, Unnamed, Hers, seen
<1>2. acted = {} /\ plan.last = 0 /\ Records = {} /\ Fired = {} /\ hand.pc \notin Firing
  BY <1>0, <1>1 DEF Sound, Unnamed, Numbers, Fired, HandKnows, Records, TInv, HandOK, IInv, HandGoes, Goes, Mending, Firing
<1>3. Make(Kind(plan.rule), plan.version) /\ her' = [pc |-> "bind", id |-> NextId] /\ NextId = 1
  BY <1>1 DEF Find, NextId
<1>4. /\ Len(records') = 1 /\ Records' = {1} /\ records'[1] = Record(Kind(plan.rule), plan.version)
  <2>1. Kind(plan.rule) \in {"shot", "repeat"} /\ plan.version \in Nat /\ records \in Seq(RecordType) /\ fired \in Seq(Nat)
    BY <1>0 DEF Kind, Numbers, TInv, RecordsOK, IInv, Logged
  <2>2. Len(records') = Len(records) + 1 /\ Records' = Records \cup {NextId}
        /\ records'[NextId] = Record(Kind(plan.rule), plan.version)
    BY <1>3, <2>1, Making
  <2> QED BY <1>1, <1>2, <1>3, <2>2
<1>5. records'[1].live /\ records'[1].kind = Kind(plan.rule) /\ records'[1].version = plan.version
  BY <1>4 DEF Record
<1>6. Live(1)' /\ Alive(1)' /\ Hers' = {}
  BY <1>3, <1>4, <1>5 DEF Live, Alive, Hers
<1>7. Loose' = {1} /\ Fit(1)'
  <2>1. Fired' = {} /\ 1 # None /\ 1 > None
    BY <1>1, <1>2 DEF Fired, None
  <2>2. Loose' = {1}
    BY <1>1, <1>4, <1>6, <2>1 DEF Loose, Waiting
  <2> QED BY <1>1, <1>2, <1>5, <2>1, <2>2 DEF Fit
<1>8. Named' /\ Unnamed' /\ Fits' /\ Latest' /\ Wakes'
  <2>1. Named'
    BY <1>1, <1>3 DEF Sound, Named
  <2>2. Unnamed'
    BY <1>1, <1>2, <1>3, <1>4, <1>5, <1>6 DEF Unnamed
  <2> QED BY <1>1, <1>2, <2>1, <2>2 DEF Fits, Latest, Wakes
<1>9. ~Mending /\ ~Mending' /\ hand.pc \notin {"arm", "hang"}
  BY <1>1 DEF Mending, TInv, HandOK, Sound, Arming
<1>10. HerRecord' /\ HerBehind' /\ HandKnows' /\ Arming' /\ LooseFits' /\ Mends'
  <2>1. HandKnows' /\ Arming' /\ Mends'
    BY <1>1, <1>2, <1>9 DEF Sound, HandKnows, Arming, Mends, Firing
  <2>2. HerRecord' /\ HerBehind' /\ LooseFits'
    BY <1>3, <1>7 DEF HerRecord, HerBehind, LooseFits, Reading
  <2> QED BY <2>1, <2>2
<1> QED BY <1>8, <1>10 DEF Sound

(* The plan takes the record's name; nothing of it has been handed over. *)
LEMMA SoundBind == ASSUME TInv, IInv, Clean, Sound, Bind, Clean' PROVE Sound'
<1>0. Numbers
  BY Basics
<1>1. /\ up /\ ~hand.start /\ her.pc = "bind" /\ UNCHANGED <<records, fired, up, hand, acted>>
      /\ plan.id = None /\ hand.pc = "idle" /\ her' = Quiet
      /\ her.id \in Records
  BY DEF Bind, HerStep, Clean, native, seen, TInv, HerOK
<1>2. acted = {} /\ plan.last = 0 /\ Records = {1} /\ her.id = 1 /\ Hers = {} /\ Hers' = {}
  BY <1>0, <1>1 DEF Sound, Unnamed, Numbers, Hers, Quiet
<1> DEFINE status == IF plan.status \in Ended THEN plan.status ELSE "ACTIVE"
           row == [plan EXCEPT !.id = her.id, !.status = status]
<1>3. /\ row \in Rows /\ Saved(row) /\ row.id = 1 /\ row.last = 0 /\ row.status = "ACTIVE"
      /\ row.rule = plan.rule /\ row.version = plan.version
  <2>1. status = "ACTIVE"
    BY DEF Clean
  <2>2. Saved(row)
    BY DEF Bind
  <2>3. status \in {"NONE", "CREATING", "ACTIVE", "CANCELLED", "FIRED"} /\ her.id \in Nat
    BY <1>2, <2>1
  <2> HIDE DEF status
  <2>4. row \in Rows /\ row.id = her.id /\ row.last = plan.last /\ row.status = status
        /\ row.rule = plan.rule /\ row.version = plan.version
    BY <1>0, <2>3 DEF Numbers, Rows
  <2> QED BY <1>2, <2>1, <2>2, <2>4
<1>4. plan'.id = 1 /\ plan'.last = 0 /\ plan'.status = "ACTIVE" /\ plan'.rule = plan.rule /\ plan'.version = plan.version
  <2> HIDE DEF row
  <2> QED BY <1>3, SavedOK
<1>5. Loose' = {} /\ Records' = Records /\ 1 # None /\ her'.pc = "idle"
  BY <1>1, <1>2, <1>4 DEF Loose, Waiting, Records, None, Quiet
<1>6. Named' /\ Unnamed' /\ Fits' /\ Latest'
  BY <1>1, <1>2, <1>4, <1>5 DEF Sound, Named, Unnamed, Fits, Latest
<1>7. Wakes'
  <2>1. Alive(1)
    BY <1>1, <1>2 DEF Sound, Unnamed
  <2>2. Alive(1)'
    BY <1>1, <1>2, <1>4, <1>5, <2>1 DEF Alive, Live, Due
  <2> QED BY <1>4, <2>2 DEF Wakes
<1>8. HerRecord' /\ HerBehind' /\ HandKnows' /\ Arming' /\ LooseFits' /\ Mends'
  BY <1>1, <1>5 DEF HerRecord, HerBehind, HandKnows, Arming, LooseFits, Mends, Mending, Reading, Firing
<1> QED BY <1>6, <1>7, <1>8 DEF Sound

(* A loose record, and the one the plan is to be hung on, are newer than the  *)
(* plan's.                                                                    *)
LEMMA Newer ==
    ASSUME TInv, IInv, Sound
    PROVE  /\ \A i \in Loose : i > plan.id /\ i \in Records /\ Live(i)
           /\ hand.pc = "hang" => hand.id > plan.id /\ hand.id \in Records
           /\ plan.id # None /\ Loose # {} => ~Live(plan.id)
BY Basics DEF Sound, LooseFits, Arming, Fit, Loose, Waiting, TInv, HandOK

(* The record edited is the plan's or an older one: no loose one, nor the one *)
(* an arming hangs the plan on.                                               *)
LEMMA SoundEdit == ASSUME TInv, IInv, Clean, Sound, Edit, Live(her.row.id) PROVE Sound'
<1> DEFINE i == her.row.id
<1>0. Numbers
  BY Basics
<1>1. /\ up /\ ~hand.start /\ her.pc = "edit" /\ UNCHANGED <<fired, plan, up, hand, acted>>
      /\ her' = [pc |-> "save", row |-> her.row, rule |-> her.rule, id |-> i] /\ Edited
  BY DEF Edit, HerStep, seen
<1>2. /\ i \in Records /\ i <= plan.id /\ i # None /\ her.row \in Rows /\ her.row.rule = plan.rule
      /\ her.rule = her.row.rule /\ (her.timing => her.rule = "native") /\ records[i].live
      /\ her.row.version \in Nat
  BY <1>1 DEF TInv, HerOK, Sound, HerBehind, Live, Reading, Rows
<1>3. /\ Records' = Records /\ Len(records') = Len(records)
      /\ \A k \in Records : /\ k # i => records'[k] = records[k]
                            /\ records'[k].since = records[k].since /\ records'[k].live = records[k].live
      /\ records'[i].version = her.row.version + 1
      /\ records'[i].kind = IF her.timing THEN Kind(her.rule) ELSE records[i].kind
  BY <1>1, <1>2, EditedOne DEF TInv, RecordsOK, SameIds
<1>4. her'.pc = "save" /\ her'.row = her.row /\ her'.rule = her.rule /\ her'.id = i /\ plan.id \in Records /\ plan.id # None
  BY <1>0, <1>1, <1>2 DEF Numbers, None
<1>5. Hers = {} /\ Hers' = {i} /\ Loose' = Loose /\ i \notin Loose /\ ~Mending /\ ~Mending' /\ Fired' = Fired
  <2>1. Hers = {} /\ Hers' = {i} /\ ~Mending /\ ~Mending' /\ Fired' = Fired
    BY <1>1, <1>4 DEF Hers, Mending, TInv, HandOK, Fired
  <2>2. i \notin Loose
    BY <1>0, <1>2, Newer DEF Numbers
  <2> QED BY <1>1, <1>3, <2>1, <2>2 DEF Loose, Waiting, Live
<1>6. ASSUME NEW k \in Records, k # i, Fit(k) PROVE Fit(k)'
  BY <1>1, <1>3, <1>4, <1>6 DEF Fit, Live, Since
<1>7. \A k \in Records : (Live(k)' <=> Live(k)) /\ (k # i /\ Alive(k) => Alive(k)')
  BY <1>1, <1>3 DEF Live, Alive, Due
<1>8. Named' /\ Unnamed' /\ Latest' /\ HerBehind' /\ HandKnows'
  <2>1. Named' /\ Unnamed' /\ HerBehind' /\ HandKnows'
    BY <1>1, <1>2, <1>4 DEF Sound, Named, Unnamed, HerBehind, HandKnows, Reading
  <2>2. Latest'
    BY <1>1, <1>3, <1>4 DEF Sound, Latest, Since
  <2> QED BY <2>1, <2>2
<1>9. Fits'
  <2>1. records[plan.id].kind = Kind(plan.rule) /\ records[plan.id].version = plan.version
    BY <1>1, <1>4 DEF Sound, Fits
  <2> QED BY <1>1, <1>2, <1>3, <1>4, <2>1 DEF Fits
<1>10. Wakes'
  <2>1. CASE plan.id = i
    BY <1>1, <1>2, <1>3, <1>4, <2>1 DEF Wakes, Alive, Live
  <2>2. CASE plan.id # i
    BY <1>1, <1>4, <1>7, <2>2 DEF Sound, Wakes, Deleting, ToArm, Goes, Mending
  <2> QED BY <2>1, <2>2
<1>11. HerRecord'
  BY <1>2, <1>3, <1>4 DEF HerRecord
<1>12. Arming'
  <2>1. hand.pc = "hang" => hand.id \in Records /\ hand.id # i
    BY <1>0, <1>2, Newer DEF Numbers
  <2>2. hand.pc = "hang" => Fit(hand.id)' /\ Alive(hand.id)'
    BY <1>1, <1>6, <1>7, <2>1 DEF Sound, Arming
  <2> QED BY <1>1, <1>3, <1>5, <2>2 DEF Sound, Arming, Live
<1>13. LooseFits' /\ Mends'
  <2>1. \A k \in Loose : k \in Records /\ k # i
    BY <1>5, Newer
  <2> QED BY <1>1, <1>4, <1>5, <1>6, <2>1 DEF Sound, LooseFits, Mends
<1> QED BY <1>8, <1>9, <1>10, <1>11, <1>12, <1>13 DEF Sound

(* An update makes a record newer than all that fired, which only it knows. *)
LEMMA SoundMakeNew == ASSUME TInv, IInv, Clean, Sound, MakeNew PROVE Sound'
<1>n. PICK n : n = NextId
  OBVIOUS
<1>0. Numbers
  BY Basics
<1>1. /\ up /\ ~hand.start /\ her.pc = "make" /\ UNCHANGED <<fired, plan, up, hand, acted>>
      /\ her' = [pc |-> IF her.row.id = None THEN "save" ELSE "drop",
                 row |-> her.row, rule |-> her.rule, id |-> n]
      /\ Make(Kind(her.rule), her.row.version + 1)
  BY <1>n DEF MakeNew, HerStep, seen
<1>2. her.row \in Rows /\ her.row.id \in Nat /\ her.row.version \in Nat /\ her.row.id <= plan.id /\ her.row.rule = plan.rule
  BY <1>1 DEF TInv, HerOK, Sound, HerBehind, Reading, Rows
<1>3. /\ Len(records') = Len(records) + 1 /\ Records' = Records \cup {n} /\ n = Len(records) + 1
      /\ n \notin Records /\ n \notin Fired /\ \A k \in Records : records'[k] = records[k]
      /\ records'[n] = Record(Kind(her.rule), her.row.version + 1)
  <2>1. Kind(her.rule) \in {"shot", "repeat"} /\ her.row.version + 1 \in Nat /\ records \in Seq(RecordType) /\ fired \in Seq(Nat)
    BY <1>2 DEF Kind, TInv, RecordsOK, IInv, Logged
  <2>2. /\ Len(records') = Len(records) + 1 /\ Records' = Records \cup {n}
        /\ \A k \in Records : records'[k] = records[k]
        /\ records'[n] = Record(Kind(her.rule), her.row.version + 1)
    BY <1>1, <1>n, <2>1, Making
  <2>3. n = Len(records) + 1 /\ n \notin Records
    BY <1>0, <1>n DEF NextId, Numbers
  <2>4. n \notin Fired
    BY <1>0, <2>3 DEF Numbers, Fired
  <2> QED BY <2>2, <2>3, <2>4
<1>4. /\ records'[n].kind = Kind(her.rule) /\ records'[n].version = her.row.version + 1
      /\ records'[n].live /\ records'[n].since = Len(fired)
  BY <1>3 DEF Record
<1>5. her'.pc \in {"save", "drop"} /\ her'.row = her.row /\ her'.rule = her.rule /\ her'.id = n
      /\ (her'.pc = "save" <=> her.row.id = None)
  BY <1>1
<1>6. \A k \in Records : (Live(k)' <=> Live(k)) /\ (Alive(k)' <=> Alive(k)) /\ (Fit(k) => Fit(k)')
  <2>1. plan.id # None => plan.id \in Records
    BY <1>0 DEF Numbers, None
  <2>2. \A k \in Records : (Live(k)' <=> Live(k)) /\ Since(k)' = Since(k)
    BY <1>3 DEF Live, Since
  <2>3. \A k \in Records : (Alive(k)' <=> Alive(k))
    BY <1>1, <1>3, <2>2 DEF Alive, Due
  <2>4. \A k \in Records : Fit(k) => Fit(k)'
    BY <1>1, <1>3, <2>1, <2>2 DEF Fit
  <2> QED BY <2>2, <2>3, <2>4
<1>7. Hers = {} /\ Hers' = {n} /\ Loose' = Loose /\ Fired' = Fired /\ ~Mending /\ ~Mending' /\ n # plan.id
  <2>1. Hers = {} /\ Hers' = {n} /\ Fired' = Fired /\ ~Mending /\ ~Mending' /\ n # plan.id
    BY <1>0, <1>1, <1>3, <1>5 DEF Hers, Mending, TInv, HandOK, Fired, Numbers
  <2>2. Loose' = Loose
    BY <1>1, <1>3, <1>6, <2>1 DEF Loose, Waiting
  <2> QED BY <2>1, <2>2
<1>8. Named' /\ HerBehind' /\ HandKnows'
  BY <1>1, <1>2, <1>5 DEF Sound, Named, HerBehind, HandKnows, Reading
<1>9. Unnamed'
  <2> SUFFICES ASSUME plan.id = None PROVE Unnamed'
    BY <1>1 DEF Unnamed
  <2>1. Len(records) = 0 /\ acted = {} /\ plan.last = 0
    BY <1>1 DEF Sound, Unnamed
  <2>2. her'.pc = "save" /\ Records' = {n} /\ Live(n)'
    BY <1>0, <1>2, <1>3, <1>4, <1>5, <2>1 DEF Numbers, Live, None
  <2> QED BY <1>1, <1>3, <1>7, <2>1, <2>2 DEF Unnamed, Alive
<1>10. Fits' /\ Latest'
  <2>1. plan.id # None => plan.id \in Records
    BY <1>0 DEF Numbers, None
  <2>2. Fits'
    BY <1>1, <1>3, <2>1 DEF Sound, Fits
  <2>3. \A s \in acted : plan.id # None
    BY DEF Sound, Unnamed
  <2>4. Latest'
    BY <1>1, <1>3, <2>1, <2>3 DEF Sound, Latest, Since
  <2> QED BY <2>2, <2>4
<1>11. Wakes'
  <2>1. plan.id # None => plan.id \in Records
    BY <1>0 DEF Numbers, None
  <2> QED BY <1>1, <1>6, <2>1 DEF Sound, Wakes, Deleting, ToArm, Goes, Mending
<1>12. HerRecord'
  <2>1. Live(n)' /\ Since(n)' = Len(fired) /\ n # her.row.id
    BY <1>0, <1>2, <1>3, <1>4 DEF Live, Since, Numbers
  <2>2. plan.last <= Since(n)' /\ \A s \in acted : s <= Since(n)'
    BY <1>0, <2>1 DEF Numbers
  <2> QED BY <1>1, <1>4, <1>5, <2>1, <2>2 DEF HerRecord
<1>13. Arming'
  <2>1. hand.pc = "hang" => hand.id \in Records
    BY Newer
  <2>2. hand.pc = "hang" => Fit(hand.id)' /\ Alive(hand.id)'
    BY <1>1, <1>6, <2>1 DEF Sound, Arming
  <2>3. hand.pc \in {"arm", "hang"} => ~Live(plan.id)'
    BY <1>0, <1>1, <1>3, <1>6 DEF Sound, Arming, Numbers, Live, None
  <2> QED BY <1>1, <1>7, <2>2, <2>3 DEF Sound, Arming
<1>14. LooseFits' /\ Mends'
  BY <1>1, <1>6, <1>7, Newer DEF Sound, LooseFits, Mends
<1> QED BY <1>8, <1>9, <1>10, <1>11, <1>12, <1>13, <1>14 DEF Sound

(* A record of hers is deleted, one she read of. *)
LEMMA SoundDelete ==
    ASSUME TInv, IInv, Clean, Sound, her.pc \in {"drop", "delete"}, Delete(her.row.id),
           UNCHANGED <<fired, plan, up, hand, acted>>, up, ~hand.start,
           her'.pc = IF her.pc = "drop" THEN "save" ELSE "cancel",
           her'.row = her.row, her.pc = "drop" => her'.id = her.id /\ her'.rule = her.rule
    PROVE  Sound'
<1>i. PICK i : i = her.row.id
  OBVIOUS
<1>0. Numbers
  BY Basics
<1>1. /\ i \in Nat /\ i # None /\ i <= plan.id /\ i \in Records
      /\ her.pc = "drop" => i < her.id /\ her.id \in Records /\ her.row.rule = plan.rule
      /\ plan.id # None /\ plan.id \in Records
  <2>1. i # None /\ i <= plan.id /\ her.row \in Rows
    BY <1>i DEF TInv, HerOK, Sound, HerBehind, Reading
  <2>2. i \in Nat /\ i \in Records /\ plan.id # None /\ plan.id \in Records
    BY <1>0, <1>i, <2>1 DEF Numbers, Rows, None
  <2> QED BY <1>i, <2>1, <2>2 DEF TInv, HerOK, Sound, HerBehind, Reading
<1>2. /\ Records' = Records /\ Len(records') = Len(records)
      /\ \A k \in Records : Kept(k) /\ records'[k].live = IF k = i THEN FALSE ELSE records[k].live
  BY <1>i, Deleted DEF TInv, RecordsOK, SameIds
<1>3. \A k \in Records : /\ Live(k)' => Live(k)
                         /\ k # i => (Live(k)' <=> Live(k)) /\ (Alive(k)' <=> Alive(k))
                         /\ Fit(k) => Fit(k)'
                         /\ records'[k].kind = records[k].kind /\ records'[k].version = records[k].version
                         /\ Since(k)' = Since(k)
  <2>1. \A k \in Records : /\ records'[k].kind = records[k].kind /\ records'[k].version = records[k].version
                           /\ Since(k)' = Since(k) /\ (Live(k)' => Live(k)) /\ (k # i => (Live(k)' <=> Live(k)))
    BY <1>2 DEF Kept, Since, Live
  <2>2. \A k \in Records : k # i => (Alive(k)' <=> Alive(k))
    BY <2>1 DEF Alive, Due
  <2>3. \A k \in Records : Fit(k) => Fit(k)'
    BY <1>1, <2>1 DEF Fit
  <2> QED BY <2>1, <2>2, <2>3
<1>4. i \notin Loose /\ Loose' = Loose /\ Fired' = Fired /\ ~Mending /\ ~Mending' /\ Hers' = Hers
  <2>0. Hers' = Hers
    BY DEF Hers
  <2>a. Fired' = Fired /\ ~Mending /\ ~Mending'
    BY DEF Fired, Mending, TInv, HandOK
  <2>b. i \notin Loose
    BY <1>0, <1>1, Newer DEF Numbers
  <2>1. i \notin Loose /\ Fired' = Fired /\ ~Mending /\ ~Mending' /\ Hers' = Hers
    BY <2>0, <2>a, <2>b
  <2>2. Loose \subseteq Loose'
    BY <1>2, <1>3, <2>1 DEF Loose, Waiting
  <2>3. Loose' \subseteq Loose
    BY <1>2, <1>3, <2>1 DEF Loose, Waiting
  <2> QED BY <2>1, <2>2, <2>3
<1>5. ~Live(i)'
  BY <1>1, <1>2 DEF Live
<1>6. Named' /\ Unnamed' /\ HerBehind' /\ HandKnows'
  BY <1>1 DEF Sound, Named, Unnamed, HerBehind, HandKnows, Reading
<1>7. Fits' /\ Latest'
  BY <1>1, <1>3 DEF Sound, Fits, Latest
<1>8. Wakes'
  <2>1. CASE plan.id = i
    BY <1>1, <1>i, <2>1 DEF Wakes, Deleting
  <2>2. CASE plan.id # i
    BY <1>1, <1>3, <2>2 DEF Sound, Wakes, Deleting, ToArm, Goes, Mending
  <2> QED BY <2>1, <2>2
<1>9. HerRecord'
  <2>1. CASE her.pc = "delete"
    BY <2>1 DEF HerRecord
  <2>2. CASE her.pc = "drop"
    <3>1. her'.id = her.id /\ her'.rule = her.rule /\ her'.pc = "save" /\ her.id \in Records /\ her.id # i /\ her.id # her.row.id
      BY <1>0, <1>1, <1>i, <2>2 DEF Numbers
    <3>2. /\ records[her.id].version = her.row.version + 1
          /\ records[her.id].kind = Kind(her.rule)
          /\ Live(her.id) \/ (records[her.id].kind = "shot" /\ her.id \in Fired)
          /\ her.row = plan => /\ plan.last <= Since(her.id)
                               /\ \A s \in acted : \/ s <= Since(her.id)
                                                   \/ hand.pc \in {"reread", "save"} /\ s = hand.seq
      BY <2>2, <3>1 DEF Sound, HerRecord
    <3> QED BY <1>3, <1>4, <1>5, <1>i, <3>1, <3>2 DEF HerRecord
  <2> QED BY <2>1, <2>2
<1>10. Arming'
  <2>1. hand.pc = "hang" => hand.id \in Records /\ hand.id # i
    BY <1>0, <1>1, Newer DEF Numbers
  <2>2. hand.pc = "hang" => Fit(hand.id)' /\ Alive(hand.id)'
    BY <1>3, <2>1 DEF Sound, Arming
  <2> QED BY <1>1, <1>3, <1>4, <2>2 DEF Sound, Arming
<1>11. LooseFits' /\ Mends'
  BY <1>3, <1>4, Newer DEF Sound, LooseFits, Mends
<1> QED BY <1>6, <1>7, <1>8, <1>9, <1>10, <1>11 DEF Sound

(* An update whose row is still the plan's hangs the plan on the record it    *)
(* made or edited.                                                            *)
LEMMA SoundSaveUpdate == ASSUME TInv, IInv, Clean, Sound, SaveUpdate, Clean' PROVE Sound'
<1>n. PICK n : n = her.id
  OBVIOUS
<1>0. Numbers
  BY Basics
<1>1. /\ up /\ ~hand.start /\ her.pc = "save" /\ UNCHANGED <<records, fired, up, hand, acted>>
      /\ hand.pc = "idle" /\ her' = Quiet /\ Unchanged /\ Saved(Changed(her.row))
  BY DEF SaveUpdate, HerStep, Clean, native, seen
<1>2. her.row = plan /\ n \in Records /\ n \in Nat /\ n # None /\ plan.id <= n /\ her.rule \in Rules
  <2>1. her.row = plan
    BY <1>1 DEF Unchanged, IInv, HerFresh, Fresh, Reading
  <2> QED BY <1>0, <1>1, <1>n, <2>1 DEF TInv, HerOK, Numbers, None
<1>3. /\ plan'.id = n /\ plan'.status = "ACTIVE" /\ plan'.rule = her.rule /\ plan'.version = plan.version + 1
      /\ plan'.last = plan.last
  <2> DEFINE row == [plan EXCEPT !.status = "ACTIVE", !.id = n, !.rule = her.rule, !.version = @ + 1]
  <2>1. Saved(row)
    BY <1>1, <1>2, <1>n DEF Changed
  <2>2. row \in Rows /\ row.id = n /\ row.status = "ACTIVE" /\ row.rule = her.rule /\ row.version = plan.version + 1
        /\ row.last = plan.last
    <3>1. plan.version + 1 \in Nat /\ plan \in Rows
      BY <1>0 DEF Numbers
    <3>2. row = [plan EXCEPT !.status = "ACTIVE", !.id = n, !.rule = her.rule, !.version = plan.version + 1]
      BY <3>1 DEF Rows
    <3> HIDE DEF row
    <3>3. row \in Rows /\ row.id = n /\ row.status = "ACTIVE" /\ row.rule = her.rule
      BY <1>2, <3>1, <3>2 DEF Rows
    <3>4. row.version = plan.version + 1 /\ row.last = plan.last
      BY <1>2, <3>1, <3>2 DEF Rows
    <3> QED BY <3>3, <3>4
  <2> HIDE DEF row
  <2> QED BY <2>1, <2>2, SavedOK
<1>4. Hers = {n} /\ Hers' = {} /\ Loose = {} /\ her'.pc = "idle" /\ ~Mending'
  BY <1>1, <1>n DEF Hers, Sound, LooseFits, Quiet, Mending
<1>5. Fired' = Fired /\ \A k \in Records : Live(k)' <=> Live(k)
  BY <1>1 DEF Live, Records, Fired
<1>6. CASE n = plan.id
  <2>1. her.rule = plan.rule
    BY <1>1, <1>2, <1>6, <1>n DEF Sound, HerRecord, HerBehind, Reading
  <2>2. Loose' = {}
    BY <1>1, <1>3, <1>4, <1>6 DEF Loose, Waiting, Live, Records, Fired
  <2>3. Fits' /\ Latest' /\ Wakes'
    <3>1. records[n].kind = Kind(plan.rule) /\ records[n].version = plan.version + 1
      BY <1>1, <1>2, <1>6, <1>n DEF Sound, Fits, HerRecord
    <3>2. Alive(plan.id)
      <4>1. ~Deleting /\ ~ToArm
        BY <1>1, <1>2, <1>6, <1>n DEF Deleting, ToArm
      <4> QED BY <1>2, <1>6, <4>1 DEF Sound, Wakes
    <3>3. Alive(n)'
      BY <1>1, <1>3, <1>6, <3>2 DEF Alive, Live, Due, Records
    <3>4. Latest'
      BY <1>1, <1>3, <1>6 DEF Sound, Latest, Since
    <3> QED BY <1>1, <1>3, <2>1, <3>1, <3>3, <3>4 DEF Fits, Wakes
  <2> QED BY <1>1, <1>2, <1>3, <1>4, <2>2, <2>3
          DEF Sound, Named, Unnamed, HerRecord, HerBehind, HandKnows, Arming, LooseFits, Mends, Reading, Firing
<1>7. CASE n # plan.id
  <2>1. /\ records[n].version = plan.version + 1 /\ records[n].kind = Kind(her.rule)
        /\ Live(n) \/ (records[n].kind = "shot" /\ n \in Fired)
        /\ plan.id # None => ~Live(plan.id)
        /\ plan.last <= Since(n) /\ \A s \in acted : s <= Since(n)
    BY <1>1, <1>2, <1>7, <1>n DEF Sound, HerRecord
  <2>2. Loose' = {}
    <3>1. Loose' \subseteq {k \in Records : Live(k) /\ k \notin Fired /\ k # n}
      BY <1>1, <1>3, <1>4, <1>5 DEF Loose, Waiting, Records
    <3>2. \A k \in Records : Live(k) /\ k \notin Fired /\ k # n => k = plan.id /\ plan.id # None
      BY <1>0, <1>4 DEF Loose, Waiting, Numbers, None
    <3> QED BY <2>1, <3>1, <3>2
  <2>3. Alive(n)'
    <3>1. CASE Live(n)
      BY <1>2, <1>5, <3>1 DEF Alive
    <3>2. CASE records[n].kind = "shot" /\ n \in Fired
      <4>1. PICK s \in DOMAIN fired : fired[s] = n
        BY <3>2 DEF Fired
      <4>2. s > plan.last
        <5>1. Since(n) < s /\ s \in Nat /\ Since(n) \in Nat
          BY <1>0, <1>2, <4>1 DEF Numbers, Since
        <5> QED BY <1>0, <2>1, <5>1 DEF Numbers
      <4> QED BY <1>1, <1>3, <3>2, <4>1, <4>2 DEF Alive, Due
    <3> QED BY <2>1, <3>1, <3>2
  <2>4. Fits' /\ Wakes'
    BY <1>1, <1>3, <2>1, <2>3 DEF Fits, Wakes
  <2>5. Latest'
    <3>1. ASSUME NEW s \in acted PROVE fired[s] <= n /\ s <= Since(n)
      <4>1. fired[s] <= plan.id /\ fired[s] \in Nat
        BY <1>0 DEF Sound, Latest, Numbers
      <4> QED BY <1>0, <1>2, <2>1, <4>1 DEF Numbers
    <3> QED BY <1>1, <1>3, <3>1 DEF Latest, Since
  <2> QED BY <1>1, <1>2, <1>3, <1>4, <2>2, <2>4, <2>5
          DEF Sound, Named, Unnamed, HerRecord, HerBehind, HandKnows, Arming, LooseFits, Mends, Reading, Firing
<1> QED BY <1>6, <1>7

(* Her plan tool. *)
LEMMA SoundHer == ASSUME TInv, IInv, NothingYet, Clean, Sound, HerNext, Clean' PROVE Sound'
<1>0. HerOK
  BY DEF TInv
<1>1. CASE DropOld
  <2>1. /\ her.pc = "drop" /\ her' = [her EXCEPT !.pc = "save"] /\ Delete(her.row.id) /\ up /\ ~hand.start
        /\ UNCHANGED <<fired, plan, up, hand, acted>>
    BY <1>1 DEF DropOld, HerStep, Clean, seen
  <2>2. her'.pc = "save" /\ her'.row = her.row /\ her'.id = her.id /\ her'.rule = her.rule
    BY <1>0, <2>1 DEF HerOK
  <2> QED BY <2>1, <2>2, SoundDelete
<1>2. CASE DeleteIts
  <2>1. /\ her.pc = "delete" /\ her' = [her EXCEPT !.pc = "cancel"] /\ Delete(her.row.id) /\ up /\ ~hand.start
        /\ UNCHANGED <<fired, plan, up, hand, acted>>
    BY <1>2 DEF DeleteIts, HerStep, seen
  <2>2. her'.pc = "cancel" /\ her'.row = her.row
    BY <1>0, <2>1 DEF HerOK
  <2> QED BY <2>1, <2>2, SoundDelete
<1>3. CASE SaveCancel
  <2> DEFINE row == [plan EXCEPT !.status = "CANCELLED"]
  <2>1. Saved(row) /\ row.status = "CANCELLED" /\ row \in Rows
    BY <1>3, Basics DEF SaveCancel, Numbers, Rows
  <2>2. plan'.status = "CANCELLED"
    <3> HIDE DEF row
    <3> QED BY <2>1, SavedOK
  <2> QED BY <2>2 DEF Clean, Ended
<1>4. ~HerCallFails
  BY DEF HerCallFails, Clean
<1> QED
  BY <1>1, <1>2, <1>3, <1>4, SoundCreate, SoundTurns, SoundFind, SoundBind, SoundEdit, SoundMakeNew, SoundSaveUpdate
     DEF HerNext

(* The thread that hands over goes on, and saves nothing. *)
LEMMA HandTurns ==
    ASSUME TInv, IInv, Sound, UNCHANGED <<records, fired, plan, up, her, acted>>, up,
           HandKnows', Arming', Mends', Wakes', hand.pc # "hang",
           hand.pc \in {"reread", "save"} => hand'.pc \in {"reread", "save"} /\ hand'.seq = hand.seq,
           hand.start => hand'.start \/ (Loose = {} /\ (plan.id = None => Len(records) = 0))
    PROVE  Sound'
<1>1. Hers' = Hers /\ Loose' = Loose
  BY DEF Hers, Loose, Waiting, Live, Records, Fired
<1>2. Named' /\ Fits' /\ Latest' /\ HerBehind'
  BY DEF Sound, Named, Fits, Latest, HerBehind, Since
<1>3. Unnamed'
  <2>1. \A i \in Records : Alive(i)' <=> Alive(i)
    BY DEF Alive, Live, Due, Records
  <2> QED BY <1>1, <2>1 DEF Sound, Unnamed, Records
<1>4. HerRecord'
  BY DEF Sound, HerRecord, Live, Records, Since, Fired
<1>5. LooseFits'
  <2>1. \A i \in Loose : Fit(i) => Fit(i)'
    BY DEF Fit, Live, Records, Since
  <2> QED BY <1>1, <2>1 DEF Sound, LooseFits
<1> QED BY <1>2, <1>3, <1>4, <1>5 DEF Sound

(* A save of the thread that hands over: the row an update has read is behind. *)
LEMMA HerRowBehind ==
    ASSUME IInv, Sound, UNCHANGED <<records, fired, her>>, Numbers, plan'.revision = plan.revision + 1
    PROVE  HerRecord'
<1>1. her.pc \in {"drop", "save"} => her.row # plan'
  BY DEF IInv, HerFresh, Fresh, Reading, Numbers
<1> QED BY <1>1 DEF Sound, HerRecord, Live, Records, Since, Fired

(* Deliver, Answer and Reread. *)
LEMMA SoundDelivers ==
    ASSUME TInv, IInv, Clean, Sound, Deliver \/ Answer \/ Reread PROVE Sound'
<1> USE DEF HandAt
<1>1. UNCHANGED <<records, fired, plan, up, her, acted>> /\ up
  BY DEF Deliver, Answer, Reread, native, seen
<1>2. HandOK /\ HandGoes /\ HandKnows
  BY DEF TInv, IInv, Sound
<1>3. ASSUME ToArm => ToArm' PROVE Wakes'
  BY <1>1, <1>3 DEF Sound, Wakes, Deleting, Alive, Live, Due, Records
<1>4. CASE Deliver \/ Answer
  <2>1. hand'.pc \in {"idle", "read"} /\ hand.pc \in {"idle", "read"} /\ ~hand.start /\ ~hand'.start
    BY <1>2, <1>4 DEF Deliver, Answer, HandOK, Waits
  <2>2. ~ToArm
    BY <1>1, <2>1 DEF ToArm
  <2> QED BY <1>1, <1>3, <2>1, <2>2, HandTurns DEF HandKnows, Arming, Mends, Mending, Firing
<1>5. CASE Reread
  <2>1. hand.pc = "reread" /\ hand' = [pc |-> "save", start |-> hand.start, seq |-> hand.seq, upto |-> hand.upto, row |-> plan]
    BY <1>5 DEF Reread
  <2>2. hand'.pc = "save" /\ hand'.start = hand.start /\ hand'.seq = hand.seq /\ hand'.row = plan
    BY <2>1
  <2>3. ToArm => ToArm'
    BY <1>1, <2>1, <2>2 DEF ToArm, Goes, Mending
  <2>4. HandKnows'
    BY <1>1, <1>2, <2>1, <2>2 DEF HandKnows, Firing
  <2> QED BY <1>1, <1>3, <2>1, <2>2, <2>3, <2>4, HandTurns DEF Arming, Mends, Mending
<1> QED BY <1>4, <1>5

(* The version guard: what is taken up is of the plan's record, what is       *)
(* passed over is not.                                                        *)
LEMMA SoundRead == ASSUME TInv, IInv, Clean, Sound, Read, Clean' PROVE Sound'
<1> USE DEF HandAt
<1>0. Numbers
  BY Basics
<1>1. UNCHANGED <<records, fired, up, her, acted>> /\ up /\ hand.pc = "read" /\ hand.seq <= hand.upto
  BY DEF Read, native
<1>2. Goes /\ hand.seq \in Nat \ {0} /\ {"pc", "start", "seq", "upto"} \subseteq DOMAIN hand /\ PassedTo(hand.seq)
  BY <1>1 DEF TInv, HandOK, IInv, HandGoes, Goes, Mending, InOrder
<1>3. CASE Past(hand.seq)
  <2>1. hand' = Onward /\ UNCHANGED plan
    BY <1>3 DEF Read
  <2>2. hand'.pc = "read" /\ hand'.start = hand.start
    BY <2>1 DEF Onward
  <2>3. Wakes'
    BY <1>1, <1>2, <2>1, <2>2 DEF Sound, Wakes, Deleting, Alive, Live, Due, Records, ToArm, Goes, Mending
  <2> QED BY <1>1, <2>1, <2>2, <2>3, HandTurns DEF HandKnows, Arming, Mends, Mending, Firing
<1>4. CASE ~Past(hand.seq) /\ ~Stale(hand.seq)
  <2>1. hand' = [hand EXCEPT !.pc = "act"] /\ UNCHANGED plan /\ plan.id # None
    BY <1>3, <1>4 DEF Read, Clean
  <2>2. hand'.pc = "act" /\ hand'.start = hand.start /\ hand'.seq = hand.seq
    BY <1>2, <2>1
  <2>3. plan.id = fired[hand.seq]
    BY <1>4, <2>1 DEF Stale, The
  <2>4. Wakes'
    BY <1>1, <1>2, <2>1, <2>2 DEF Sound, Wakes, Deleting, Alive, Live, Due, Records, ToArm, Goes, Mending
  <2> QED BY <1>1, <2>1, <2>2, <2>3, <2>4, HandTurns DEF HandKnows, Arming, Mends, Mending, Firing
<1>5. CASE ~Past(hand.seq) /\ Stale(hand.seq)
  <2> DEFINE row == [plan EXCEPT !.last = hand.seq]
  <2>1. Saved(row) /\ hand' = Onward
    BY <1>5 DEF Read
  <2>2. row \in Rows /\ row.last = hand.seq /\ row.id = plan.id /\ row.status = plan.status /\ row.rule = plan.rule
        /\ row.version = plan.version /\ row.revision = plan.revision
    BY <1>0, <1>2 DEF Numbers, Rows
  <2>3. /\ plan'.last = hand.seq /\ plan'.id = plan.id /\ plan'.status = plan.status /\ plan'.rule = plan.rule
        /\ plan'.version = plan.version /\ plan'.revision = plan.revision + 1
    <3> HIDE DEF row
    <3> QED BY <2>1, <2>2, SavedOK
  <2>4. hand'.pc = "read" /\ hand'.start = hand.start /\ plan.id # None /\ plan.id # fired[hand.seq]
    BY <1>5, <2>1 DEF Onward, Stale, The
  <2>5. hand.seq = plan.last + 1
    BY <1>0, <1>2, <1>5 DEF Past, PassedTo, Numbers
  <2>6. Alive(plan.id) => Alive(plan.id)'
    <3>1. ASSUME NEW s \in DOMAIN fired, s > plan.last, fired[s] = plan.id PROVE s > hand.seq
      BY <1>0, <2>4, <2>5, <3>1 DEF Numbers
    <3> QED BY <1>1, <2>3, <3>1 DEF Alive, Live, Due, Records
  <2>7. Hers' = Hers /\ Loose' = Loose
    BY <1>1, <2>3 DEF Hers, Loose, Waiting, Live, Records, Fired
  <2>8. Named' /\ Unnamed' /\ Fits' /\ Latest' /\ HerBehind' /\ HandKnows'
    BY <1>1, <2>3, <2>4 DEF Sound, Named, Unnamed, Fits, Latest, HerBehind, HandKnows, Since, Firing
  <2>9. Wakes'
    BY <1>1, <1>2, <2>3, <2>4, <2>6 DEF Sound, Wakes, Deleting, ToArm, Goes, Mending
  <2>10. LooseFits'
    <3>1. \A i \in Loose : Fit(i) => Fit(i)'
      BY <1>1, <2>3 DEF Fit, Live, Records, Since
    <3> QED BY <1>1, <2>4, <2>7, <3>1 DEF Sound, LooseFits
  <2>11. HerRecord'
    BY <1>0, <1>1, <2>3, HerRowBehind
  <2> QED BY <2>4, <2>8, <2>9, <2>10, <2>11 DEF Sound, Arming, Mends, Mending
<1> QED BY <1>3, <1>4, <1>5

(* A firing of the plan's record becomes an event of hers, or is refused. *)
LEMMA SoundAct == ASSUME TInv, IInv, Clean, Sound, Act PROVE Sound'
<1>0. Numbers
  BY Basics
<1>1. UNCHANGED <<records, fired, plan, up, her>> /\ up /\ hand.pc = "act" /\ hand' = [hand EXCEPT !.pc = "reread"]
      /\ (acted' = acted \cup {hand.seq} \/ acted' = acted)
  BY DEF Act, HandAt, native
<1>2. hand'.pc = "reread" /\ hand'.start = hand.start /\ hand'.seq = hand.seq
  BY <1>1 DEF IInv, HandGoes, Goes, Mending
<1>3. plan.id = fired[hand.seq] /\ hand.seq \in DOMAIN fired /\ plan.id # None /\ hand.seq \in Nat
  <2>1. plan.id = fired[hand.seq] /\ hand.seq \in Nat \ {0} /\ hand.seq <= hand.upto /\ hand.upto <= Len(fired) /\ hand.upto \in Nat
    BY <1>1 DEF Sound, HandKnows, Firing, IInv, HandGoes, Goes, Mending, TInv, HandOK
  <2>2. hand.seq \in DOMAIN fired
    BY <1>0, <2>1 DEF Numbers
  <2> QED BY <1>0, <2>1, <2>2 DEF Numbers, None
<1>4. Hers' = Hers /\ Loose' = Loose
  BY <1>1 DEF Hers, Loose, Waiting, Live, Records, Fired
<1>5. Named' /\ Unnamed' /\ Fits' /\ HerBehind' /\ HandKnows'
  BY <1>1, <1>2, <1>3 DEF Sound, Named, Unnamed, Fits, HerBehind, HandKnows, Firing
<1>6. Latest'
  BY <1>0, <1>1, <1>3 DEF Sound, Latest, Since, Numbers
<1>7. Wakes'
  BY <1>1, <1>2 DEF Sound, Wakes, Deleting, Alive, Live, Due, Records, ToArm, Goes, Mending
<1>8. HerRecord'
  BY <1>1, <1>2 DEF Sound, HerRecord, Live, Records, Since, Fired
<1>9. LooseFits'
  <2>1. \A i \in Loose : Fit(i) => Fit(i)'
    BY <1>1, <1>3 DEF Fit, Live, Records, Since
  <2> QED BY <1>1, <1>2, <1>4, <2>1 DEF Sound, LooseFits
<1> QED BY <1>2, <1>5, <1>6, <1>7, <1>8, <1>9 DEF Sound, Arming, Mends, Mending

(* After a firing, a plan on a clock goes to be armed, one that repeats still *)
(* has its record.                                                            *)
LEMMA SoundSaveFiring == ASSUME TInv, IInv, Clean, Sound, SaveFiring, Clean' PROVE Sound'
<1>0. Numbers
  BY Basics
<1>1. UNCHANGED <<records, fired, up, her, acted>> /\ up /\ hand.pc = "save" /\ hand.row = plan
  BY DEF SaveFiring, HandAt, native, seen, Sound, HandKnows
<1>2. plan.id = fired[hand.seq] /\ hand.seq \in DOMAIN fired /\ plan.id \in Records /\ plan.id # None /\ hand.seq \in Nat
  <2>1. plan.id = fired[hand.seq] /\ hand.seq \in Nat \ {0} /\ hand.seq <= hand.upto /\ hand.upto <= Len(fired) /\ hand.upto \in Nat
    BY <1>1 DEF Sound, HandKnows, Firing, IInv, HandGoes, Goes, Mending, TInv, HandOK
  <2>2. hand.seq \in DOMAIN fired
    BY <1>0, <2>1 DEF Numbers
  <2> QED BY <1>0, <2>1, <2>2 DEF Numbers, None
<1>3. plan.status = "ACTIVE"
  BY <1>2 DEF Sound, Named
<1> DEFINE status == AfterFiring(plan, hand.seq)
           row == [plan EXCEPT !.status = status, !.last = hand.seq]
<1>4. Saved(row) /\ hand' = CASE status = "FIRED" -> [Onward EXCEPT !.pc = "remove"]
                              [] status = "ACTIVE" /\ plan.rule = "clock" -> ArmsNext
                              [] OTHER -> Onward
  BY <1>1 DEF SaveFiring
<1>5. status \in {"ACTIVE", "FIRED"} /\ (status # "FIRED" /\ plan.rule # "clock" => records[plan.id].kind = "repeat")
  BY <1>0, <1>2, <1>3 DEF AfterFiring, The, Numbers
<1> HIDE DEF status
<1>6. row \in Rows /\ row.last = hand.seq /\ row.id = plan.id /\ row.status = status /\ row.rule = plan.rule
      /\ row.version = plan.version /\ row.revision = plan.revision
  BY <1>0, <1>2, <1>5 DEF Numbers, Rows
<1>7. /\ plan'.last = hand.seq /\ plan'.id = plan.id /\ plan'.status = status /\ plan'.rule = plan.rule
      /\ plan'.version = plan.version /\ plan'.revision = plan.revision + 1
  <2> HIDE DEF row
  <2> QED BY <1>4, <1>6, SavedOK
<1>8. status = "ACTIVE" /\ hand' = IF plan.rule = "clock" THEN ArmsNext ELSE Onward
  BY <1>4, <1>5, <1>7 DEF Clean, Ended
<1>9. hand'.start = hand.start /\ hand'.pc = (IF plan.rule = "clock" THEN "arm" ELSE "read")
      /\ (plan.rule = "clock" => hand'.back = "read")
  BY <1>8 DEF ArmsNext, Onward
<1>10. Hers' = Hers /\ Loose' = Loose /\ ~Mending'
  BY <1>1, <1>7, <1>9 DEF Hers, Loose, Waiting, Live, Records, Fired, Mending
<1>11. Named' /\ Unnamed' /\ Fits' /\ Latest' /\ HerBehind' /\ HandKnows'
  BY <1>1, <1>2, <1>3, <1>7, <1>8, <1>9 DEF Sound, Named, Unnamed, Fits, Latest, HerBehind, HandKnows, Since, Firing
<1>12. Wakes'
  <2>1. CASE plan.rule = "clock"
    BY <1>7, <1>9, <2>1 DEF Wakes, ToArm
  <2>2. CASE plan.rule # "clock"
    BY <1>1, <1>2, <1>5, <1>7, <1>8, <2>2 DEF Sound, Wakes, ToArm, Deleting, Alive, Live, Records
  <2> QED BY <2>1, <2>2
<1>13. HerRecord'
  BY <1>0, <1>1, <1>7, HerRowBehind
<1>14. Arming'
  <2>1. plan.rule = "clock" => ~Live(plan.id)
    BY <1>0, <1>2 DEF Sound, Fits, Kind, Numbers, Fired, Live
  <2> QED BY <1>1, <1>2, <1>7, <1>9, <2>1 DEF Arming, Live, Records
<1>15. LooseFits'
  <2>1. \A i \in Loose : Fit(i) => Fit(i)'
    BY <1>1, <1>7 DEF Fit, Live, Records, Since
  <2> QED BY <1>1, <1>9, <1>10, <2>1 DEF Sound, LooseFits
<1> QED BY <1>10, <1>11, <1>12, <1>13, <1>14, <1>15 DEF Sound, Mends

(* An arming takes the one loose record, or makes one: it fits the plan. *)
LEMMA SoundArm == ASSUME TInv, IInv, Clean, Sound, Arm, Clean' PROVE Sound'
<1>0. Numbers
  BY Basics
<1>1. UNCHANGED <<fired, plan, up, her, acted>> /\ up /\ hand.pc = "arm"
  BY DEF Arm, HandAt, seen
<1>2. /\ plan.rule = "clock" /\ plan.id # None /\ plan.id \in Records /\ ~Live(plan.id) /\ plan.status \notin Ended
      /\ hand.pc \notin Firing
  BY <1>0, <1>1 DEF Sound, Arming, Clean, Numbers, None, Firing
<1>3. /\ hand.back \in {"read", "mend"} /\ {"pc", "start", "back", "id", "taken"} \subseteq DOMAIN hand
      /\ Mending => /\ {"waiting", "made", "at", "armed"} \subseteq DOMAIN hand
                    /\ hand.armed /\ hand.waiting = {} /\ hand.at >= 2 /\ hand.made \in Nat /\ hand.made <= Len(records)
  BY <1>1 DEF IInv, HandGoes, TInv, HandOK, Sound, Mends
<1>4. ASSUME NEW n \in Records', NEW taken, hand' = Armed(n, taken)
      PROVE  /\ hand'.pc = "hang" /\ hand'.start = hand.start /\ hand'.id = n /\ hand'.back = hand.back
             /\ Mending' <=> Mending
             /\ Mending => /\ hand'.armed = hand.armed /\ hand'.waiting = hand.waiting
                           /\ hand'.at = hand.at /\ hand'.made = hand.made
  BY <1>1, <1>3, <1>4 DEF Armed, Mending
<1>5. CASE Taken # {} /\ hand' = Armed(Newest(Taken), TRUE) /\ UNCHANGED records
  <2>1. her.pc \notin {"drop", "save"}
    BY <1>2, <1>5 DEF Arm, Clean, Taken, Armed
  <2>2. Hers = {} /\ Taken = Loose
    BY <2>1 DEF Hers, Taken, Loose
  <2>3. Taken \subseteq 1..Len(records)
    BY <1>0 DEF Taken, Waiting, Numbers
  <2>4. PICK n : n = Newest(Taken)
    OBVIOUS
  <2>5. n \in Taken
    <3> HIDE DEF Taken
    <3> QED BY <1>0, <1>5, <2>3, <2>4, NewestOf DEF Numbers
  <2>6. Loose = {n} /\ Fit(n) /\ Live(n) /\ n \in Records
    BY <1>0, <2>2, <2>3, <2>5, Newer DEF Sound, LooseFits, Numbers
  <2>7. Hers' = Hers /\ Loose' = Loose /\ Waiting(None)' = Waiting(None) /\ Records' = Records
    BY <1>1, <1>5 DEF Hers, Loose, Waiting, Live, Records, Fired
  <2>8. /\ hand'.pc = "hang" /\ hand'.start = hand.start /\ hand'.id = n /\ hand'.back = hand.back
        /\ Mending' <=> Mending
        /\ Mending => /\ hand'.armed = hand.armed /\ hand'.waiting = hand.waiting
                      /\ hand'.at = hand.at /\ hand'.made = hand.made
    BY <1>4, <1>5, <2>4, <2>6, <2>7
  <2>9. HandKnows'
    BY <2>8 DEF HandKnows, Firing
  <2>10. Arming'
    <3>1. Fit(n)'
      BY <1>1, <1>5, <2>6 DEF Fit, Live, Records, Since
    <3>2. Alive(n)' /\ ~Live(plan.id)'
      BY <1>1, <1>2, <1>5, <2>6 DEF Alive, Live, Records
    <3> QED BY <1>1, <1>2, <2>6, <2>7, <2>8, <3>1, <3>2 DEF Arming
  <2>11. Mends'
    <3> SUFFICES ASSUME Mending PROVE Mends'
      BY <2>8 DEF Mends
    <3>1. \A i \in 1..hand.made : (Live(i)' => Live(i)) /\ (i \in Fired => i \in Fired')
      BY <1>1, <1>5 DEF Live, Records, Fired
    <3>2. \A i \in 1..hand.made : i \notin hand.waiting => ~Live(i) \/ i \in Fired
      BY DEF Sound, Mends
    <3> QED BY <1>1, <1>2, <1>3, <2>8, <3>1, <3>2 DEF Mends
  <2>12. Wakes'
    BY <1>1, <1>2, <2>8 DEF Wakes, ToArm
  <2> QED BY <1>1, <1>5, <2>8, <2>9, <2>10, <2>11, <2>12, HandTurns
<1>6. ASSUME NEW kind \in {"shot", Kind(plan.rule)}, Taken = {}, Make(kind, plan.version), hand' = Armed(NextId, FALSE)
      PROVE  Sound'
  <2>0. PICK n : n = NextId
    OBVIOUS
  <2>1. kind = "shot" /\ Kind(plan.rule) = "shot" /\ plan.version \in Nat
    BY <1>0, <1>2 DEF Kind, Numbers
  <2>2. /\ Len(records') = Len(records) + 1 /\ Records' = Records \cup {n} /\ n = Len(records) + 1
        /\ n \notin Records /\ \A k \in Records : records'[k] = records[k]
        /\ records'[n] = Record(kind, plan.version)
    <3>1. records \in Seq(RecordType) /\ fired \in Seq(Nat)
      BY DEF TInv, RecordsOK, IInv, Logged
    <3>2. /\ Len(records') = Len(records) + 1 /\ Records' = Records \cup {n}
          /\ \A k \in Records : records'[k] = records[k]
          /\ records'[n] = Record(kind, plan.version)
      BY <1>6, <2>0, <2>1, <3>1, Making
    <3> QED BY <1>0, <2>0, <3>2 DEF NextId, Numbers
  <2>3. /\ records'[n].kind = "shot" /\ records'[n].version = plan.version
        /\ records'[n].live /\ records'[n].since = Len(fired)
    BY <2>1, <2>2 DEF Record
  <2>4. /\ hand'.pc = "hang" /\ hand'.start = hand.start /\ hand'.id = n /\ hand'.back = hand.back
        /\ Mending' <=> Mending
        /\ Mending => /\ hand'.armed = hand.armed /\ hand'.waiting = hand.waiting
                      /\ hand'.at = hand.at /\ hand'.made = hand.made
    BY <1>4, <1>6, <2>0, <2>2
  <2>5. \A k \in Records : /\ Live(k)' <=> Live(k)
                           /\ Since(k)' = Since(k)
    BY <2>2 DEF Live, Since
  <2>6. Fit(n)' /\ Alive(n)' /\ n > plan.id
    <3>1. n > plan.id /\ Live(n)' /\ ~Live(plan.id)'
      BY <1>0, <1>1, <1>2, <2>2, <2>3, <2>5 DEF Numbers, Live
    <3>2. \A s \in DOMAIN fired : s <= Since(n)'
      BY <1>0, <2>3 DEF Since, Numbers
    <3> QED BY <1>0, <1>1, <2>1, <2>3, <3>1, <3>2 DEF Fit, Alive, Numbers
  <2>7. Hers' = Hers /\ Loose = {} /\ Loose' \subseteq {n}
    <3>1. Hers' = Hers /\ Loose = {}
      BY <1>1, <1>6 DEF Hers, Loose, Taken
    <3>2. Loose' \subseteq Taken \cup {n}
      BY <1>1, <2>2, <2>5 DEF Loose, Taken, Waiting, Fired
    <3> QED BY <1>6, <3>1, <3>2
  <2>8. Named' /\ Unnamed' /\ HerBehind' /\ HandKnows'
    BY <1>1, <1>2, <2>4 DEF Sound, Named, Unnamed, HerBehind, HandKnows, Firing
  <2>9. Fits' /\ Latest'
    BY <1>1, <1>2, <2>2, <2>5 DEF Sound, Fits, Latest
  <2>10. Wakes'
    BY <1>1, <1>2, <2>4 DEF Wakes, ToArm
  <2>11. HerRecord'
    <3>1. her.pc \in {"drop", "save"} => her.id \in Records /\ her.row.id <= Len(records)
      BY DEF TInv, HerOK, Reading
    <3>2. her.pc \in {"drop", "save"} => her.row.id # n /\ her.row.id \in Nat
      BY <1>0, <2>2, <3>1 DEF TInv, HerOK, Rows, Numbers
    <3>3. her.pc \in {"drop", "save"} /\ her.row.id # None => her.row.id \in Records
      BY <1>0, <3>1, <3>2 DEF Numbers, None
    <3>4. Fired' = Fired
      BY <1>1 DEF Fired
    <3>5. hand.pc \notin {"reread", "save"}
      BY <1>1
    <3> QED BY <1>1, <2>2, <2>5, <3>1, <3>3, <3>4, <3>5 DEF Sound, HerRecord
  <2>12. Arming' /\ LooseFits'
    <3>1. ~Live(plan.id)'
      BY <1>1, <1>2, <2>5 DEF Live
    <3> QED BY <1>1, <1>2, <2>4, <2>6, <2>7, <3>1 DEF Arming, LooseFits
  <2>13. Mends'
    <3> SUFFICES ASSUME Mending PROVE Mends'
      BY <2>4 DEF Mends
    <3>1. \A i \in 1..hand.made : i \in Records
      BY <1>0, <1>3 DEF Numbers
    <3>2. \A i \in 1..hand.made : i \notin hand.waiting => ~Live(i)' \/ i \in Fired'
      BY <1>1, <2>5, <3>1 DEF Sound, Mends, Fired
    <3> QED BY <1>1, <1>2, <1>3, <2>4, <3>2 DEF Mends
  <2> QED BY <2>8, <2>9, <2>10, <2>11, <2>12, <2>13 DEF Sound
<1> QED BY <1>2, <1>5, <1>6 DEF Arm

(* The plan is hung on what the arming took or made. *)
LEMMA SoundHang == ASSUME TInv, IInv, Clean, Sound, Hang PROVE Sound'
<1>0. Numbers
  BY Basics
<1>n. PICK n : n = hand.id
  OBVIOUS
<1>1. UNCHANGED <<records, fired, up, her, acted>> /\ up /\ hand.pc = "hang" /\ hand' = Return
      /\ Saved([plan EXCEPT !.id = n, !.status = "ACTIVE"])
  BY <1>n DEF Hang, Hanged, HandAt, Clean, seen
<1>2. /\ plan.rule = "clock" /\ plan.id # None /\ plan.id \in Records /\ ~Live(plan.id)
      /\ n \in Records /\ n > plan.id /\ n # None /\ n \in Nat /\ Fit(n) /\ Alive(n) /\ Loose \subseteq {n}
  <2>1. /\ plan.rule = "clock" /\ plan.id # None /\ ~Live(plan.id) /\ n > plan.id /\ n \in Records
        /\ Fit(n) /\ Alive(n) /\ Loose \subseteq {n}
    BY <1>1, <1>n, Newer DEF Sound, Arming
  <2> QED BY <1>0, <2>1 DEF Numbers, None
<1>3. /\ hand.back \in {"read", "mend"} /\ {"pc", "start", "back"} \subseteq DOMAIN hand
      /\ Mending => /\ hand.back = "mend" /\ hand.start /\ {"waiting", "made", "at", "armed"} \subseteq DOMAIN hand
                    /\ hand.armed /\ hand.waiting = {} /\ hand.at >= 2
  BY <1>1 DEF IInv, HandGoes, TInv, HandOK, Sound, Mends, Mending
<1>4. /\ hand'.pc = hand.back /\ hand'.start = hand.start /\ hand'.back = hand.back
      /\ Mending' <=> Mending
      /\ Mending => /\ hand'.armed = hand.armed /\ hand'.waiting = hand.waiting
                    /\ hand'.at = hand.at /\ hand'.made = hand.made
  BY <1>1, <1>3 DEF Return, Mending
<1>5. /\ plan'.last = plan.last /\ plan'.id = n /\ plan'.status = "ACTIVE" /\ plan'.rule = plan.rule
      /\ plan'.version = plan.version /\ plan'.revision = plan.revision + 1
  <2> DEFINE row == [plan EXCEPT !.id = n, !.status = "ACTIVE"]
  <2>1. row \in Rows /\ row.last = plan.last /\ row.id = n /\ row.status = "ACTIVE" /\ row.rule = plan.rule
        /\ row.version = plan.version /\ row.revision = plan.revision
    BY <1>0, <1>2 DEF Numbers, Rows
  <2>2. Saved(row)
    BY <1>1
  <2> HIDE DEF row
  <2> QED BY <2>1, <2>2, SavedOK
<1>6. Hers' = Hers /\ Loose' = {}
  <2>1. Hers' = Hers
    BY <1>1 DEF Hers
  <2>2. ASSUME NEW k \in Loose' PROVE FALSE
    <3>1. k \in Records /\ Live(k) /\ k \notin Fired /\ k # n /\ k \notin Hers
      BY <1>1, <1>5, <2>1, <2>2 DEF Loose, Waiting, Live, Records, Fired
    <3>2. k # plan.id
      BY <1>2, <3>1
    <3>3. k \in Loose
      BY <3>1, <3>2 DEF Loose, Waiting
    <3> QED BY <1>2, <3>1, <3>3
  <2> QED BY <2>1, <2>2
<1>7. Named' /\ Unnamed' /\ HandKnows' /\ HerBehind'
  <2>1. her.pc \in Reading \cup {"delete"} => her.row.id <= n
    <3>1. her.pc \in Reading \cup {"delete"} => her.row.id <= plan.id /\ her.row.id \in Nat
      BY DEF Sound, HerBehind, TInv, HerOK, Reading, Rows
    <3> QED BY <1>0, <1>2, <3>1 DEF Numbers
  <2> QED BY <1>1, <1>2, <1>3, <1>4, <1>5, <2>1 DEF Sound, Named, Unnamed, HandKnows, HerBehind, Firing
<1>8. Fits'
  BY <1>1, <1>2, <1>5 DEF Fits, Fit
<1>9. Latest'
  <2>1. ASSUME NEW s \in acted PROVE fired[s] <= n /\ s <= Since(n)
    <3>1. fired[s] <= plan.id /\ fired[s] \in Nat
      BY <1>0 DEF Sound, Latest, Numbers
    <3> QED BY <1>0, <1>2, <3>1 DEF Fit, Numbers
  <2> QED BY <1>1, <1>5, <2>1 DEF Latest, Since
<1>10. Wakes'
  BY <1>1, <1>2, <1>5 DEF Wakes, Alive, Live, Due, Records
<1>11. HerRecord'
  BY <1>0, <1>1, <1>5, HerRowBehind
<1>12. Arming' /\ LooseFits'
  BY <1>3, <1>4, <1>6 DEF Arming, LooseFits
<1>13. Mends'
  <2> SUFFICES ASSUME Mending PROVE Mends'
    BY <1>4 DEF Mends
  <2>1. \A i \in 1..hand.made : i \notin hand.waiting => ~Live(i)' \/ i \in Fired'
    BY <1>1 DEF Sound, Mends, Fired, Live, Records
  <2> QED BY <1>2, <1>3, <1>4, <1>5, <1>6, <2>1 DEF Mends
<1> QED BY <1>7, <1>8, <1>9, <1>10, <1>11, <1>12, <1>13 DEF Sound

(* A start that has gone through the log looks at the records. *)
LEMMA SoundReadAgain == ASSUME TInv, IInv, Clean, Sound, ReadAgain PROVE Sound'
<1>0. Numbers
  BY Basics
<1>1. /\ UNCHANGED <<records, fired, plan, up, her, acted>> /\ up /\ hand.pc = "read" /\ hand.start
      /\ hand' = [pc |-> "mend", start |-> TRUE, back |-> "mend", id |-> None, taken |-> FALSE, armed |-> FALSE,
                  at |-> 1, made |-> Len(records), waiting |-> Waiting(None)]
  BY DEF ReadAgain, HandAt, native, seen
<1>2. her.pc = "idle" /\ Hers = {} /\ Goes
  BY <1>1 DEF TInv, HerOK, Hers, Goes, Mending
<1>3. /\ hand'.pc = "mend" /\ hand'.start /\ hand'.waiting = Waiting(None) /\ hand'.made = Len(records) /\ hand'.at = 1
      /\ ~hand'.armed
  BY <1>1
<1>4. Waiting(None)' = Waiting(None) /\ Waiting(None) \subseteq Records
  BY <1>1 DEF Waiting, Live, Records, Fired
<1>5. \A i \in Waiting(None) : i = plan.id \/ i \in Loose
  BY <1>2 DEF Waiting, Loose
<1>6. \A i, j \in Waiting(None) : i = j
  <2>1. \A i \in Waiting(None) : Live(i)
    BY DEF Waiting
  <2>2. \A i, j \in Loose : i = j
    BY DEF Sound, LooseFits
  <2>3. ASSUME NEW i \in Waiting(None), NEW j \in Waiting(None), i = plan.id, j \in Loose PROVE FALSE
    <3>1. plan.id # None
      BY <1>0, <1>4, <2>3 DEF Numbers, None
    <3> QED BY <2>1, <2>3, <3>1, Newer
  <2> QED BY <1>5, <2>2, <2>3
<1>7. \A i \in Waiting(None) : Alive(i)' /\ (i = plan.id \/ Fit(i)')
  <2>1. \A i \in Waiting(None) : Alive(i)'
    BY <1>1 DEF Waiting, Alive, Live, Records
  <2>2. \A i \in Loose : Fit(i)'
    <3>1. \A i \in Loose : Fit(i) => Fit(i)'
      BY <1>1 DEF Fit, Live, Records, Since
    <3> QED BY <3>1 DEF Sound, LooseFits
  <2> QED BY <1>5, <2>1, <2>2
<1>8. \A i \in Records : i \notin Waiting(None) => ~Live(i)' \/ i \in Fired'
  BY <1>0, <1>1 DEF Waiting, Live, Records, Fired, Numbers, None
<1>9. Mends'
  BY <1>0, <1>1, <1>3, <1>4, <1>6, <1>7, <1>8 DEF Mends, Numbers
<1>10. Wakes'
  <2>1. ToArm => ToArm'
    BY <1>1, <1>3 DEF ToArm
  <2>2. Alive(plan.id) => Alive(plan.id)'
    BY <1>1 DEF Alive, Live, Due, Records
  <2> QED BY <1>1, <2>1, <2>2 DEF Sound, Wakes, Deleting
<1>11. HandKnows' /\ Arming'
  BY <1>3 DEF HandKnows, Arming, Firing
<1> QED BY <1>1, <1>3, <1>9, <1>10, <1>11, HandTurns

(* The plan is hung on a record by a start. *)
LEMMA MendHangs ==
    ASSUME TInv, IInv, Clean, Sound, UNCHANGED <<records, fired, up, her, acted>>, up, hand.pc = "mend",
           hand' = After, her.pc = "idle", Hers = {}, NEW n \in Records,
           plan'.id = n, plan'.status = "ACTIVE", plan'.rule = plan.rule, plan'.version = plan.version,
           plan'.last = plan.last, Alive(n), records[n].kind = Kind(plan.rule), records[n].version = plan.version,
           \A s \in acted : fired[s] < n /\ s <= Since(n),
           ~hand.armed, Waiting(None) \subseteq {n}, hand.waiting \subseteq {n}
    PROVE  Sound'
<1>0. Numbers
  BY Basics
<1>1. n # None /\ n \in Nat /\ n <= Len(records)
  BY <1>0 DEF Numbers, None
<1>2. /\ {"waiting", "made", "at", "armed", "pc", "start", "back"} \subseteq DOMAIN hand /\ hand.start /\ hand.back = "mend"
      /\ hand.at \in Nat \ {0} /\ hand.made = Len(records) /\ Mending
  BY DEF TInv, HandOK, IInv, HandGoes, Mending, Sound, Mends
<1>3. /\ hand'.pc = "mend" /\ hand'.start /\ hand'.waiting = hand.waiting /\ hand'.made = hand.made /\ hand'.at = hand.at + 1
      /\ ~hand'.armed /\ Mending'
  BY <1>2 DEF After, Mending
<1>4. Loose' = {} /\ Waiting(None)' = Waiting(None) /\ Alive(n)'
  <2>1. Waiting(None)' = Waiting(None) /\ Alive(n)'
    BY DEF Waiting, Alive, Live, Due, Records, Fired
  <2>2. Loose' \subseteq Waiting(None)' \ {n}
    BY <1>0 DEF Loose, Waiting, Numbers, None, Records
  <2> QED BY <2>1, <2>2
<1>5. Named' /\ Unnamed' /\ Fits' /\ HerRecord' /\ HerBehind' /\ HandKnows'
  BY <1>1, <1>3 DEF Named, Unnamed, Fits, HerRecord, HerBehind, HandKnows, Reading, Firing
<1>6. Latest' /\ Wakes'
  <2>1. \A s \in acted : fired[s] <= n /\ s <= Since(n)
    BY <1>0, <1>1 DEF Numbers
  <2> QED BY <1>4, <2>1 DEF Latest, Wakes, Since
<1>7. Arming' /\ LooseFits'
  BY <1>3, <1>4 DEF Arming, LooseFits
<1>8. Mends'
  <2>1. \A i \in 1..hand.made : i \notin hand.waiting => ~Live(i)' \/ i \in Fired'
    BY <1>2 DEF Sound, Mends, Fired, Live, Records
  <2>2. Waiting(None) \subseteq hand.waiting
    BY <1>2 DEF Sound, Mends
  <2>3. \A i \in hand.waiting : i = n
    OBVIOUS
  <2> QED BY <1>1, <1>2, <1>3, <1>4, <2>1, <2>2, <2>3 DEF Mends
<1> QED BY <1>5, <1>6, <1>7, <1>8 DEF Sound

(* A start names the plan's record, hangs it on the loose one, arms it or     *)
(* leaves it as it is.                                                        *)
LEMMA SoundMend == ASSUME TInv, IInv, Clean, Sound, Mend, Clean' PROVE Sound'
<1>0. Numbers
  BY Basics
<1>1. /\ UNCHANGED <<records, fired, up, her, acted>> /\ up /\ hand.pc = "mend" /\ hand.at <= hand.made
  BY DEF Mend, HandAt, native, seen
<1>2. /\ {"waiting", "made", "at", "armed", "pc", "start", "back", "id", "taken"} \subseteq DOMAIN hand
      /\ hand.start /\ hand.back = "mend" /\ hand.at \in Nat \ {0} /\ hand.made \in Nat /\ hand.made <= Len(records)
      /\ hand.waiting \subseteq 1..hand.made /\ Mending /\ her.pc = "idle" /\ Hers = {} /\ ~Goes
  BY <1>1 DEF TInv, HandOK, HerOK, IInv, HandGoes, Mending, Goes, Hers
<1>3. /\ \A i, j \in hand.waiting : i = j
      /\ \A i \in hand.waiting : Alive(i) /\ (i = plan.id \/ Fit(i))
      /\ \A i \in 1..hand.made : i \notin hand.waiting => ~Live(i) \/ i \in Fired
      /\ ~hand.armed => Waiting(None) \subseteq hand.waiting /\ plan.id <= hand.made /\ hand.made = Len(records)
      /\ hand.armed => hand.waiting = {} /\ hand.at >= 2
      /\ hand.at >= 2 => plan.id # None /\ Loose = {}
  BY <1>1, <1>2 DEF Sound, Mends
<1>4. plan.status \notin Ended /\ (plan.status = "ACTIVE" <=> plan.id # None)
  BY DEF Clean, Sound, Named
<1>5. /\ After.pc = "mend" /\ After.start /\ After.waiting = hand.waiting /\ After.made = hand.made
      /\ After.at = hand.at + 1 /\ After.armed = hand.armed
  BY <1>1, <1>2 DEF After
<1>6. CASE plan.id = None
  <2>1. hand' = After /\ Saved([plan EXCEPT !.id = hand.at, !.status = IF @ \in Ended THEN @ ELSE "ACTIVE"])
    BY <1>1, <1>4, <1>6 DEF Mend, Ended
  <2>2. /\ ~hand.armed /\ hand.made = 1 /\ hand.at = 1 /\ Records = {1} /\ acted = {} /\ plan.last = 0
        /\ Alive(1) /\ records[1].kind = Kind(plan.rule) /\ records[1].version = plan.version
    <3>1. ~hand.armed /\ hand.at < 2 /\ hand.made = Len(records) /\ Len(records) <= 1
      BY <1>2, <1>3, <1>6 DEF Sound, Unnamed
    <3>2. hand.at = 1 /\ hand.made = 1 /\ Records = {1}
      BY <1>0, <1>1, <1>2, <3>1 DEF Numbers
    <3> QED BY <1>2, <1>6, <3>1, <3>2 DEF Sound, Unnamed
  <2>3. plan'.id = 1 /\ plan'.status = "ACTIVE" /\ plan'.rule = plan.rule /\ plan'.version = plan.version
        /\ plan'.last = plan.last
    <3> DEFINE row == [plan EXCEPT !.id = 1, !.status = "ACTIVE"]
    <3>1. Saved(row)
      BY <1>0, <1>4, <2>1, <2>2 DEF Numbers, Rows
    <3>2. row \in Rows /\ row.id = 1 /\ row.status = "ACTIVE" /\ row.rule = plan.rule /\ row.version = plan.version
          /\ row.last = plan.last
      BY <1>0 DEF Numbers, Rows
    <3> HIDE DEF row
    <3> QED BY <3>1, <3>2, SavedOK
  <2>4. Waiting(None) \subseteq {1} /\ hand.waiting \subseteq {1} /\ 1 \in Records
    BY <1>2, <2>2 DEF Waiting
  <2> QED BY <1>1, <1>2, <2>1, <2>2, <2>3, <2>4, MendHangs
<1>7. CASE plan.id # None /\ Lacks /\ Others # {}
  <2>0. PICK n : n = Newest(Others)
    OBVIOUS
  <2>1. hand' = After /\ Saved([plan EXCEPT !.id = n])
    BY <1>4, <1>7, <2>0 DEF Mend
  <2>2. n \in hand.waiting /\ n # plan.id /\ n \in Records
    <3>1. Others \subseteq 1..hand.made
      BY <1>2 DEF Others
    <3>2. n \in Others
      <4> HIDE DEF Others
      <4> QED BY <1>2, <1>7, <2>0, <3>1, NewestOf
    <3> QED BY <1>0, <1>2, <3>2 DEF Others, Numbers
  <2>3. Alive(n) /\ Fit(n) /\ hand.waiting = {n} /\ ~hand.armed /\ Waiting(None) \subseteq {n}
    BY <1>3, <2>2
  <2>4. plan'.id = n /\ plan'.status = "ACTIVE" /\ plan'.rule = plan.rule /\ plan'.version = plan.version
        /\ plan'.last = plan.last
    <3> DEFINE row == [plan EXCEPT !.id = n]
    <3>0. n \in Nat /\ plan \in Rows /\ plan.status = "ACTIVE"
      BY <1>0, <1>4, <1>7, <2>2 DEF Numbers
    <3>1. row \in Rows /\ row.id = n /\ row.status = "ACTIVE" /\ row.rule = plan.rule /\ row.version = plan.version
          /\ row.last = plan.last
      BY <3>0 DEF Rows
    <3>2. Saved(row)
      BY <2>1
    <3> HIDE DEF row
    <3> QED BY <3>1, <3>2, SavedOK
  <2>5. \A s \in acted : fired[s] < n /\ s <= Since(n)
    <3>1. ASSUME NEW s \in acted PROVE fired[s] < n
      <4>1. fired[s] <= plan.id /\ fired[s] \in Nat /\ n > plan.id /\ n \in Nat
        BY <1>0, <2>2, <2>3 DEF Sound, Latest, Fit, Numbers
      <4> QED BY <1>0, <4>1 DEF Numbers
    <3> QED BY <2>3, <3>1 DEF Fit
  <2>6. records[n].kind = Kind(plan.rule) /\ records[n].version = plan.version
    BY <2>3 DEF Fit
  <2> QED BY <1>1, <1>2, <2>1, <2>2, <2>3, <2>4, <2>5, <2>6, MendHangs
<1>8. CASE plan.id # None /\ Lacks /\ Others = {} /\ plan.rule = "clock"
  <2>1. hand' = [After EXCEPT !.pc = "arm", !.armed = TRUE] /\ UNCHANGED plan /\ ~hand.armed
    BY <1>4, <1>8 DEF Mend, Clean
  <2>2. hand.waiting = {} /\ Waiting(None) = {} /\ Loose = {}
    <3>1. hand.waiting = {} /\ Waiting(None) = {}
      BY <1>3, <1>8, <2>1 DEF Lacks, Others
    <3> QED BY <1>0, <3>1 DEF Loose, Waiting, Numbers, None
  <2>3. ~Live(plan.id) /\ plan.id \in 1..hand.made
    <3>1. plan.id \in 1..hand.made /\ plan.id \in Records
      BY <1>0, <1>2, <1>3, <1>8, <2>1 DEF Numbers, None
    <3>2. records[plan.id].kind = "shot"
      BY <1>8 DEF Sound, Fits, Kind
    <3> QED BY <1>0, <1>3, <2>2, <3>1, <3>2 DEF Numbers, Live
  <2>4. /\ hand'.pc = "arm" /\ hand'.start /\ hand'.back = "mend" /\ hand'.waiting = hand.waiting /\ hand'.made = hand.made
        /\ hand'.at = hand.at + 1 /\ hand'.armed
    BY <1>2, <2>1 DEF After
  <2>5. HandKnows' /\ Arming'
    BY <1>1, <1>8, <2>1, <2>3, <2>4 DEF HandKnows, Arming, Firing, Live, Records
  <2>6. Wakes'
    BY <1>8, <2>1, <2>4 DEF Wakes, ToArm
  <2>7. Mends'
    <3>1. \A i \in 1..hand.made : i \notin hand.waiting => ~Live(i)' \/ i \in Fired'
      BY <1>1, <1>3 DEF Fired, Live, Records
    <3> QED BY <1>2, <1>8, <2>1, <2>2, <2>4, <3>1 DEF Mends
  <2> QED BY <1>1, <2>1, <2>4, <2>5, <2>6, <2>7, HandTurns
<1>9. CASE plan.id # None /\ (~Lacks \/ (Others = {} /\ plan.rule # "clock"))
  <2>1. hand' = After /\ UNCHANGED plan
    BY <1>4, <1>9 DEF Mend
  <2>2. Loose = {}
    <3>1. CASE hand.armed
      BY <1>3, <3>1
    <3>2. CASE ~hand.armed
      <4>1. hand.waiting \subseteq {plan.id}
        BY <1>3, <1>4, <1>9 DEF Lacks, Others
      <4>2. Loose \subseteq Waiting(None) \ {plan.id}
        BY <1>0 DEF Loose, Waiting, Numbers, None
      <4> QED BY <1>3, <3>2, <4>1, <4>2
    <3> QED BY <3>1, <3>2
  <2>3. hand'.pc = "mend" /\ hand'.start /\ hand'.waiting = hand.waiting /\ hand'.made = hand.made
        /\ hand'.at = hand.at + 1 /\ hand'.armed = hand.armed
    BY <1>5, <2>1
  <2>4. Alive(plan.id)
    <3>1. CASE plan.id \in hand.waiting
      BY <1>3, <3>1
    <3>2. CASE plan.id \notin hand.waiting
      <4>1. ~ToArm /\ ~Deleting
        BY <1>1, <1>2, <1>4, <1>9, <3>2 DEF ToArm, Lacks, Deleting
      <4> QED BY <1>9, <4>1 DEF Sound, Wakes
    <3> QED BY <3>1, <3>2
  <2>5. Wakes' /\ HandKnows' /\ Arming'
    BY <1>1, <2>1, <2>3, <2>4 DEF Wakes, Alive, Live, Due, Records, HandKnows, Arming, Firing
  <2>6. Mends'
    <3>1. \A i \in 1..hand.made : i \notin hand.waiting => ~Live(i)' \/ i \in Fired'
      BY <1>1, <1>3 DEF Fired, Live, Records
    <3>2. \A i \in hand.waiting : Alive(i)' /\ (i = plan.id \/ Fit(i)')
      BY <1>1, <1>3, <2>1 DEF Alive, Live, Due, Records, Fit, Since
    <3>3. Loose' = {} /\ Waiting(None)' = Waiting(None)
      BY <1>1, <2>1, <2>2 DEF Loose, Waiting, Live, Records, Fired, Hers
    <3>4. hand.armed => hand.at + 1 >= 2
      BY <1>2, <1>3
    <3> QED BY <1>1, <1>3, <1>9, <2>1, <2>3, <3>1, <3>2, <3>3, <3>4 DEF Mends
  <2> QED BY <1>1, <2>1, <2>3, <2>5, <2>6, HandTurns
<1> QED BY <1>6, <1>7, <1>8, <1>9

(* A start that has looked at the records leaves none loose. *)
LEMMA SoundStarted == ASSUME TInv, IInv, Clean, Sound, Started PROVE Sound'
<1>0. Numbers
  BY Basics
<1>1. /\ UNCHANGED <<records, fired, plan, up, her, acted>> /\ up /\ hand.pc = "mend" /\ hand.at > hand.made
      /\ hand'.pc = "idle" /\ ~hand'.start /\ Mending
  BY DEF Started, HandAt, Waits, Mending, native, seen
<1>2. hand.at \in Nat \ {0} /\ hand.made \in Nat
  BY <1>1 DEF TInv, HandOK
<1>3. Loose = {} /\ (plan.id = None => Len(records) = 0) /\ (plan.id # None => ~ToArm)
  <2>1. CASE hand.at = 1
    <3>1. hand.made = 0 /\ Len(records) = 0 /\ plan.id = None
      BY <1>0, <1>1, <1>2, <2>1 DEF Sound, Mends, Numbers, None
    <3> QED BY <1>0, <3>1 DEF Loose, Waiting, Numbers
  <2>2. CASE hand.at # 1
    <3>1. plan.id # None /\ Loose = {}
      BY <1>1, <1>2, <2>2 DEF Sound, Mends
    <3>2. ~ToArm
      BY <1>1, <2>2 DEF ToArm, Goes
    <3> QED BY <3>1, <3>2
  <2> QED BY <2>1, <2>2
<1>4. Wakes'
  <2>1. Alive(plan.id) => Alive(plan.id)'
    BY <1>1 DEF Alive, Live, Due, Records
  <2> QED BY <1>1, <1>3, <2>1 DEF Sound, Wakes, Deleting
<1> QED BY <1>1, <1>3, <1>4, HandTurns DEF HandKnows, Arming, Mends, Mending, Firing

(* The thread that hands over. *)
LEMMA SoundHand == ASSUME TInv, IInv, Clean, Sound, HandNext, Clean' PROVE Sound'
<1>1. ~RemoveFired /\ ~HandFails
  BY DEF RemoveFired, HandFails, HandAt, Sound, HandKnows, Clean
<1> QED BY <1>1, SoundDelivers, SoundRead, SoundAct, SoundSaveFiring, SoundArm, SoundHang, SoundReadAgain,
           SoundMend, SoundStarted DEF HandNext

-----------------------------------------------------------------------------
(* A record fires, the Host crashes or starts. *)
LEMMA SoundFire == ASSUME TInv, IInv, Clean, Sound, NEW i \in Records, Fire(i) PROVE Sound'
<1>0. Numbers
  BY Basics
<1>1. /\ Records' = Records /\ Len(records') = Len(records)
      /\ Len(fired') = Len(fired) + 1 /\ DOMAIN fired' = DOMAIN fired \cup {Len(fired) + 1}
      /\ fired'[Len(fired) + 1] = i /\ \A s \in DOMAIN fired : fired'[s] = fired[s] /\ s <= Len(fired)
      /\ Fired' = Fired \cup {i}
      /\ \A k \in Records : Kept(k) /\ records'[k].live = IF k = i THEN records[i].kind = "repeat" ELSE records[k].live
      /\ records[i].live
  BY FiredOne DEF TInv, SameIds
<1>2. UNCHANGED <<plan, up, her, hand, acted>>
  BY DEF Fire, seen
<1>3. \A k \in Records : /\ records'[k].kind = records[k].kind /\ records'[k].version = records[k].version
                         /\ Since(k)' = Since(k)
                         /\ Live(k)' => Live(k)
                         /\ Due(k) => Due(k)'
  <2>1. \A k \in Records : records'[k].kind = records[k].kind /\ records'[k].version = records[k].version
                           /\ Since(k)' = Since(k) /\ (Live(k)' => Live(k))
    BY <1>1 DEF Kept, Since, Live
  <2>2. ASSUME NEW k \in Records, Due(k) PROVE Due(k)'
    BY <1>1, <1>2, <2>2 DEF Due
  <2> QED BY <2>1, <2>2
<1>4. Due(i)' /\ i \in Fired' /\ Live(i)
  <2>1. PICK s : s = Len(fired) + 1
    OBVIOUS
  <2>2. s \in DOMAIN fired' /\ s > plan.last /\ fired'[s] = i
    BY <1>0, <1>1, <2>1 DEF Numbers
  <2>3. Due(i)'
    BY <1>2, <2>2 DEF Due
  <2> QED BY <1>1, <2>3 DEF Live
<1>5. \A k \in Records : Alive(k) => Alive(k)'
  <2>1. ASSUME NEW k \in Records, k # i, Alive(k) PROVE Alive(k)'
    BY <1>1, <1>3, <2>1 DEF Alive, Live
  <2>2. Alive(i)'
    <3>1. CASE records[i].kind = "shot"
      BY <1>3, <1>4, <3>1 DEF Alive
    <3>2. CASE records[i].kind = "repeat"
      BY <1>1, <3>2 DEF Alive, Live
    <3> QED BY <1>0, <3>1, <3>2 DEF Numbers
  <2> QED BY <2>1, <2>2
<1>6. \A k \in Records : Fit(k) => Fit(k)'
  <2> SUFFICES ASSUME NEW k \in Records, Fit(k) PROVE Fit(k)'
    OBVIOUS
  <2>1. plan.id # None => plan.id \in Records /\ ~Live(plan.id) /\ plan.id # i
    BY <1>0, <1>4 DEF Fit, Numbers, None
  <2>2. plan.id # None => ~Live(plan.id)' /\ \A s \in DOMAIN fired' : fired'[s] = plan.id => s <= Since(k)
    BY <1>1, <1>2, <1>3, <2>1 DEF Fit, Live
  <2> QED BY <1>2, <1>3, <2>2 DEF Fit
<1>7. Hers' = Hers /\ Loose' \subseteq Loose /\ Waiting(None)' \subseteq Waiting(None)
  <2>1. Hers' = Hers
    BY <1>2 DEF Hers
  <2> QED BY <1>1, <1>2, <1>3, <2>1 DEF Loose, Waiting
<1>8. plan.id # None => plan.id \in Records
  BY <1>0 DEF Numbers, None
<1>9. Named' /\ Unnamed' /\ HerBehind'
  <2>1. Named' /\ HerBehind'
    BY <1>2 DEF Sound, Named, HerBehind
  <2>2. Unnamed'
    BY <1>1, <1>2, <1>3, <1>5, <1>7 DEF Sound, Unnamed
  <2> QED BY <2>1, <2>2
<1>10. Fits' /\ Latest'
  <2>1. Fits'
    BY <1>2, <1>3, <1>8 DEF Sound, Fits
  <2>2. \A s \in acted : s \in DOMAIN fired /\ fired'[s] = fired[s] /\ plan.id # None
    BY <1>0, <1>1 DEF Numbers, Sound, Unnamed
  <2>3. Latest'
    BY <1>2, <1>3, <1>8, <2>2 DEF Sound, Latest
  <2> QED BY <2>1, <2>3
<1>11. Wakes'
  BY <1>2, <1>5, <1>8 DEF Sound, Wakes, Deleting, ToArm, Goes, Mending
<1>12. HerRecord'
  <2>1. her.pc \in {"drop", "save"} => her.id \in Records /\ her.row.id <= Len(records) /\ her.row.id \in Nat
    BY DEF TInv, HerOK, Reading, Rows
  <2>2. her.pc \in {"drop", "save"} /\ her.row.id # None => her.row.id \in Records
    BY <1>0, <2>1 DEF Numbers, None
  <2>3. Live(her.id) /\ her.id \in Records => Live(her.id)' \/ (records[her.id].kind = "shot" /\ her.id \in Fired')
    BY <1>0, <1>1, <1>2 DEF Live, Numbers
  <2> QED BY <1>1, <1>2, <1>3, <2>1, <2>2, <2>3 DEF Sound, HerRecord
<1>13. HandKnows'
  <2>1. hand.pc \in Firing => hand.seq \in DOMAIN fired
    BY <1>0 DEF TInv, HandOK, IInv, HandGoes, Goes, Mending, Firing, Numbers
  <2> QED BY <1>1, <1>2, <2>1 DEF Sound, HandKnows
<1>14. Arming'
  <2>1. hand.pc = "hang" => hand.id \in Records
    BY Newer
  <2>2. hand.pc = "hang" => Fit(hand.id)' /\ Alive(hand.id)'
    BY <1>2, <1>5, <1>6, <2>1 DEF Sound, Arming
  <2>3. hand.pc \in {"arm", "hang"} => ~Live(plan.id)'
    BY <1>2, <1>3, <1>8 DEF Sound, Arming
  <2> QED BY <1>2, <1>7, <2>2, <2>3 DEF Sound, Arming
<1>15. LooseFits'
  BY <1>2, <1>6, <1>7, Newer DEF Sound, LooseFits
<1>16. Mends'
  <2> SUFFICES ASSUME Mending PROVE Mends'
    BY <1>2 DEF Mends, Mending
  <2>1. \A k \in 1..hand.made : k \in Records
    BY <1>0 DEF TInv, HandOK, Numbers
  <2>2. \A k \in hand.waiting : Alive(k)' /\ (k = plan.id \/ Fit(k)')
    BY <1>5, <1>6, <2>1 DEF Sound, Mends, TInv, HandOK
  <2>3. \A k \in 1..hand.made : k \notin hand.waiting => ~Live(k)' \/ k \in Fired'
    BY <1>1, <1>3, <2>1 DEF Sound, Mends
  <2> QED BY <1>1, <1>2, <1>7, <2>2, <2>3 DEF Sound, Mends
<1> QED BY <1>9, <1>10, <1>11, <1>12, <1>13, <1>14, <1>15, <1>16 DEF Sound

(* A crash lets go of what the threads hold, a start goes through the log     *)
(* again.                                                                     *)
LEMMA SoundHost ==
    ASSUME TInv, IInv, Clean, Sound, HostCrashes \/ HostStarts \/ UNCHANGED vars, Clean'
    PROVE  Sound'
<1>1. UNCHANGED <<records, fired, plan, acted>>
  BY DEF HostCrashes, HostStarts, vars, native, seen
<1>2. /\ her.pc \notin {"drop", "save", "cancel"} \/ UNCHANGED her
      /\ her'.pc = "idle" \/ UNCHANGED her
  BY DEF HostCrashes, HostStarts, vars, Clean, Quiet
<1>3. Hers' = Hers /\ Loose' = Loose /\ Waiting(None)' = Waiting(None)
  <2>1. Hers' = Hers
    BY <1>2 DEF Hers
  <2> QED BY <1>1, <2>1 DEF Loose, Waiting, Live, Records, Fired
<1>4. /\ \A k \in Records : Alive(k)' <=> Alive(k)
      /\ \A k : Fit(k) => Fit(k)'
      /\ Live(plan.id)' <=> Live(plan.id)
      /\ Alive(plan.id)' <=> Alive(plan.id)
  BY <1>1 DEF Alive, Live, Due, Records, Fit, Since
<1>5. Named' /\ Fits' /\ Latest' /\ HerBehind'
  BY <1>1, <1>2 DEF Sound, Named, Fits, Latest, HerBehind, Since, Reading
<1>6. HerRecord'
  <2>1. CASE her'.pc = "idle"
    BY <2>1 DEF HerRecord
  <2>2. CASE her'.pc # "idle"
    <3>1. UNCHANGED <<her, hand>>
      BY <1>2, <2>2 DEF HostCrashes, HostStarts, TInv, HerOK, vars, Quiet
    <3> QED BY <1>1, <3>1 DEF Sound, HerRecord, Live, Records, Since, Fired
  <2> QED BY <2>1, <2>2
<1>7. CASE HostCrashes \/ HostStarts
  <2>1. (~up' /\ hand' = Waits /\ up) \/ (up' /\ hand' = Begins /\ ~up /\ her.pc = "idle")
    BY <1>7 DEF HostCrashes, HostStarts, TInv, HerOK
  <2>2. ~Mending' /\ hand'.pc \in {"idle", "read"} /\ (~up' \/ (hand'.start /\ Goes'))
    BY <2>1 DEF Waits, Begins, Mending, Goes
  <2>3. Unnamed'
    BY <1>1, <1>3, <1>4, <2>2 DEF Sound, Unnamed, Records
  <2>4. Wakes'
    <3>1. Deleting => Deleting'
      BY <1>1, <1>2 DEF Deleting
    <3>2. ToArm => ToArm'
      BY <1>1, <2>2 DEF ToArm
    <3> QED BY <1>1, <1>4, <3>1, <3>2 DEF Sound, Wakes
  <2>5. HandKnows' /\ Arming' /\ Mends'
    BY <2>2 DEF HandKnows, Arming, Mends, Firing
  <2>6. LooseFits'
    BY <1>3, <1>4, <2>2 DEF Sound, LooseFits
  <2> QED BY <1>5, <1>6, <2>3, <2>4, <2>5, <2>6 DEF Sound
<1>8. CASE UNCHANGED vars
  <2>1. UNCHANGED <<up, her, hand>> /\ Mending' = Mending /\ Goes' = Goes
    BY <1>8 DEF vars, Mending, Goes
  <2>2. Unnamed'
    BY <1>1, <1>3, <1>4, <2>1 DEF Sound, Unnamed, Records
  <2>3. Wakes'
    BY <1>1, <1>4, <2>1 DEF Sound, Wakes, Deleting, ToArm
  <2>4. HandKnows' /\ Arming' /\ LooseFits' /\ Mends'
    <3>1. HandKnows'
      BY <1>1, <2>1 DEF Sound, HandKnows, Firing
    <3>2. hand.pc = "hang" => Fit(hand.id)' /\ Alive(hand.id)'
      BY <1>1, <2>1 DEF Sound, Arming, Fit, Alive, Live, Due, Records, Since
    <3>3. Arming' /\ LooseFits'
      BY <1>1, <1>3, <1>4, <2>1, <3>2 DEF Sound, Arming, LooseFits
    <3>4. \A k : (Alive(k) => Alive(k)') /\ (Live(k)' => Live(k)) /\ (k \in Fired => k \in Fired')
      BY <1>1 DEF Alive, Live, Due, Records, Fired
    <3>5. Mends'
      BY <1>1, <1>3, <1>4, <2>1, <3>4 DEF Sound, Mends
    <3> QED BY <3>1, <3>3, <3>5
  <2> QED BY <1>5, <1>6, <2>2, <2>3, <2>4 DEF Sound
<1> QED BY <1>7, <1>8

-----------------------------------------------------------------------------
(* What acted stays apart: what is about to act is of the plan's record, and  *)
(* what acted before is of this record, or was before it was made.            *)
Pairs == NextApart /\ \A s, t \in acted : Apart(s, t)

(* Only what is of the plan's record is taken up, so what acts stays apart. *)
LEMMA PairsStep ==
    ASSUME TInv, IInv, apart = {}, Pairs, Clean => Sound, [Next]_vars, apart' = {}
    PROVE  Pairs'
<1>0. Numbers /\ Grown
  BY Basics, StepTyped
<1>1. \A s \in DOMAIN fired : fired'[s] = fired[s] /\ Since(fired[s])' = Since(fired[s])
  <2>1. \A s \in DOMAIN fired : fired'[s] = fired[s]
    <3>1. CASE UNCHANGED fired
      BY <3>1
    <3>2. ASSUME NEW i \in Records, Fire(i) PROVE \A s \in DOMAIN fired : fired'[s] = fired[s]
      BY <3>2, FiredOne DEF TInv
    <3> QED BY <3>1, <3>2
            DEF Next, HerNext, HandNext, Create, CreateAgain, Find, Bind, Update, Edit, MakeNew, DropOld, SaveUpdate, Cancel,
                DeleteIts, SaveCancel, HerCallFails, Deliver, Read, Act, Reread, SaveFiring, RemoveFired, Arm, Hang,
                HandFails, Answer, ReadAgain, Mend, Started, HostCrashes, HostStarts, vars, native
  <2> QED BY <1>0, <2>1 DEF Grown, Since, Numbers
<1>2. \A s, t \in DOMAIN fired : Apart(s, t) => Apart(s, t)'
  BY <1>1 DEF Apart, Since
<1>3. hand.pc = "act" => hand.seq \in DOMAIN fired
  BY <1>0 DEF TInv, HandOK, IInv, HandGoes, Goes, Mending, Firing, Numbers
<1>4. CASE Act
  <2>1. hand'.pc = "reread" /\ hand.pc = "act" /\ acted' \subseteq acted \cup {hand.seq}
    BY <1>4 DEF Act, HandAt, IInv, HandGoes
  <2>2. \A s, t \in acted' : s \in DOMAIN fired /\ t \in DOMAIN fired /\ Apart(s, t)
    <3>1. Apart(hand.seq, hand.seq)
      BY <1>0, <1>3, <2>1 DEF Apart, Numbers
    <3> QED BY <1>0, <1>3, <2>1, <3>1 DEF Pairs, NextApart, Numbers
  <2> QED BY <1>2, <2>1, <2>2 DEF Pairs, NextApart
<1>5. CASE Read /\ hand'.pc = "act"
  <2>1. UNCHANGED <<plan, acted, fired, records>> /\ plan.id # None /\ plan.id = fired[hand.seq] /\ hand'.seq = hand.seq
        /\ plan.status \notin Ended
    <3>1. ~Past(hand.seq) /\ ~Stale(hand.seq)
      BY <1>5 DEF Read, Onward
    <3>2. UNCHANGED <<plan, acted, fired, records>> /\ plan.id # None /\ hand' = [hand EXCEPT !.pc = "act"]
      BY <1>5, <3>1 DEF Read, native
    <3>3. hand'.seq = hand.seq
      BY <1>5, <3>2 DEF Read, HandAt, IInv, HandGoes, Goes, Mending
    <3> QED BY <3>1, <3>2, <3>3 DEF Past, Stale, The
  <2>2. Latest
    BY <2>1 DEF Clean, Sound
  <2>3. \A s \in acted : Apart(s, hand.seq) /\ Apart(hand.seq, s)
    <3>1. \A s \in acted : fired[s] <= plan.id /\ fired[s] \in Nat /\ plan.id \in Nat
      BY <1>0, <2>2 DEF Latest, Numbers
    <3> QED BY <1>0, <2>1, <2>2, <3>1 DEF Latest, Apart
  <2>4. \A s \in acted : Apart(s, hand.seq)' /\ Apart(hand.seq, s)'
    BY <2>1, <2>3 DEF Apart, Since
  <2>5. NextApart'
    BY <2>1, <2>4 DEF NextApart
  <2>6. \A s, t \in acted' : Apart(s, t)'
    BY <1>0, <1>2, <2>1 DEF Pairs, Numbers
  <2> QED BY <2>5, <2>6 DEF Pairs
<1>6. CASE ~Act /\ ~(Read /\ hand'.pc = "act")
  <2>1. UNCHANGED acted
    BY <1>6 DEF Next, HerNext, HandNext, Create, CreateAgain, Find, Bind, Update, Edit, MakeNew, DropOld, SaveUpdate, Cancel,
                DeleteIts, SaveCancel, HerCallFails, Deliver, Read, Act, Reread, SaveFiring, RemoveFired, Arm, Hang,
                HandFails, Answer, ReadAgain, Mend, Started, HostCrashes, HostStarts, Fire, vars, seen
  <2>2. hand'.pc = "act" => UNCHANGED hand
    <3>1. ASSUME HandNext PROVE hand'.pc # "act"
      <4>1. Arm \/ Hang => hand'.pc \in {"read", "mend", "hang"}
        BY DEF Arm, Hang, HandAt, Return, Armed, IInv, HandGoes
      <4>2. Mend \/ RemoveFired => hand'.pc \in {"mend", "arm", "read"}
        BY DEF Mend, RemoveFired, HandAt, After, IInv, HandGoes
      <4>3. SaveFiring => hand'.pc \in {"remove", "arm", "read", "idle"}
        BY DEF SaveFiring, Onward, ArmsNext, Waits
      <4> QED BY <1>6, <3>1, <4>1, <4>2, <4>3
              DEF HandNext, Deliver, Reread, HandFails, Answer, ReadAgain, Started, Waits
    <3>2. HerNext => UNCHANGED hand
      BY DEF HerNext, Create, CreateAgain, Find, Bind, Update, Edit, MakeNew, DropOld, SaveUpdate, Cancel,
             DeleteIts, SaveCancel, HerCallFails
    <3> QED BY <3>1, <3>2 DEF Next, Fire, HostCrashes, HostStarts, Waits, Begins, vars
  <2>3. \A s, t \in acted' : Apart(s, t)'
    BY <1>0, <1>2, <2>1 DEF Pairs, Numbers
  <2>4. NextApart'
    <3> SUFFICES ASSUME hand'.pc = "act" PROVE NextApart'
      BY DEF NextApart
    <3>1. UNCHANGED hand /\ hand.pc = "act"
      BY <2>2
    <3>2. \A s \in acted : Apart(s, hand.seq) /\ Apart(hand.seq, s)
      BY <3>1 DEF Pairs, NextApart
    <3>3. \A s \in acted : Apart(s, hand.seq)' /\ Apart(hand.seq, s)'
      BY <1>0, <1>1, <1>3, <3>1, <3>2 DEF Apart, Numbers, Since
    <3> QED BY <2>1, <3>3 DEF NextApart
  <2> QED BY <2>3, <2>4 DEF Pairs
<1> QED BY <1>4, <1>5, <1>6

ArmInv == (Clean => Sound) /\ (apart = {} => Pairs)

OnceAndArmed == IInv /\ TInv /\ NothingYet /\ OnceInv /\ ArmInv

(* Before the first step there is no record, no firing and no plan. *)
LEMMA InitOnceAndArmed == Init => OnceAndArmed
<1> SUFFICES ASSUME Init PROVE OnceAndArmed
  OBVIOUS
<1>1. /\ records = <<>> /\ fired = <<>> /\ plan = NoPlan /\ her = Quiet /\ hand = Waits /\ acted = {} /\ up
      /\ rules = {}
  BY DEF Init
<1>2. Records = {} /\ DOMAIN fired = {} /\ Len(records) = 0
  BY <1>1 DEF Records
<1>3. NothingYet /\ OnceInv
  BY <1>1, <1>2 DEF NothingYet, OnceInv, OnceRules, OnceHand, OnceActs, NoPlan, Quiet, Waits, Reading, Firing
<1>4. plan.status = "NONE" /\ plan.id = None /\ plan.last = 0 /\ her.pc = "idle" /\ hand.pc = "idle"
  BY <1>1 DEF NoPlan, Quiet, Waits
<1>5. Loose = {}
  BY <1>2 DEF Loose, Waiting
<1>6. Named /\ Unnamed /\ Fits /\ Latest /\ Wakes /\ HerRecord /\ HerBehind
  BY <1>1, <1>2, <1>4 DEF Named, Unnamed, Fits, Latest, Wakes, HerRecord, HerBehind, Reading
<1>7. HandKnows /\ Arming /\ LooseFits /\ Mends
  BY <1>4, <1>5 DEF HandKnows, Arming, LooseFits, Mends, Mending, Firing
<1>8. Pairs
  BY <1>1, <1>4 DEF Pairs, NextApart
<1> QED BY <1>3, <1>6, <1>7, <1>8, InitKnown, InitTyped DEF OnceAndArmed, ArmInv, Sound

(* Every step keeps the parts together. *)
LEMMA StepOnceAndArmed == OnceAndArmed /\ [Next]_vars => OnceAndArmed'
<1> SUFFICES ASSUME OnceAndArmed, [Next]_vars PROVE OnceAndArmed'
  OBVIOUS
<1> USE DEF OnceAndArmed
<1>1. IInv' /\ TInv' /\ NothingYet'
  BY StepKnown, StepTyped, NothingYetStep
<1>2. OnceInv'
  BY OnceHer, OnceHandStep, OnceHost DEF Next
<1>3. Clean' => Sound'
  <2> SUFFICES ASSUME Clean' PROVE Sound'
    OBVIOUS
  <2>1. Clean /\ Sound
    BY CleanBefore DEF ArmInv
  <2> QED BY <2>1, SoundHer, SoundHand, SoundFire, SoundHost DEF Next
<1>4. apart' = {} => Pairs'
  BY CleanBefore, PairsStep DEF ArmInv
<1> QED BY <1>1, <1>2, <1>3, <1>4 DEF ArmInv

(* So they hold in every behaviour. *)
LEMMA AlwaysOnceAndArmed == Spec => []OnceAndArmed
BY InitOnceAndArmed, StepOnceAndArmed, PTL DEF Spec

(* A plan that is due once becomes one event of hers at most, whatever she    *)
(* changed about it (OneOffActsOnceUnlessCrossed), and of two records armed   *)
(* at the same time one acts (OneVersionActs): ActsOnceUnlessCrossed holds.   *)
THEOREM ActsOnce == Spec => []ActsOnceUnlessCrossed
<1>1. ASSUME OnceAndArmed PROVE OneOffActsOnceUnlessCrossed
  <2> SUFFICES ASSUME rules = {"once"}, apart \cap {"crossed", "early"} = {} PROVE Cardinality(acted) <= 1
    BY DEF OneOffActsOnceUnlessCrossed
  <2>1. \A s, t \in acted : s = t
    BY <1>1 DEF OnceAndArmed, OnceInv, OneOff, OnceActs
  <2>2. CASE acted = {}
    BY <2>2, FS_EmptySet
  <2>3. CASE acted # {}
    <3>1. PICK s \in acted : TRUE
      BY <2>3
    <3>2. acted = {s}
      BY <2>1, <3>1
    <3>3. Cardinality(acted) = 1
      BY <3>2, FS_Singleton
    <3> QED BY <3>3
  <2> QED BY <2>2, <2>3
<1>2. ASSUME OnceAndArmed PROVE OneVersionActs
  BY <1>2 DEF OnceAndArmed, ArmInv, Pairs, Apart, Since, OneVersionActs, The
<1> QED BY <1>1, <1>2, AlwaysOnceAndArmed, PTL DEF ActsOnceUnlessCrossed

(* When nothing is under way and nothing went wrong, a plan that is ACTIVE    *)
(* names a record that will fire, of its current version, after any crash of  *)
(* a delivery: ActiveIsArmed holds.                                           *)
THEOREM ActivePlansAreArmed == Spec => []ActiveIsArmed
<1>1. ASSUME OnceAndArmed PROVE ActiveIsArmed
  <2> SUFFICES ASSUME Settled, plan.status = "ACTIVE", apart = {}
               PROVE  Live(plan.id) /\ records[plan.id].version = plan.version
    BY DEF ActiveIsArmed
  <2>0. Numbers /\ up /\ her.pc = "idle" /\ hand.pc = "idle" /\ through = Len(fired) /\ ~hand.start
    BY <1>1, Basics DEF OnceAndArmed, Settled, TInv, HandOK
  <2>1. Sound /\ plan.id # None
    BY <1>1 DEF OnceAndArmed, ArmInv, Clean, Ended, Sound, Named
  <2>2. records[plan.id].version = plan.version
    BY <2>0, <2>1 DEF Sound, Fits
  <2>3. Alive(plan.id)
    BY <2>0, <2>1 DEF Sound, Wakes, Deleting, ToArm
  <2>4. ~Due(plan.id)
    <3>1. through + 1 <= plan.last + 1
      BY <1>1 DEF OnceAndArmed, IInv, InOrder, PassedTo, Ended
    <3>2. \A s \in DOMAIN fired : s <= plan.last
      BY <2>0, <3>1 DEF Numbers
    <3> QED BY <2>0, <3>2 DEF Due, Numbers
  <2> QED BY <2>2, <2>3, <2>4 DEF Alive
<1> QED BY <1>1, AlwaysOnceAndArmed, PTL
=============================================================================

------------------------ MODULE DatabaseLease_proofs ------------------------
(***************************************************************************)
(* For any deployments, any length of a lease that is more than two         *)
(* renewals, and any bounds: a Host that was never late runs alone, and     *)
(* what a start says of the stop before it is true.                         *)
(*                                                                         *)
(* A lease loses a tick with each tick its holder's next renewal comes      *)
(* nearer (InTime): with one renewal missed it has Length - 2 * Renewal     *)
(* ticks left at the next, so nobody else may take it.                      *)
(***************************************************************************)
EXTENDS DatabaseLease, TLAPS

(* A Host whose machine is suspended while it runs is late. *)
SleepersLate == \A d \in Deployments : Up(d) /\ ~Awake(d) => d \in late

(* A Host that is not late holds the lease, and it will not expire before   *)
(* the renewal after the next.                                              *)
Kept(h) == /\ h.missed = 0 => row.left >= Length - Renewal + h.due
           /\ h.missed = 1 => row.left >= Length - 2 * Renewal + h.due
InTime == \A d \in Deployments : Up(d) /\ d \notin late => Mine(d) /\ Kept(host[d])

(* The lease is marked for its holder, or by a Host that was late. *)
MarkIsHolders == Held /\ row.mark # NoMark => row.mark.late \/ (row.mark.by = row.by /\ ~row.mark.old)

(* What a start has found is its own. *)
Seen(d) == host[d].pc \in {"take", "insert", "up"}
FoundOwn == \A d \in Deployments :
    Seen(d) /\ host[d].planned => host[d].of.late \/ (host[d].of.by = d /\ ~host[d].of.old)

(* A run that was cut has left its lease, until another deployment takes it; *)
(* and a lease that is found was left by such a run.                         *)
CutLeavesLease == \A d \in Deployments : ~Up(d) =>
    /\ ended[d] \in Cut => Mine(d)
    /\ Mine(d) => ended[d] \in Cut \cup {"lost"}
FoundCut == \A d \in Deployments : Seen(d) =>
    /\ host[d].behind => ended[d] \in Cut \cup {"lost"}
    /\ ended[d] \in Cut => host[d].behind

(* The inductive invariant. *)
Lease == SleepersLate /\ InTime
IInv  == TypeOK /\ Lease /\ MarkIsHolders /\ FoundOwn /\ CutLeavesLease /\ FoundCut

-----------------------------------------------------------------------------
(* What the types say of a Host at each of its steps. *)
LEMMA HostParts ==
    ASSUME HostTyped, NEW d \in Deployments
    PROVE  /\ host[d].pc \in {"off", "find", "take", "insert", "up"}
           /\ Seen(d) => host[d].behind \in BOOLEAN /\ host[d].planned \in BOOLEAN /\ host[d].of \in Marks
           /\ Up(d) => host[d].due \in Nat /\ host[d].missed \in {0, 1}
           /\ At(d, "off") => host[d] = Off
<1>1. host[d] \in HostStates
  BY DEF HostTyped
<1> QED BY <1>1 DEF HostStates, Seen, Up, At, Off

(* What they say of the lease. *)
LEMMA RowParts ==
    ASSUME RowTyped, LeaseAssumption
    PROVE  /\ Held => row.by \in Deployments /\ row.left \in Nat /\ row.mark \in Marks
           /\ \A d \in Deployments : Mine(d) => Held
           /\ ~Held => row = NoLease
BY DEF RowTyped, Held, Mine, NoLease, LeaseAssumption

(* One Host moves. *)
LEMMA OneMoves ==
    ASSUME HostTyped, NEW d \in Deployments, NEW h \in HostStates, host' = [host EXCEPT ![d] = h]
    PROVE  HostTyped' /\ host'[d] = h /\ \A e \in Deployments \ {d} : host'[e] = host[e]
BY DEF HostTyped

LEMMA SpendTyped == ASSUME SideTyped, NEW kind \in Disturbances, Spend(kind) PROVE left' \in [Disturbances -> Nat]
BY DEF SideTyped, Spend

(* The others are where they were. *)
LEMMA OthersStay ==
    ASSUME NEW e \in Deployments, host'[e] = host[e]
    PROVE  /\ Up(e)' <=> Up(e)
           /\ Seen(e)' <=> Seen(e)
           /\ \A pc : At(e, pc)' <=> At(e, pc)
BY DEF Up, Seen, At

(* Nothing is said of a Host before it has looked. *)
LEMMA BeginTrue == ASSUME LeaseAssumption, IInv, NEW d \in Deployments, Begin(d) PROVE IInv'
<1> DEFINE h == [pc |-> "find"]
<1>1. h \in HostStates BY DEF HostStates
<1>2. HostTyped' /\ host'[d] = h /\ \A e \in Deployments \ {d} : host'[e] = host[e]
  <2>1. HostTyped /\ host' = [host EXCEPT ![d] = h] BY DEF IInv, TypeOK, Begin
  <2> QED BY <1>1, <2>1, OneMoves
<1>3. UNCHANGED <<row, asleep, late, ended, left>> BY DEF Begin
<1>4. TypeOK'
  BY <1>2, <1>3 DEF IInv, TypeOK, RowTyped, SideTyped
<1>5. ~Up(d) /\ ~Up(d)' /\ ~Seen(d)' BY <1>2 DEF Begin, Up, At, Seen
<1>6. \A e \in Deployments \ {d} : (Up(e)' <=> Up(e)) /\ (Seen(e)' <=> Seen(e)) BY <1>2, OthersStay
<1>7. Lease'
  BY <1>2, <1>3, <1>5, <1>6 DEF IInv, Lease, SleepersLate, InTime, Awake, Mine, Kept
<1>8. MarkIsHolders' BY <1>3 DEF IInv, MarkIsHolders, Held
<1>9. FoundOwn' /\ FoundCut'
  BY <1>2, <1>3, <1>5, <1>6 DEF IInv, FoundOwn, FoundCut
<1>10. CutLeavesLease'
  BY <1>3, <1>5, <1>6 DEF IInv, CutLeavesLease, Mine
<1> QED BY <1>4, <1>7, <1>8, <1>9, <1>10 DEF IInv

(* What a start finds is the mark its own run got, and its own lease. *)
LEMMA FindTrue == ASSUME LeaseAssumption, IInv, NEW d \in Deployments, Find(d) PROVE IInv'
<1> DEFINE h == Found(d)
<1>0. HostTyped /\ RowTyped BY DEF IInv, TypeOK
<1>a. NoMark \in Marks BY DEF Marks
<1>b. Mine(d) => Held /\ row.mark \in Marks BY <1>0, RowParts
<1>1. h \in HostStates /\ h.pc = "take"
  BY <1>a, <1>b DEF HostStates, Found, Planned
<1>2. HostTyped' /\ host'[d] = h /\ \A e \in Deployments \ {d} : host'[e] = host[e]
  <2>1. host' = [host EXCEPT ![d] = h] BY DEF Find
  <2> QED BY <1>0, <1>1, <2>1, OneMoves
<1>3. UNCHANGED <<row, asleep, late, ended, left>> BY DEF Find
<1>4. TypeOK'
  BY <1>2, <1>3 DEF IInv, TypeOK, RowTyped, SideTyped
<1>5. ~Up(d) /\ ~Up(d)' BY <1>1, <1>2 DEF Find, Up, At
<1>6. \A e \in Deployments \ {d} : (Up(e)' <=> Up(e)) /\ (Seen(e)' <=> Seen(e)) BY <1>2, OthersStay
<1>7. Lease'
  BY <1>2, <1>3, <1>5, <1>6 DEF IInv, Lease, SleepersLate, InTime, Awake, Mine, Kept
<1>8. MarkIsHolders' BY <1>3 DEF IInv, MarkIsHolders, Held
<1>9. FoundOwn'
  <2>1. h.planned => Mine(d) /\ row.mark.kept \in 0..Window /\ h.of = row.mark BY DEF Found, Planned
  <2>2. h.planned => row.mark # NoMark BY <2>1 DEF NoMark, LeaseAssumption
  <2>3. h.planned => h.of.late \/ (h.of.by = d /\ ~h.of.old)
    BY <1>b, <2>1, <2>2 DEF IInv, MarkIsHolders, Mine
  <2> QED BY <1>2, <1>6, <2>3 DEF IInv, FoundOwn
<1>10. CutLeavesLease'
  BY <1>3, <1>5, <1>6 DEF IInv, CutLeavesLease, Mine
<1>11. FoundCut'
  <2>1. h.behind <=> Mine(d) BY DEF Found
  <2>2. (ended[d] \in Cut => h.behind) /\ (h.behind => ended[d] \in Cut \cup {"lost"})
    BY <1>5, <2>1 DEF IInv, CutLeavesLease
  <2> QED BY <1>2, <1>3, <1>6, <2>2 DEF IInv, FoundCut
<1> QED BY <1>4, <1>7, <1>8, <1>9, <1>10, <1>11 DEF IInv

(* A Host that takes a lease nobody holds in time. *)
LEMMA StartsTrue ==
    ASSUME LeaseAssumption, IInv, NEW d \in Deployments,
           host[d].pc \in {"take", "insert"}, Awake(d), Starts(d),
           row' \in {Taken(d), New(d)}, Held => row.left = 0 \/ Mine(d), row' = Taken(d) => Held,
           UNCHANGED <<asleep, late, left>>
    PROVE  IInv'
<1> DEFINE h == [pc |-> "up", behind |-> host[d].behind, planned |-> host[d].planned, of |-> host[d].of,
                 due |-> Renewal, missed |-> 0]
<1>0. HostTyped /\ RowTyped /\ SideTyped BY DEF IInv, TypeOK
<1>a. NoMark \in Marks BY DEF Marks
<1>b. Seen(d) /\ ~Up(d) BY DEF Seen, Up, At
<1>c. host[d].behind \in BOOLEAN /\ host[d].planned \in BOOLEAN /\ host[d].of \in Marks BY <1>0, <1>b, HostParts
<1>1. h \in HostStates
  BY <1>c DEF HostStates, LeaseAssumption
<1>2. HostTyped' /\ host'[d] = h /\ \A e \in Deployments \ {d} : host'[e] = host[e]
  <2>1. host' = [host EXCEPT ![d] = h] BY DEF Starts
  <2> QED BY <1>0, <1>1, <2>1, OneMoves
<1>3. row' = New(d)
  <2>1. CASE row' = Taken(d)
    <3>1. row \in [by : Deployments, left : Nat, mark : Marks] BY <1>0, <2>1 DEF RowTyped, Held
    <3> QED BY <2>1, <3>1 DEF Taken, New
  <2> QED BY <2>1
<1>4. Up(d)' /\ Seen(d)' /\ Awake(d)' BY <1>2 DEF Up, Seen, At, Awake
<1>5. \A e \in Deployments \ {d} : (Up(e)' <=> Up(e)) /\ (Seen(e)' <=> Seen(e)) BY <1>2, OthersStay
<1>6. \A e \in Deployments \ {d} : Up(e) => e \in late
  <2> SUFFICES ASSUME NEW e \in Deployments \ {d}, Up(e), e \notin late PROVE FALSE OBVIOUS
  <2>1. Mine(e) /\ Kept(host[e]) BY DEF IInv, Lease, InTime
  <2>2. Held /\ ~Mine(d) BY <1>0, <2>1, RowParts DEF Mine
  <2>3. row.left = 0 BY <2>2
  <2>4. host[e].due \in Nat /\ host[e].missed \in {0, 1} BY <1>0, HostParts
  <2> QED BY <2>1, <2>3, <2>4 DEF Kept, LeaseAssumption
<1>7. ended' = [e \in Deployments |-> IF e # d /\ ended[e] \in Cut THEN "lost" ELSE ended[e]] BY DEF Starts
<1>8. TypeOK'
  <2>1. RowTyped' BY <1>a, <1>3 DEF RowTyped, New, LeaseAssumption
  <2>2. SideTyped' BY <1>0, <1>7 DEF SideTyped
  <2> QED BY <1>2, <2>1, <2>2 DEF TypeOK
<1>9. Lease'
  <2>1. SleepersLate' BY <1>4, <1>5 DEF IInv, Lease, SleepersLate, Awake
  <2>2. Mine(d)' BY <1>3 DEF Mine, New
  <2>3. Kept(host[d])' BY <1>2, <1>3 DEF Kept, New, LeaseAssumption
  <2>4. InTime' BY <1>5, <1>6, <2>2, <2>3 DEF InTime
  <2> QED BY <2>1, <2>4 DEF Lease
<1>10. MarkIsHolders' BY <1>3 DEF MarkIsHolders, New
<1>11. FoundOwn' BY <1>2, <1>5, <1>b DEF IInv, FoundOwn
<1>12. CutLeavesLease'
  BY <1>3, <1>4, <1>5, <1>7 DEF IInv, CutLeavesLease, Mine, New, Cut
<1>13. FoundCut' BY <1>2, <1>5, <1>7, <1>b DEF IInv, FoundCut, Cut
<1> QED BY <1>8, <1>9, <1>10, <1>11, <1>12, <1>13 DEF IInv
(* A start that goes on, or is refused. *)
LEMMA RefusedTrue ==
    ASSUME LeaseAssumption, IInv, NEW d \in Deployments, host[d].pc \in {"take", "insert"},
           NEW h \in HostStates, host' = [host EXCEPT ![d] = h],
           h = Off \/ h = [host[d] EXCEPT !.pc = "insert"],
           UNCHANGED <<row, asleep, late, ended, left>>
    PROVE  IInv'
<1>0. HostTyped BY DEF IInv, TypeOK
<1>1. HostTyped' /\ host'[d] = h /\ \A e \in Deployments \ {d} : host'[e] = host[e]
  BY <1>0, OneMoves
<1>2. Seen(d) /\ ~Up(d) BY DEF Seen, Up, At
<1>3. host[d] \in [pc : {"take", "insert"}, behind : BOOLEAN, planned : BOOLEAN, of : Marks]
  BY <1>0 DEF HostTyped, HostStates
<1>4. ~Up(d)' BY <1>1, <1>3 DEF Up, At, Off
<1>5. Seen(d)' => /\ host'[d].behind = host[d].behind
                  /\ host'[d].planned = host[d].planned /\ host'[d].of = host[d].of
  BY <1>1, <1>3 DEF Seen, Off
<1>6. \A e \in Deployments \ {d} : (Up(e)' <=> Up(e)) /\ (Seen(e)' <=> Seen(e)) BY <1>1, OthersStay
<1>7. TypeOK' BY <1>1 DEF IInv, TypeOK, RowTyped, SideTyped
<1>8. Lease' BY <1>1, <1>4, <1>6 DEF IInv, Lease, SleepersLate, InTime, Awake, Mine, Kept
<1>9. MarkIsHolders' BY DEF IInv, MarkIsHolders, Held
<1>10. FoundOwn' /\ FoundCut' BY <1>1, <1>2, <1>5, <1>6 DEF IInv, FoundOwn, FoundCut
<1>11. CutLeavesLease' BY <1>2, <1>4, <1>6 DEF IInv, CutLeavesLease, Mine
<1> QED BY <1>7, <1>8, <1>9, <1>10, <1>11 DEF IInv

LEMMA TakeTrue == ASSUME LeaseAssumption, IInv, NEW d \in Deployments, Take(d) PROVE IInv'
<1>1. CASE FreeOrMine(d)
  BY <1>1, StartsTrue DEF Take, FreeOrMine, At
<1>2. CASE ~FreeOrMine(d)
  <2>1. HostTyped BY DEF IInv, TypeOK
  <2>2. host[d] \in [pc : {"take", "insert"}, behind : BOOLEAN, planned : BOOLEAN, of : Marks]
    BY <2>1 DEF HostTyped, HostStates, Take, At
  <2>3. [host[d] EXCEPT !.pc = "insert"] \in HostStates BY <2>2 DEF HostStates
  <2>4. host' = [host EXCEPT ![d] = [host[d] EXCEPT !.pc = "insert"]] BY <1>2 DEF Take
  <2> QED BY <1>2, <2>3, <2>4, RefusedTrue DEF Take, At
<1> QED BY <1>1, <1>2

LEMMA InsertTrue == ASSUME LeaseAssumption, IInv, NEW d \in Deployments, Insert(d) PROVE IInv'
<1>1. CASE Held
  <2>1. Off \in HostStates BY DEF Off, HostStates
  <2> QED BY <1>1, <2>1, RefusedTrue DEF Insert, At
<1>2. CASE ~Held
  <2>1. row' = New(d) /\ Starts(d) BY <1>2 DEF Insert
  <2>2. row = NoLease BY <1>2 DEF IInv, TypeOK, Held
  <2>3. row' # Taken(d) \/ Held
    BY <1>2, <2>1, <2>2 DEF Taken, New, NoLease
  <2> QED BY <1>2, <2>1, <2>3, StartsTrue DEF Insert, At
<1> QED BY <1>1, <1>2

(* A Host that goes on running. *)
LEMMA RunsOn ==
    ASSUME IInv, NEW d \in Deployments, Up(d), NEW due \in Nat, NEW missed \in {0, 1},
           host' = [host EXCEPT ![d].due = due, ![d].missed = missed], UNCHANGED ended
    PROVE  /\ HostTyped' /\ host'[d].due = due /\ host'[d].missed = missed
           /\ \A e \in Deployments \ {d} : host'[e] = host[e]
           /\ \A e \in Deployments : (Up(e)' <=> Up(e)) /\ (Seen(e)' <=> Seen(e))
           /\ FoundOwn' /\ FoundCut'
<1> DEFINE h == [host[d] EXCEPT !.due = due, !.missed = missed]
<1>0. HostTyped BY DEF IInv, TypeOK
<1>1. host[d] \in [pc : {"up"}, behind : BOOLEAN, planned : BOOLEAN, of : Marks, due : Nat, missed : {0, 1}]
  BY <1>0 DEF HostTyped, HostStates, Up, At
<1>2. h \in HostStates /\ h.due = due /\ h.missed = missed /\ h.pc = "up" /\ h.behind = host[d].behind
      /\ h.planned = host[d].planned /\ h.of = host[d].of
  BY <1>1 DEF HostStates
<1>3. host' = [host EXCEPT ![d] = h] BY <1>0 DEF HostTyped
<1>4. HostTyped' /\ host'[d] = h /\ \A e \in Deployments \ {d} : host'[e] = host[e]
  BY <1>0, <1>2, <1>3, OneMoves
<1>5. Up(d)' /\ Seen(d)' /\ Seen(d) BY <1>1, <1>2, <1>4 DEF Up, Seen, At
<1>6. \A e \in Deployments \ {d} : (Up(e)' <=> Up(e)) /\ (Seen(e)' <=> Seen(e)) BY <1>4, OthersStay
<1>7. \A e \in Deployments : host'[e].behind = host[e].behind
                              /\ host'[e].planned = host[e].planned /\ host'[e].of = host[e].of
  BY <1>2, <1>4
<1>8. \A e \in Deployments : Seen(e)' <=> Seen(e)
  BY <1>5, <1>6
<1>9. FoundOwn' BY <1>7, <1>8 DEF IInv, FoundOwn
<1>10. FoundCut' BY <1>7, <1>8 DEF IInv, FoundCut
<1> QED BY <1>2, <1>4, <1>5, <1>6, <1>9, <1>10

LEMMA RenewTrue == ASSUME LeaseAssumption, IInv, NEW d \in Deployments, Renew(d) PROVE IInv'
<1>0. HostTyped /\ RowTyped BY DEF IInv, TypeOK
<1>1. /\ HostTyped' /\ host'[d].due = Renewal /\ host'[d].missed = 0
      /\ \A e \in Deployments \ {d} : host'[e] = host[e]
      /\ \A e \in Deployments : (Up(e)' <=> Up(e)) /\ (Seen(e)' <=> Seen(e))
      /\ FoundOwn' /\ FoundCut'
  BY RunsOn DEF Renew, LeaseAssumption
<1>2. CASE ~Mine(d)
  <2>1. row' = row BY <1>2 DEF Renew, Renewed
  <2>2. TypeOK' BY <1>1, <2>1 DEF IInv, TypeOK, RowTyped, SideTyped, Renew
  <2>3. Lease' BY <1>1, <1>2, <2>1 DEF IInv, Lease, SleepersLate, InTime, Awake, Mine, Kept, Renew
  <2>4. MarkIsHolders' /\ CutLeavesLease'
    BY <1>1, <2>1 DEF IInv, MarkIsHolders, CutLeavesLease, Held, Mine, Renew
  <2> QED BY <1>1, <2>2, <2>3, <2>4 DEF IInv
<1>3. CASE Mine(d)
  <2>1. row \in [by : Deployments, left : Nat, mark : Marks] BY <1>0, <1>3, RowParts DEF RowTyped, Held
  <2> DEFINE m == IF row.mark = NoMark THEN NoMark ELSE [row.mark EXCEPT !.kept = row.mark.age]
  <2>2. row' = [by |-> row.by, left |-> Length, mark |-> m] BY <1>3, <2>1 DEF Renew, Renewed
  <2>3. m \in Marks /\ (m # NoMark => row.mark # NoMark /\ m.by = row.mark.by /\ m.late = row.mark.late /\ m.old = row.mark.old)
    BY <2>1 DEF Marks
  <2> HIDE DEF m
  <2>4. TypeOK' BY <1>1, <2>1, <2>2, <2>3 DEF IInv, TypeOK, RowTyped, SideTyped, Renew, LeaseAssumption
  <2>5. Kept(host[d])' BY <1>1, <2>2 DEF Kept, LeaseAssumption
  <2>6. \A e \in Deployments : Mine(e)' <=> Mine(e) BY <2>2 DEF Mine
  <2>7. \A e \in Deployments \ {d} : Up(e) => e \in late BY <1>3 DEF IInv, Lease, InTime, Mine
  <2>8. Lease' BY <1>1, <1>3, <2>5, <2>6, <2>7 DEF IInv, Lease, SleepersLate, InTime, Awake, Renew
  <2>9. MarkIsHolders' BY <1>0, <1>3, <2>2, <2>3, RowParts DEF IInv, MarkIsHolders
  <2>10. CutLeavesLease' BY <1>1, <2>6 DEF IInv, CutLeavesLease, Renew
  <2> QED BY <1>1, <2>4, <2>8, <2>9, <2>10 DEF IInv
<1> QED BY <1>2, <1>3

LEMMA MissTrue == ASSUME LeaseAssumption, IInv, NEW d \in Deployments, MissRenewal(d) PROVE IInv'
<1>0. HostTyped /\ RowTyped BY DEF IInv, TypeOK
<1>1. /\ HostTyped' /\ host'[d].due = Renewal /\ host'[d].missed = 1
      /\ \A e \in Deployments \ {d} : host'[e] = host[e]
      /\ \A e \in Deployments : (Up(e)' <=> Up(e)) /\ (Seen(e)' <=> Seen(e))
      /\ FoundOwn' /\ FoundCut'
  BY RunsOn DEF MissRenewal, LeaseAssumption
<1>2. host[d].due = 0 /\ host[d].missed \in {0, 1} BY <1>0, HostParts DEF MissRenewal
<1>3. UNCHANGED <<row, asleep, ended>> /\ late' = IF host[d].missed = 1 THEN late \cup {d} ELSE late
  BY DEF MissRenewal
<1>4. TypeOK'
  <2>1. left' \in [Disturbances -> Nat] BY SpendTyped DEF MissRenewal, Disturbances, IInv, TypeOK
  <2> QED BY <1>1, <1>3, <2>1 DEF IInv, TypeOK, RowTyped, SideTyped
<1>5. Lease'
  <2>1. SleepersLate' BY <1>1, <1>3 DEF IInv, Lease, SleepersLate, Awake
  <2>2. Up(d) /\ d \notin late' => Mine(d)' /\ Kept(host[d])'
    <3> SUFFICES ASSUME Up(d), d \notin late' PROVE Mine(d)' /\ Kept(host[d])' OBVIOUS
    <3>1. d \notin late /\ host[d].missed = 0 BY <1>2, <1>3
    <3>2. Mine(d) /\ row.left >= Length - Renewal BY <1>2, <3>1 DEF IInv, Lease, InTime, Kept, LeaseAssumption
    <3>3. Held BY <1>0, <3>2, RowParts
    <3>4. row.left \in Nat BY <1>0, <3>3, RowParts
    <3> QED BY <1>1, <1>3, <3>2, <3>4 DEF Mine, Kept, LeaseAssumption
  <2>3. InTime' BY <1>1, <1>3, <2>2 DEF IInv, Lease, InTime, Mine, Kept
  <2> QED BY <2>1, <2>3 DEF Lease
<1>6. MarkIsHolders' /\ CutLeavesLease'
  BY <1>1, <1>3 DEF IInv, MarkIsHolders, CutLeavesLease, Held, Mine
<1> QED BY <1>1, <1>4, <1>5, <1>6 DEF IInv
LEMMA MarkTrue == ASSUME LeaseAssumption, IInv, NEW d \in Deployments, MarkPlanned(d) PROVE IInv'
<1> DEFINE m == [kept |-> 0, age |-> 0, by |-> d, late |-> d \in late, old |-> FALSE]
<1>0. HostTyped /\ RowTyped BY DEF IInv, TypeOK
<1>1. row \in [by : Deployments, left : Nat, mark : Marks] BY <1>0 DEF MarkPlanned, RowTyped, Held
<1>2. row' = [by |-> row.by, left |-> row.left, mark |-> m] BY <1>1 DEF MarkPlanned
<1>3. m \in Marks BY DEF Marks
<1>4. UNCHANGED <<host, asleep, late, ended>> BY DEF MarkPlanned
<1>5. TypeOK'
  <2>1. left' \in [Disturbances -> Nat] BY SpendTyped DEF MarkPlanned, Disturbances, IInv, TypeOK
  <2> QED BY <1>1, <1>2, <1>3, <1>4, <2>1 DEF IInv, TypeOK, RowTyped, HostTyped, SideTyped
<1>6. Lease' BY <1>2, <1>4 DEF IInv, Lease, SleepersLate, InTime, Awake, Up, At, Mine, Kept
<1>7. MarkIsHolders'
  <2>1. d \in late \/ row.by = d BY DEF MarkPlanned, IInv, Lease, InTime, Mine
  <2> QED BY <1>2, <2>1 DEF MarkIsHolders
<1>8. FoundOwn' /\ FoundCut' BY <1>4 DEF IInv, FoundOwn, FoundCut, Seen
<1>9. CutLeavesLease' BY <1>2, <1>4 DEF IInv, CutLeavesLease, Up, At, Mine
<1> QED BY <1>5, <1>6, <1>7, <1>8, <1>9 DEF IInv

(* A Host that ends, with its lease or without. *)
LEMMA EndsTrue ==
    ASSUME LeaseAssumption, IInv, NEW d \in Deployments, ~At(d, "off"),
           NEW how \in Cut \cup {"stopped"}, EndsAs(d, how),
           (row' = row /\ how \in Cut) \/ (row' = Released(d) /\ how = "stopped" /\ Up(d)),
           UNCHANGED asleep, left' \in [Disturbances -> Nat]
    PROVE  IInv'
<1>0. HostTyped /\ RowTyped /\ SideTyped BY DEF IInv, TypeOK
<1>1. HostTyped' /\ host'[d] = Off /\ \A e \in Deployments \ {d} : host'[e] = host[e]
  <2>1. Off \in HostStates BY DEF Off, HostStates
  <2> QED BY <1>0, <2>1, OneMoves DEF EndsAs
<1>2. ~Up(d)' /\ ~Seen(d)' BY <1>1 DEF Up, At, Seen, Off
<1>3. \A e \in Deployments \ {d} : (Up(e)' <=> Up(e)) /\ (Seen(e)' <=> Seen(e)) BY <1>1, OthersStay
<1>4. late' = late \ {d}
      /\ ended' = IF ~Up(d) THEN ended
                  ELSE [ended EXCEPT ![d] = IF how \in Cut /\ ~Mine(d) THEN "lost" ELSE how]
  BY DEF EndsAs
<1>5. row' = row \/ (row' = NoLease /\ Mine(d) /\ Up(d))
  <2>1. CASE row' = row BY <2>1
  <2>2. CASE row' = Released(d) /\ Up(d) BY <2>2, Zenon DEF Released
  <2> QED BY <2>1, <2>2
<1>6. \A e \in Deployments \ {d} : (Mine(e)' <=> Mine(e))
  BY <1>5 DEF Mine, NoLease, LeaseAssumption
<1>7. \A e \in Deployments \ {d} : ended'[e] = ended[e] BY <1>0, <1>4 DEF SideTyped
<1>8. TypeOK'
  <2>1. RowTyped' BY <1>0, <1>5 DEF RowTyped
  <2>2. SideTyped' BY <1>0, <1>4 DEF SideTyped, Cut
  <2> QED BY <1>1, <2>1, <2>2 DEF TypeOK
<1>9. SleepersLate' BY <1>2, <1>3, <1>4 DEF IInv, Lease, SleepersLate, Awake
<1>10. InTime'
  <2> SUFFICES ASSUME NEW e \in Deployments, Up(e)', e \notin late' PROVE Mine(e)' /\ Kept(host[e])'
    BY DEF InTime
  <2>1. e # d /\ Up(e) /\ e \notin late BY <1>2, <1>3, <1>4
  <2>2. Mine(e) /\ Kept(host[e]) BY <2>1 DEF IInv, Lease, InTime
  <2>3. row' = row BY <1>5, <2>1, <2>2 DEF Mine
  <2> QED BY <1>1, <2>1, <2>2, <2>3 DEF Mine, Kept
<1>11. MarkIsHolders' BY <1>5 DEF IInv, MarkIsHolders, Held
<1>12. FoundOwn' BY <1>1, <1>2, <1>3 DEF IInv, FoundOwn
<1>13. FoundCut' BY <1>1, <1>2, <1>3, <1>7 DEF IInv, FoundCut
<1>14. CutLeavesLease'
  <2>1. (ended'[d] \in Cut => Mine(d)') /\ (Mine(d)' => ended'[d] \in Cut \cup {"lost"})
    <3>1. CASE ~Up(d)
      BY <1>4, <1>5, <3>1 DEF IInv, CutLeavesLease, Mine
    <3>2. CASE Up(d) /\ how = "stopped"
      <4>1. ~Mine(d)' BY <3>2 DEF Released, Mine, NoLease, LeaseAssumption, Cut
      <4>2. ended'[d] = "stopped" BY <1>0, <1>4, <3>2 DEF SideTyped, Cut
      <4> QED BY <4>1, <4>2 DEF Cut
    <3>3. CASE Up(d) /\ how \in Cut
      <4>1. row' = row BY <3>3 DEF Cut
      <4>2. ended'[d] = IF ~Mine(d) THEN "lost" ELSE how BY <1>0, <1>4, <3>3 DEF SideTyped
      <4> QED BY <3>3, <4>1, <4>2 DEF Mine, Cut
    <3> QED BY <3>1, <3>2, <3>3
  <2> QED BY <1>3, <1>6, <1>7, <2>1 DEF IInv, CutLeavesLease
<1> QED BY <1>8, <1>9, <1>10, <1>11, <1>12, <1>13, <1>14 DEF IInv, Lease

(* A machine falls asleep or wakes. *)
LEMMA SleepTrue == ASSUME LeaseAssumption, IInv, NEW d \in Deployments, Suspend(d) \/ Resume(d) PROVE IInv'
<1>1. UNCHANGED <<row, host, ended>> BY DEF Suspend, Resume
<1>2. left' \in [Disturbances -> Nat]
  <2>1. CASE Suspend(d) BY <2>1, SpendTyped DEF Suspend, Disturbances, IInv, TypeOK
  <2>2. CASE Resume(d) BY <2>2 DEF Resume, IInv, TypeOK, SideTyped
  <2> QED BY <2>1, <2>2
<1>3. late \subseteq late' /\ late' \subseteq late \cup {d} /\ asleep' \subseteq asleep \cup {d}
      /\ (d \in asleep' /\ Up(d) => d \in late')
  BY DEF Suspend, Resume
<1>4. TypeOK' BY <1>1, <1>2, <1>3 DEF IInv, TypeOK, RowTyped, HostTyped, SideTyped
<1>5. Lease' BY <1>1, <1>3 DEF IInv, Lease, SleepersLate, InTime, Awake, Up, At, Mine, Kept
<1>6. MarkIsHolders' /\ FoundOwn' /\ FoundCut' /\ CutLeavesLease'
  BY <1>1 DEF IInv, MarkIsHolders, FoundOwn, FoundCut, CutLeavesLease, Held, Seen, Up, At, Mine
<1> QED BY <1>4, <1>5, <1>6 DEF IInv

(* Time passes for the lease as for its holder's next renewal. *)
LEMMA TickTrue == ASSUME LeaseAssumption, IInv, Tick PROVE IInv'
<1>0. HostTyped /\ RowTyped BY DEF IInv, TypeOK
<1>1. UNCHANGED <<asleep, late, ended, left>> BY DEF Tick
<1>2. \A d \in Deployments :
        /\ host'[d] \in HostStates
        /\ d \in Running => host'[d].due = host[d].due - 1 /\ host'[d].missed = host[d].missed
        /\ (Up(d)' <=> Up(d)) /\ (Seen(d)' <=> Seen(d))
        /\ Seen(d) => host'[d].behind = host[d].behind /\ host'[d].planned = host[d].planned
                      /\ host'[d].of = host[d].of
  <2> SUFFICES ASSUME NEW d \in Deployments
               PROVE  /\ host'[d] \in HostStates
                      /\ d \in Running => host'[d].due = host[d].due - 1 /\ host'[d].missed = host[d].missed
                      /\ (Up(d)' <=> Up(d)) /\ (Seen(d)' <=> Seen(d))
                      /\ Seen(d) => host'[d].behind = host[d].behind /\ host'[d].planned = host[d].planned
                                    /\ host'[d].of = host[d].of
    OBVIOUS
  <2>1. CASE d \in Running
    <3>1. host[d] \in [pc : {"up"}, behind : BOOLEAN, planned : BOOLEAN, of : Marks, due : Nat, missed : {0, 1}]
      BY <1>0, <2>1 DEF HostTyped, HostStates, Running, Up, At
    <3>2. host[d].due > 0 BY <2>1 DEF Tick
    <3>3. host'[d] = [host[d] EXCEPT !.due = host[d].due - 1] BY <2>1 DEF Tick
    <3>4. host[d].due - 1 \in Nat BY <3>1, <3>2
    <3>5. host'[d] \in [pc : {"up"}, behind : BOOLEAN, planned : BOOLEAN, of : Marks, due : Nat, missed : {0, 1}]
      BY <3>1, <3>3, <3>4
    <3> QED BY <3>1, <3>3, <3>5 DEF HostStates, Up, At, Seen
  <2>2. CASE d \notin Running
    <3>1. host'[d] = host[d] BY <2>2 DEF Tick
    <3> QED BY <1>0, <2>2, <3>1 DEF HostTyped, Up, At, Seen
  <2> QED BY <2>1, <2>2
<1>3. HostTyped'
  <2>1. DOMAIN host' = Deployments /\ host' = [d \in Deployments |-> host'[d]] BY DEF Tick
  <2> QED BY <1>2, <2>1 DEF HostTyped
<1>4. Held => /\ row'.by = row.by /\ row'.left = (IF row.left = 0 THEN 0 ELSE row.left - 1) /\ row'.mark = Older(row.mark)
              /\ row' \in [by : Deployments, left : Nat, mark : Marks]
  <2> SUFFICES ASSUME Held
               PROVE  /\ row'.by = row.by /\ row'.left = (IF row.left = 0 THEN 0 ELSE row.left - 1)
                      /\ row'.mark = Older(row.mark)
                      /\ row' \in [by : Deployments, left : Nat, mark : Marks]
    OBVIOUS
  <2>1. row \in [by : Deployments, left : Nat, mark : Marks] BY <1>0 DEF RowTyped, Held
  <2>2. Older(row.mark) \in Marks BY <2>1 DEF Older, Marks
  <2>3. row' = [by |-> row.by, left |-> IF row.left = 0 THEN 0 ELSE row.left - 1, mark |-> Older(row.mark)]
    BY <2>1 DEF Tick
  <2> QED BY <2>1, <2>2, <2>3
<1>5. ~Held => row' = row BY DEF Tick
<1>6. \A d \in Deployments : Mine(d)' <=> Mine(d) BY <1>0, <1>4, <1>5, RowParts DEF Mine
<1>7. TypeOK' BY <1>0, <1>1, <1>3, <1>4, <1>5 DEF IInv, TypeOK, RowTyped, SideTyped
<1>8. InTime'
  <2> SUFFICES ASSUME NEW d \in Deployments, Up(d)', d \notin late' PROVE Mine(d)' /\ Kept(host[d])'
    BY DEF InTime
  <2>1. Up(d) /\ d \notin late /\ d \in Running BY <1>1, <1>2 DEF IInv, Lease, SleepersLate, Running
  <2>2. Mine(d) /\ Kept(host[d]) BY <2>1 DEF IInv, Lease, InTime
  <2>3. Held /\ row.left \in Nat BY <1>0, <2>2, RowParts
  <2>4. host[d].due \in Nat \ {0} /\ host[d].missed \in {0, 1} BY <1>0, <2>1, HostParts DEF Tick
  <2>5. row'.left = row.left - 1 BY <1>4, <2>2, <2>3, <2>4 DEF Kept, LeaseAssumption
  <2>6. host'[d].due = host[d].due - 1 /\ host'[d].missed = host[d].missed BY <1>2, <2>1
  <2>7. Kept(host[d])' BY <2>2, <2>3, <2>4, <2>5, <2>6 DEF Kept, LeaseAssumption
  <2> QED BY <1>6, <2>2, <2>7
<1>9. SleepersLate' BY <1>1, <1>2 DEF IInv, Lease, SleepersLate, Awake
<1>10. MarkIsHolders'
  <2> SUFFICES ASSUME Held', row'.mark # NoMark
               PROVE  row'.mark.late \/ (row'.mark.by = row'.by /\ ~row'.mark.old)
    BY DEF MarkIsHolders
  <2>1. Held BY <1>5 DEF Held
  <2>2. row.mark \in Marks BY <1>0, <2>1, RowParts
  <2>3. row.mark # NoMark BY <1>4, <2>1 DEF Older
  <2>4. row'.mark.late = row.mark.late /\ row'.mark.by = row.mark.by /\ row'.mark.old = row.mark.old
    BY <1>4, <2>1, <2>2, <2>3 DEF Older, Marks
  <2> QED BY <1>4, <2>1, <2>3, <2>4 DEF IInv, MarkIsHolders
<1>11. FoundOwn' BY <1>2 DEF IInv, FoundOwn
<1>12. FoundCut' BY <1>1, <1>2 DEF IInv, FoundCut
<1>13. CutLeavesLease' BY <1>1, <1>2, <1>6 DEF IInv, CutLeavesLease
<1> QED BY <1>7, <1>8, <1>9, <1>10, <1>11, <1>12, <1>13 DEF IInv, Lease

-----------------------------------------------------------------------------
LEMMA InitTrue == ASSUME LeaseAssumption, Init PROVE IInv
<1>1. TypeOK BY DEF Init, TypeOK, RowTyped, HostTyped, HostStates, SideTyped, NoLease, Off, LeaseAssumption
<1>2. \A d \in Deployments : ~Up(d) /\ ~Seen(d) /\ ~Mine(d) /\ ended[d] = "none"
  BY DEF Init, Up, Seen, At, Off, Mine, NoLease, LeaseAssumption
<1>3. MarkIsHolders BY DEF Init, MarkIsHolders, Held
<1> QED BY <1>1, <1>2, <1>3
        DEF IInv, Lease, SleepersLate, InTime, FoundOwn, CutLeavesLease, FoundCut, Cut

LEMMA NextTrue == ASSUME LeaseAssumption, IInv, [Next]_vars PROVE IInv'
<1>1. CASE UNCHANGED vars
  BY <1>1 DEF vars, IInv, TypeOK, RowTyped, HostTyped, SideTyped, Lease, SleepersLate, InTime, MarkIsHolders,
              FoundOwn, CutLeavesLease, FoundCut, Held, Up, At, Awake, Mine, Kept, Seen
<1>2. ASSUME NEW d \in Deployments, HostStep(d) PROVE IInv'
  BY <1>2, BeginTrue, FindTrue, TakeTrue, InsertTrue, RenewTrue DEF HostStep
<1>3. ASSUME NEW d \in Deployments, Release(d) \/ ReleaseFails(d) \/ Kill(d) PROVE IInv'
  <2>1. Up(d) => ~At(d, "off") BY DEF Up, At
  <2>2. left' \in [Disturbances -> Nat]
    BY <1>3, SpendTyped DEF Release, ReleaseFails, Kill, Disturbances, IInv, TypeOK
  <2>3. CASE Release(d) BY <2>1, <2>2, <2>3, EndsTrue DEF Release
  <2>4. CASE ReleaseFails(d) BY <2>1, <2>2, <2>4, EndsTrue DEF ReleaseFails, Cut
  <2>5. CASE Kill(d) BY <2>2, <2>5, EndsTrue DEF Kill, Cut
  <2> QED BY <1>3, <2>3, <2>4, <2>5
<1>4. ASSUME NEW d \in Deployments, MissRenewal(d) \/ MarkPlanned(d) \/ Suspend(d) \/ Resume(d) PROVE IInv'
  BY <1>4, MissTrue, MarkTrue, SleepTrue
<1>5. CASE Tick BY <1>5, TickTrue
<1> QED BY <1>1, <1>2, <1>3, <1>4, <1>5 DEF Next

LEMMA AlwaysTrue == Spec => []IInv
<1>1. Init => IInv BY LeaseAssumption, InitTrue
<1>2. IInv /\ [Next]_vars => IInv' BY LeaseAssumption, NextTrue
<1> QED BY <1>1, <1>2, PTL DEF Spec

(* Every reachable state of the lease and the Hosts is well typed.           *)
THEOREM TypeCorrect == Spec => []TypeOK
<1>1. IInv => TypeOK BY DEF IInv
<1> QED BY <1>1, AlwaysTrue, PTL

(* A Host that was never late holds the lease and runs beside late ones only *)
(* (DatabaseLease.acquire, _renew, __exit__).                                *)
THEOREM OneRunningHost == Spec => []RunsAlone
<1>1. IInv => RunsAlone
  <2> SUFFICES ASSUME IInv, NEW d \in Deployments, Up(d), d \notin late
               PROVE  Mine(d) /\ \A e \in Deployments \ {d} : Up(e) => e \in late
    BY DEF RunsAlone
  <2>1. \A e \in Deployments : Up(e) /\ e \notin late => Mine(e) BY DEF IInv, Lease, InTime
  <2> QED BY <2>1 DEF Mine
<1> QED BY <1>1, AlwaysTrue, PTL

(* What a start says of the stop before it is true (acquire's left_behind and *)
(* planned, mark_planned): cut if and only if the run was, as long as no      *)
(* other deployment has had the lease; planned only for a mark of that run,   *)
(* or of a Host that was late.                                                *)
THEOREM StopsBeforeAreTrue == Spec => []StopBeforeIsTrue
<1>1. IInv => PlannedIsOwnUnlessLate BY DEF IInv, FoundOwn, PlannedIsOwnUnlessLate, Up, At, Seen
<1>2. IInv => CutsAreNoticed BY DEF IInv, FoundCut, CutsAreNoticed, Up, At, Seen
<1>3. IInv => StopBeforeIsTrue BY <1>1, <1>2 DEF StopBeforeIsTrue
<1> QED BY <1>3, AlwaysTrue, PTL
=============================================================================

--------------------------- MODULE Queues_proofs ---------------------------
(***************************************************************************)
(* The two lines of the Host: the one her inputs wait in, conversation by  *)
(* conversation (FairQueueWaits), and the one her words leave through       *)
(* (Outbox).                                                                *)
(*                                                                         *)
(* Of FairQueueWaits, for every finite set of conversations, all items and  *)
(* every bound: types, the line being exactly the waiting, at most two      *)
(* items of one conversation before a waiting peer, and the bound this puts *)
(* on a wait. Of Outbox, for any number of turns, parts, lines and          *)
(* disturbances: its safety properties, from one inductive invariant that   *)
(* compares the row, the adapter's memory and the platform line by line,    *)
(* and the fates of two lines where one was written before the other.       *)
(***************************************************************************)
EXTENDS FairQueueWaits, Outbox, Integers, SequenceTheorems, FiniteSetTheorems, TLAPS

Stands(line, s) == \E i \in 1..Len(line) : line[i] = s

EachOnce(line) == \A i, j \in 1..Len(line) : line[i] = line[j] => i = j

(* Being passed over twice in a row by one conversation needs a streak of  *)
(* two: the next pop then rotates that conversation away.                   *)
OvertakenWithinStreak == \A s \in Scenes : overtaken[s] <= streak

IInv == TypeOK /\ LineIsTheWaiting /\ AtMostTwoBeforeAPeer /\ OvertakenWithinStreak

----------------------------------------------------------------------------
LEMMA EmptyIsLengthZero ==
    ASSUME NEW S, NEW q \in Seq(S)
    PROVE  q = <<>> <=> Len(q) = 0
BY EmptySeq

(* Leaving the head of a line: the others stay, each once. *)
LEMMA TailLosesTheHead ==
    ASSUME NEW S, NEW line \in Seq(S), line # <<>>, EachOnce(line)
    PROVE  /\ Tail(line) \in Seq(S)
           /\ EachOnce(Tail(line))
           /\ ~Stands(Tail(line), Head(line))
           /\ \A s : s # Head(line) => (Stands(Tail(line), s) <=> Stands(line, s))
<1> DEFINE rest == Tail(line)
           n == Len(line)
<1>1. /\ rest \in Seq(S) /\ Len(rest) = n - 1 /\ n \in Nat \ {0}
      /\ \A i \in 1..(n - 1) : rest[i] = line[i + 1]
  BY HeadTailProperties, EmptySeq, LenProperties
<1>2. Head(line) = line[1]  BY <1>1
<1> HIDE DEF rest, n
<1>3. ASSUME NEW i \in 1..(n - 1), NEW j \in 1..(n - 1), rest[i] = rest[j] PROVE i = j
  <2>1. line[i + 1] = line[j + 1] /\ i + 1 \in 1..n /\ j + 1 \in 1..n  BY <1>1, <1>3
  <2> QED  BY <2>1, <1>1 DEF EachOnce, n
<1>4. ASSUME NEW i \in 1..(n - 1), rest[i] = line[1] PROVE FALSE
  <2>1. line[i + 1] = line[1] /\ i + 1 \in 1..n /\ 1 \in 1..n  BY <1>1, <1>4
  <2>2. i + 1 = 1  BY <2>1 DEF EachOnce, n
  <2> QED  BY <2>2
<1>5. ASSUME NEW s, s # line[1] PROVE Stands(rest, s) <=> Stands(line, s)
  <2>1. ASSUME NEW i \in 1..(n - 1), rest[i] = s PROVE \E k \in 1..n : line[k] = s
    <3>1. i + 1 \in 1..n /\ line[i + 1] = s  BY <1>1, <2>1
    <3> QED  BY <3>1
  <2>2. ASSUME NEW k \in 1..n, line[k] = s PROVE \E i \in 1..(n - 1) : rest[i] = s
    <3>1. k # 1  BY <1>5, <2>2
    <3>2. k - 1 \in 1..(n - 1) /\ (k - 1) + 1 = k  BY <1>1, <3>1
    <3>3. rest[k - 1] = s  BY <1>1, <2>2, <3>2
    <3> QED  BY <3>2, <3>3
  <2> QED  BY <1>1, <2>1, <2>2 DEF Stands, n
<1>6. EachOnce(rest)  BY <1>1, <1>3 DEF EachOnce
<1>7. ~Stands(rest, line[1])  BY <1>1, <1>4 DEF Stands
<1> QED  BY <1>1, <1>2, <1>5, <1>6, <1>7 DEF rest

(* Joining the end of a line one does not stand in: the others stay. *)
LEMMA AppendGainsTheLast ==
    ASSUME NEW S, NEW line \in Seq(S), NEW e \in S, EachOnce(line), ~Stands(line, e)
    PROVE  /\ Append(line, e) \in Seq(S)
           /\ EachOnce(Append(line, e))
           /\ Stands(Append(line, e), e)
           /\ \A s : s # e => (Stands(Append(line, e), s) <=> Stands(line, s))
<1> DEFINE more == Append(line, e)
           n == Len(line)
<1>1. /\ more \in Seq(S) /\ Len(more) = n + 1 /\ n \in Nat /\ more[n + 1] = e
      /\ \A i \in 1..n : more[i] = line[i]
  BY AppendProperties, LenProperties
<1> HIDE DEF more, n
<1>2. \A i \in 1..n : line[i] # e  BY DEF Stands, n
<1>3. ASSUME NEW i \in 1..(n + 1), NEW j \in 1..(n + 1), more[i] = more[j] PROVE i = j
  <2>1. CASE i \in 1..n /\ j \in 1..n
    BY <1>1, <1>3, <2>1 DEF EachOnce, n
  <2>2. CASE i = n + 1 \/ j = n + 1
    BY <1>1, <1>2, <1>3, <2>2
  <2> QED  BY <1>1, <2>1, <2>2
<1>4. ASSUME NEW s, s # e
      PROVE (\E i \in 1..(n + 1) : more[i] = s) <=> \E i \in 1..n : line[i] = s
  BY <1>1, <1>4
<1>5. n + 1 \in 1..(n + 1)  BY <1>1
<1>6. EachOnce(more)  BY <1>1, <1>3 DEF EachOnce
<1>7. Stands(more, e)  BY <1>1, <1>5 DEF Stands
<1>8. \A s : s # e => (Stands(more, s) <=> Stands(line, s))  BY <1>1, <1>4 DEF Stands, n
<1> QED  BY <1>1, <1>6, <1>7, <1>8 DEF more

----------------------------------------------------------------------------
(* Rotating the line keeps who stands in it, and keeps each once. *)
LEMMA LineKeeps ==
    ASSUME QueueTypeOK, LineIsTheWaiting, scenes # <<>>
    PROVE  /\ Line \in Seq(Scenes) /\ Line # <<>>
           /\ EachOnce(Line)
           /\ Turn \in Scenes /\ Waiting(Turn)
           /\ \A s \in Scenes : Waiting(s) <=> Stands(Line, s)
<1>1. scenes \in Seq(Scenes) /\ EachOnce(scenes)
  BY DEF QueueTypeOK, LineIsTheWaiting, EachOnce
<1>2. \A s \in Scenes : Waiting(s) <=> Stands(scenes, s)
  BY DEF LineIsTheWaiting, Stands
<1>3. Line \in Seq(Scenes) /\ Line # <<>> /\ EachOnce(Line)
      /\ \A s \in Scenes : Stands(Line, s) <=> Stands(scenes, s)
  <2>1. CASE ~Rotates
    BY <1>1, <2>1 DEF Line
  <2>2. CASE Rotates
    <3> DEFINE rest == Tail(scenes)
               head == Head(scenes)
    <3>1. head \in Scenes /\ rest \in Seq(Scenes) /\ EachOnce(rest) /\ ~Stands(rest, head)
          /\ \A s : s # head => (Stands(rest, s) <=> Stands(scenes, s))
      BY <1>1, TailLosesTheHead, HeadTailProperties
    <3>2. Stands(scenes, head)  BY <1>1, EmptySeq DEF Stands
    <3>3. Line = Append(rest, head)  BY <2>2 DEF Line
    <3> HIDE DEF rest, head
    <3>4. /\ Append(rest, head) \in Seq(Scenes) /\ EachOnce(Append(rest, head))
          /\ Stands(Append(rest, head), head)
          /\ \A s : s # head => (Stands(Append(rest, head), s) <=> Stands(rest, s))
      BY <3>1, AppendGainsTheLast
    <3>5. Line # <<>>  BY <3>1, <3>3, AppendProperties
    <3> QED  BY <3>1, <3>2, <3>3, <3>4, <3>5
  <2> QED  BY <2>1, <2>2
<1>4. Turn \in Scenes /\ Stands(Line, Turn)
  BY <1>3, HeadTailProperties, EmptySeq DEF Turn, Stands
<1> QED  BY <1>2, <1>3, <1>4

(* Arriving keeps the line exactly the waiting. *)
LEMMA ArriveKeepsIInv ==
    ASSUME IInv, NEW s \in Scenes, NEW item \in Items, Arrive(s, item)
    PROVE  IInv'
<1>1. /\ queues \in [Scenes -> Seq(Items)] /\ scenes \in Seq(Scenes)
      /\ EachOnce(scenes) /\ \A t \in Scenes : Waiting(t) <=> Stands(scenes, t)
  BY DEF IInv, TypeOK, QueueTypeOK, LineIsTheWaiting, EachOnce, Stands
<1>2. /\ queues' \in [Scenes -> Seq(Items)]
      /\ queues'[s] # <<>>
      /\ \A t \in Scenes : t # s => queues'[t] = queues[t]
  <2>1. /\ queues' = [queues EXCEPT ![s] = Append(queues[s], item)]
        /\ queues[s] \in Seq(Items)
    BY <1>1 DEF Arrive, Put
  <2>2. Append(queues[s], item) \in Seq(Items) /\ Append(queues[s], item) # <<>>
    BY <2>1, AppendProperties
  <2> QED  BY <1>1, <2>1, <2>2
<1>3. /\ scenes' \in Seq(Scenes)
      /\ EachOnce(scenes') /\ Stands(scenes', s)
      /\ \A t \in Scenes : t # s => (Stands(scenes', t) <=> Stands(scenes, t))
  <2>1. CASE Waiting(s)
    <3>1. scenes' = scenes  BY <2>1 DEF Arrive, Put
    <3> QED  BY <1>1, <2>1, <3>1
  <2>2. CASE ~Waiting(s)
    <3>1. scenes' = Append(scenes, s)  BY <2>2 DEF Arrive, Put
    <3> QED  BY <1>1, <2>2, <3>1, AppendGainsTheLast
  <2> QED  BY <2>1, <2>2
<1>4. LineIsTheWaiting'
  <2>1. \A t \in Scenes : Waiting(t)' <=> Stands(scenes', t)
    BY <1>1, <1>2, <1>3 DEF Waiting
  <2> QED  BY <2>1, <1>3 DEF LineIsTheWaiting, EachOnce, Stands
<1>5. TypeOK' /\ AtMostTwoBeforeAPeer' /\ OvertakenWithinStreak'
  BY <1>2, <1>3 DEF IInv, TypeOK, QueueTypeOK, AtMostTwoBeforeAPeer, OvertakenWithinStreak,
     Arrive, Put
<1> QED  BY <1>4, <1>5 DEF IInv

(* A third item in a row of one conversation passes nobody over. *)
LEMMA NobodyIsPassedOverByAThird ==
    ASSUME IInv, scenes # <<>>, NEW s \in Scenes, PassedOver(s), last = Turn
    PROVE  streak < 2
<1>1. QueueTypeOK /\ LineIsTheWaiting /\ scenes \in Seq(Scenes) /\ streak \in Nat
  BY DEF IInv, TypeOK, QueueTypeOK
<1>2. Line \in Seq(Scenes) /\ Line # <<>> /\ EachOnce(Line) /\ Stands(Line, s)
  BY <1>1, LineKeeps DEF PassedOver
<1>3. SUFFICES ASSUME streak >= 2 PROVE FALSE
  BY <1>1
<1>4. EachOnce(scenes) /\ Stands(scenes, s)
  BY <1>1 DEF LineIsTheWaiting, EachOnce, PassedOver, Stands
<1>5. CASE Head(scenes) # last
  BY <1>5 DEF Rotates, Line, Turn
<1>6. CASE Head(scenes) = last
  <2>1. s # scenes[1]  BY <1>1, <1>6 DEF PassedOver
  <2>2. Len(scenes) > 1
    <3>1. PICK i \in 1..Len(scenes) : scenes[i] = s  BY <1>4 DEF Stands
    <3>2. i # 1  BY <2>1, <3>1
    <3> QED  BY <3>2, <1>1, LenProperties
  <2>3. Line = Append(Tail(scenes), Head(scenes))
    BY <1>3, <1>6, <2>2 DEF Rotates, Line
  <2>4. Tail(scenes) \in Seq(Scenes) /\ Tail(scenes) # <<>> /\ Head(scenes) \in Scenes
    <3>1. /\ Tail(scenes) \in Seq(Scenes) /\ Len(Tail(scenes)) # 0
          /\ Head(scenes) \in Scenes
      <4>1. scenes # <<>> /\ Len(scenes) \in Nat  BY <1>1, <2>2, EmptyIsLengthZero, LenProperties
      <4>2. /\ Tail(scenes) \in Seq(Scenes) /\ Len(Tail(scenes)) = Len(scenes) - 1
            /\ Head(scenes) \in Scenes
        BY <1>1, <4>1, HeadTailProperties
      <4>3. Len(scenes) - 1 # 0
        <5>1. \A n \in Nat : n > 1 => n - 1 # 0  OBVIOUS
        <5> QED  BY <2>2, <4>1, <5>1
      <4> QED  BY <4>2, <4>3
    <3> QED  BY <3>1, EmptyIsLengthZero
  <2>5. Head(Line) = Head(Tail(scenes))
    BY <2>3, <2>4, HeadTailAppend
  <2>6. Stands(Tail(scenes), Head(Tail(scenes)))
    BY <2>4, HeadTailProperties, EmptySeq DEF Stands
  <2>7. ~Stands(Tail(scenes), Head(scenes))
    BY <1>1, <1>4, TailLosesTheHead
  <2> QED  BY <1>6, <2>5, <2>6, <2>7 DEF Turn
<1> QED  BY <1>5, <1>6

(* Serving keeps the line exactly the waiting, and the two-item bound. *)
LEMMA ServeKeepsIInv ==
    ASSUME IInv, Serve, FairQueueAssumption
    PROVE  IInv'
<1>1. /\ QueueTypeOK /\ LineIsTheWaiting /\ scenes # <<>>
      /\ queues \in [Scenes -> Seq(Items)] /\ streak \in Nat
      /\ overtaken \in [Scenes -> Nat] /\ waited \in [Scenes -> Nat]
  BY DEF IInv, TypeOK, QueueTypeOK, Serve, Pop
<1>2. /\ Line \in Seq(Scenes) /\ Line # <<>> /\ EachOnce(Line)
      /\ Turn \in Scenes /\ Waiting(Turn)
      /\ \A s \in Scenes : Waiting(s) <=> Stands(Line, s)
  BY <1>1, LineKeeps
<1>3. /\ queues' = [queues EXCEPT ![Turn] = Tail(queues[Turn])]
      /\ last' = Turn /\ streak' = (IF last = Turn THEN streak + 1 ELSE 1)
      /\ scenes' = (IF Len(queues[Turn]) = 1 THEN Tail(Line) ELSE Line)
      /\ overtaken' = [s \in Scenes |-> IF ~PassedOver(s) THEN 0
                                        ELSE IF last = Turn THEN overtaken[s] + 1 ELSE 1]
      /\ waited' = [s \in Scenes |-> IF PassedOver(s) THEN waited[s] + 1 ELSE 0]
  BY DEF Serve, Pop
<1>4. /\ queues[Turn] \in Seq(Items) /\ queues[Turn] # <<>>
      /\ queues'[Turn] = Tail(queues[Turn]) /\ Tail(queues[Turn]) \in Seq(Items)
      /\ Len(Tail(queues[Turn])) = Len(queues[Turn]) - 1 /\ Len(queues[Turn]) \in Nat \ {0}
      /\ \A s \in Scenes : s # Turn => queues'[s] = queues[s]
  BY <1>1, <1>2, <1>3, HeadTailProperties, EmptySeq DEF Waiting
<1>5. /\ Tail(Line) \in Seq(Scenes) /\ EachOnce(Tail(Line)) /\ ~Stands(Tail(Line), Turn)
      /\ \A s : s # Turn => (Stands(Tail(Line), s) <=> Stands(Line, s))
  BY <1>2, TailLosesTheHead DEF Turn
<1>6. scenes' \in Seq(Scenes) /\ EachOnce(scenes')
  BY <1>2, <1>3, <1>5
<1>7. \A s \in Scenes : Waiting(s)' <=> Stands(scenes', s)
  <2>1. CASE Len(queues[Turn]) = 1
    <3>1. queues'[Turn] = <<>>
      <4>1. Len(Tail(queues[Turn])) = 0  BY <1>4, <2>1
      <4> QED  BY <1>4, <4>1, EmptyIsLengthZero
    <3>2. scenes' = Tail(Line)  BY <1>3, <2>1
    <3> QED  BY <1>2, <1>4, <1>5, <3>1, <3>2 DEF Waiting
  <2>2. CASE Len(queues[Turn]) # 1
    <3>1. queues'[Turn] # <<>>
      <4>1. Len(Tail(queues[Turn])) # 0  BY <1>4, <2>2
      <4> QED  BY <1>4, <4>1, EmptyIsLengthZero
    <3>2. scenes' = Line  BY <1>3, <2>2
    <3> QED  BY <1>2, <1>4, <3>1, <3>2 DEF Waiting
  <2> QED  BY <2>1, <2>2
<1>8. LineIsTheWaiting'
  BY <1>6, <1>7 DEF LineIsTheWaiting, EachOnce, Stands
<1>9. TypeOK'
  <2>1. queues' \in [Scenes -> Seq(Items)]  BY <1>1, <1>2, <1>3, <1>4
  <2>2. last' \in Scenes /\ last' # NoScene /\ streak' \in Nat /\ streak' # 0
    BY <1>1, <1>2, <1>3 DEF FairQueueAssumption
  <2>3. overtaken' \in [Scenes -> Nat] /\ waited' \in [Scenes -> Nat]  BY <1>1, <1>3
  <2> QED  BY <1>6, <2>1, <2>2, <2>3 DEF TypeOK, QueueTypeOK
<1>10. ASSUME NEW s \in Scenes PROVE overtaken'[s] <= 2 /\ overtaken'[s] <= streak'
  <2>1. CASE ~PassedOver(s)
    BY <1>1, <1>3, <2>1
  <2>2. CASE PassedOver(s) /\ last # Turn
    BY <1>3, <2>2
  <2>3. CASE PassedOver(s) /\ last = Turn
    <3>1. streak < 2  BY <1>1, <2>3, NobodyIsPassedOverByAThird
    <3>2. overtaken[s] <= streak /\ overtaken[s] \in Nat
      BY <1>1 DEF IInv, OvertakenWithinStreak
    <3> QED  BY <1>1, <1>3, <2>3, <3>1, <3>2
  <2> QED  BY <2>1, <2>2, <2>3
<1> QED  BY <1>8, <1>9, <1>10 DEF IInv, AtMostTwoBeforeAPeer, OvertakenWithinStreak

----------------------------------------------------------------------------
(* The queue keeps its types, its line is exactly the conversations with   *)
(* something queued, and no conversation is overtaken more than twice in a *)
(* row by one other: whatever the conversations, the items and the order.   *)
THEOREM FairQueueSafe == WaitsSpec => [](TypeOK /\ LineIsTheWaiting /\ AtMostTwoBeforeAPeer)
<1>1. WaitsInit => IInv
  BY FairQueueAssumption DEF WaitsInit, QueueInit, IInv, TypeOK, QueueTypeOK, LineIsTheWaiting,
     Waiting, AtMostTwoBeforeAPeer, OvertakenWithinStreak
<1>2. IInv /\ [WaitsNext]_waitsVars => IInv'
  <2> SUFFICES ASSUME IInv, [WaitsNext]_waitsVars PROVE IInv'  OBVIOUS
  <2>1. CASE Serve  BY <2>1, ServeKeepsIInv, FairQueueAssumption
  <2>2. CASE \E s \in Scenes, item \in Items : Arrive(s, item)
    BY <2>2, ArriveKeepsIInv
  <2>3. CASE UNCHANGED waitsVars
    BY <2>3 DEF waitsVars, IInv, TypeOK, QueueTypeOK, LineIsTheWaiting, Waiting,
       AtMostTwoBeforeAPeer, OvertakenWithinStreak
  <2> QED  BY <2>1, <2>2, <2>3 DEF WaitsNext
<1>3. IInv => TypeOK /\ LineIsTheWaiting /\ AtMostTwoBeforeAPeer  BY DEF IInv
<1> QED  BY <1>1, <1>2, <1>3, PTL DEF WaitsSpec
----------------------------------------------------------------------------
(* The bound on a wait. A conversation may have waited two items for every *)
(* place it already moved up, and what the head of the line has used of    *)
(* its two before it must go to the end.                                    *)
Most == 2 * (Cardinality(Scenes) - 1)

Used == IF Len(scenes) > 1 /\ Head(scenes) = last
        THEN (IF streak >= 2 THEN 2 ELSE streak) ELSE 0

(* The waits, by place in the line: what is still allowed after the i-th   *)
(* place's wait are two items of each conversation before it, less what    *)
(* the head has used.                                                       *)
PlaceAllows ==
    \A i \in 1..Len(scenes) :
        waited[scenes[i]] + 2 * (i - 1) <= Most + (IF i > 1 THEN Used ELSE 0)

(* The conversation just served has waited for nothing since, nor has one  *)
(* with nothing queued.                                                     *)
RestedWaitNone ==
    /\ last \in Scenes => waited[last] = 0
    /\ \A s \in Scenes : ~Waiting(s) => waited[s] = 0

WInv == IInv /\ PlaceAllows /\ RestedWaitNone

(* A line in which each stands once is no longer than there are to stand. *)
LEMMA LineIsShort ==
    ASSUME NEW S, IsFiniteSet(S), NEW line \in Seq(S), EachOnce(line)
    PROVE  Cardinality(S) \in Nat /\ Len(line) \in Nat /\ Len(line) <= Cardinality(S)
<1>1. Len(line) \in Nat /\ line \in [1..Len(line) -> S]  BY LenProperties
<1>2. IsInjective(line)
  BY <1>1 DEF EachOnce, IsInjective
<1>3. line \in Injection(1..Len(line), S)  BY <1>1, <1>2 DEF Injection
<1>4. Cardinality(1..Len(line)) <= Cardinality(S)
  BY <1>3, FS_Injection
<1>5. Cardinality(1..Len(line)) = Len(line)
  <2>1. Cardinality(1..Len(line)) = IF 1 > Len(line) THEN 0 ELSE Len(line) - 1 + 1
    BY <1>1, FS_Interval
  <2> QED  BY <1>1, <2>1
<1>6. Cardinality(S) \in Nat  BY FS_CardinalityType
<1> QED  BY <1>1, <1>4, <1>5, <1>6

(* The bound on every wait follows. *)
LEMMA WaitFollows ==
    ASSUME WInv
    PROVE  WaitIsBounded
<1>1. /\ scenes \in Seq(Scenes) /\ EachOnce(scenes) /\ streak \in Nat
      /\ waited \in [Scenes -> Nat]
      /\ \A s \in Scenes : Waiting(s) <=> Stands(scenes, s)
  BY DEF WInv, IInv, TypeOK, QueueTypeOK, LineIsTheWaiting, EachOnce, Stands
<1>2. Cardinality(Scenes) \in Nat /\ Len(scenes) \in Nat
  BY <1>1, LineIsShort, FairQueueWaitsAssumption
<1>3. Used \in 0..2  BY <1>1 DEF Used
<1>4. SUFFICES ASSUME NEW s \in Scenes PROVE waited[s] <= Most
  BY DEF WaitIsBounded, Most
<1>5. Cardinality(Scenes) >= 1
  BY <1>2, FS_EmptySet, FairQueueWaitsAssumption
<1>6. CASE ~Waiting(s)
  BY <1>2, <1>5, <1>6 DEF WInv, RestedWaitNone, Most
<1>7. CASE Waiting(s)
  <2>1. PICK i \in 1..Len(scenes) : scenes[i] = s  BY <1>1, <1>7 DEF Stands
  <2>2. waited[s] + 2 * (i - 1) <= Most + (IF i > 1 THEN Used ELSE 0)
    BY <2>1 DEF WInv, PlaceAllows
  <2>3. waited[s] \in Nat /\ Most \in Int /\ i \in Nat \ {0}  BY <1>1, <1>2, <2>1 DEF Most
  <2> HIDE DEF Most, Used
  <2> QED  BY <1>3, <2>2, <2>3
<1> QED  BY <1>6, <1>7

(* One that arrives comes to the end of the line, having waited nothing. *)
LEMMA ArriveKeepsWInv ==
    ASSUME WInv, NEW s \in Scenes, NEW item \in Items, Arrive(s, item)
    PROVE  WInv'
<1>1. /\ scenes \in Seq(Scenes) /\ EachOnce(scenes) /\ streak \in Nat
      /\ waited \in [Scenes -> Nat] /\ queues \in [Scenes -> Seq(Items)]
      /\ \A t \in Scenes : Waiting(t) <=> Stands(scenes, t)
  BY DEF WInv, IInv, TypeOK, QueueTypeOK, LineIsTheWaiting, EachOnce, Stands
<1>2. IInv'  BY ArriveKeepsIInv DEF WInv
<1>3. waited' = waited /\ last' = last /\ streak' = streak  BY DEF Arrive, Put
<1>4. /\ queues'[s] # <<>>
      /\ \A t \in Scenes : t # s => queues'[t] = queues[t]
  <2>1. /\ queues' = [queues EXCEPT ![s] = Append(queues[s], item)]
        /\ queues[s] \in Seq(Items)
    BY <1>1 DEF Arrive, Put
  <2>2. Append(queues[s], item) # <<>>  BY <2>1, AppendProperties
  <2> QED  BY <1>1, <2>1, <2>2
<1>5. RestedWaitNone'
  BY <1>3, <1>4 DEF WInv, RestedWaitNone, Waiting
<1>6. PlaceAllows'
  <2>1. CASE Waiting(s)
    <3>1. scenes' = scenes  BY <2>1 DEF Arrive, Put
    <3> QED  BY <1>3, <3>1 DEF WInv, PlaceAllows, Used
  <2>2. CASE ~Waiting(s)
    <3> DEFINE n == Len(scenes)
    <3>1. scenes' = Append(scenes, s)  BY <2>2 DEF Arrive, Put
    <3>2. /\ Len(scenes') = n + 1 /\ scenes'[n + 1] = s /\ n \in Nat
          /\ \A i \in 1..n : scenes'[i] = scenes[i]
      BY <1>1, <3>1, AppendProperties, LenProperties
    <3>3. Most \in Int /\ 2 * n <= Most
      <4>1. scenes' \in Seq(Scenes) /\ EachOnce(scenes')
        BY <1>2 DEF IInv, TypeOK, QueueTypeOK, LineIsTheWaiting, EachOnce
      <4>2. Cardinality(Scenes) \in Nat /\ n + 1 <= Cardinality(Scenes)
        BY <3>2, <4>1, LineIsShort, FairQueueWaitsAssumption
      <4> HIDE DEF n
      <4> QED  BY <3>2, <4>2 DEF Most
    <3>4. Used \in 0..2 /\ Used' \in 0..2  BY <1>1, <1>3 DEF Used
    <3>5. n > 1 => Used' = Used
      <4>1. n > 1 => Head(scenes') = Head(scenes)
        BY <1>1, <3>1, EmptySeq, HeadTailAppend
      <4>2. n > 1 => Len(scenes') > 1 /\ Len(scenes) > 1  BY <3>2
      <4> HIDE DEF n
      <4>3. ASSUME n > 1 PROVE Used' = Used  BY <1>3, <4>1, <4>2, <4>3 DEF Used
      <4> QED  BY <4>3
    <3>6. \A i \in 1..n : i > 1 => n > 1  BY <3>2
    <3>7. waited[s] = 0  BY <2>2 DEF WInv, RestedWaitNone
    <3>8. \A i \in 1..n : scenes[i] \in Scenes  BY <1>1
    <3>9. ASSUME NEW i \in 1..(n + 1)
          PROVE waited[scenes'[i]] + 2 * (i - 1) <= Most + (IF i > 1 THEN Used' ELSE 0)
      <4>1. CASE i \in 1..n
        <5>1. waited[scenes[i]] + 2 * (i - 1) <= Most + (IF i > 1 THEN Used ELSE 0)
          BY <4>1 DEF WInv, PlaceAllows
        <5>2. scenes'[i] = scenes[i] /\ (i > 1 => Used' = Used)
          BY <3>2, <3>5, <3>6, <4>1
        <5> QED  BY <5>1, <5>2
      <4>2. CASE i = n + 1
        <5> HIDE DEF n, Used, Most
        <5>1. scenes'[i] = s /\ waited[scenes'[i]] = 0  BY <3>2, <3>7, <4>2
        <5> QED  BY <3>2, <3>3, <3>4, <4>2, <5>1
      <4> QED  BY <3>2, <4>1, <4>2
    <3>10. Most' = Most  BY DEF Most
    <3> HIDE DEF n
    <3> QED  BY <1>3, <3>2, <3>9, <3>10 DEF PlaceAllows
  <2> QED  BY <2>1, <2>2
<1> QED  BY <1>2, <1>5, <1>6 DEF WInv

(* The line after an item was served: unchanged, less its head, rotated, or *)
(* rotated and less the conversation served.                                *)
LEMMA LineAfterServing ==
    ASSUME IInv, Serve
    PROVE  LET n == Len(scenes)
           IN /\ n \in Nat \ {0}
              /\ ~Rotates =>
                   /\ Turn = scenes[1]
                   /\ \/ scenes' = scenes
                      \/ /\ Len(scenes') = n - 1
                         /\ \A i \in 1..(n - 1) : scenes'[i] = scenes[i + 1]
              /\ Rotates =>
                   /\ Turn = scenes[2]
                   /\ \/ /\ Len(scenes') = n
                         /\ \A i \in 1..(n - 1) : scenes'[i] = scenes[i + 1]
                         /\ scenes'[n] = scenes[1]
                      \/ /\ Len(scenes') = n - 1
                         /\ \A i \in 1..(n - 2) : scenes'[i] = scenes[i + 2]
                         /\ scenes'[n - 1] = scenes[1]
<1> DEFINE n == Len(scenes)
<1>1. scenes \in Seq(Scenes) /\ scenes # <<>> /\ n \in Nat
  BY LenProperties DEF IInv, TypeOK, QueueTypeOK, Serve, Pop
<1>2. /\ n \in Nat \ {0} /\ Head(scenes) = scenes[1] /\ Head(scenes) \in Scenes
      /\ Tail(scenes) \in Seq(Scenes) /\ Len(Tail(scenes)) = n - 1
      /\ \A i \in 1..(n - 1) : Tail(scenes)[i] = scenes[i + 1]
  BY <1>1, EmptyIsLengthZero, HeadTailProperties
<1>3. scenes' = Tail(Line) \/ scenes' = Line  BY DEF Serve, Pop
<1>4. CASE ~Rotates
  <2>1. Line = scenes /\ Turn = scenes[1]  BY <1>2, <1>4 DEF Line, Turn
  <2> QED  BY <1>2, <1>3, <1>4, <2>1
<1>5. CASE Rotates
  <2>1. Line = Append(Tail(scenes), Head(scenes)) /\ n > 1  BY <1>5 DEF Line, Rotates
  <2>2. /\ Line \in Seq(Scenes) /\ Len(Line) = n /\ Line[n] = scenes[1]
        /\ \A i \in 1..(n - 1) : Line[i] = scenes[i + 1]
    <3>1. /\ Line \in Seq(Scenes) /\ Len(Line) = (n - 1) + 1 /\ Line[(n - 1) + 1] = scenes[1]
          /\ \A i \in 1..(n - 1) : Line[i] = Tail(scenes)[i]
      BY <1>2, <2>1, AppendProperties
    <3> HIDE DEF n
    <3>2. (n - 1) + 1 = n  BY <1>1
    <3> QED  BY <1>2, <3>1, <3>2
  <2> HIDE DEF n
  <2>3. Line # <<>>  BY <1>1, <2>1, <2>2, EmptyIsLengthZero
  <2>4. /\ Turn = scenes[2] /\ Len(Tail(Line)) = n - 1
        /\ \A i \in 1..(n - 1) : Tail(Line)[i] = Line[i + 1]
    <3>1. Turn = Line[1]  BY <2>2, <2>3 DEF Turn
    <3>2. 1 \in 1..(n - 1)  BY <1>1, <2>1
    <3> QED  BY <2>2, <2>3, <3>1, <3>2, HeadTailProperties
  <2>5. ASSUME scenes' = Tail(Line)
        PROVE  /\ Len(scenes') = n - 1
               /\ \A i \in 1..(n - 2) : scenes'[i] = scenes[i + 2]
               /\ scenes'[n - 1] = scenes[1]
    <3>1. n - 1 \in 1..(n - 1) /\ (n - 1) + 1 = n  BY <1>1, <2>1
    <3>2. ASSUME NEW i \in 1..(n - 2) PROVE scenes'[i] = scenes[i + 2]
      <4>1. i \in 1..(n - 1) /\ i + 1 \in 1..(n - 1) /\ (i + 1) + 1 = i + 2  BY <1>1
      <4> QED  BY <2>2, <2>4, <2>5, <4>1
    <3> QED  BY <2>2, <2>4, <2>5, <3>1, <3>2
  <2> QED  BY <1>2, <1>3, <1>5, <2>2, <2>4, <2>5 DEF n
<1> QED  BY <1>2, <1>4, <1>5

(* The sums of a place in the line: one moved up by a place, and the one    *)
(* that went to the end.                                                    *)
LEMMA MovedUp ==
    ASSUME NEW w \in Nat, NEW i \in Nat \ {0}, NEW most \in Int,
           NEW used \in 0..1, NEW usedAfter \in 0..2,
           w + 2 * ((i + 1) - 1) <= most + used
    PROVE  (w + 1) + 2 * (i - 1) <= most + (IF i > 1 THEN usedAfter ELSE 0)
OBVIOUS

LEMMA WentToTheEnd ==
    ASSUME NEW n \in Nat, NEW i \in Nat \ {0}, NEW most \in Int, NEW usedAfter \in 0..2,
           2 * (n - 1) <= most, n > 1, i < n \/ (i = n /\ usedAfter >= 1)
    PROVE  1 + 2 * (i - 1) <= most + (IF i > 1 THEN usedAfter ELSE 0)
OBVIOUS

(* Serving an item lengthens every other wait by one, and pays for it with *)
(* a place in the line or with one of the head's two.                       *)
LEMMA ServeKeepsWInv ==
    ASSUME WInv, Serve
    PROVE  WInv'
<1> DEFINE n == Len(scenes)
<1>1. /\ scenes \in Seq(Scenes) /\ EachOnce(scenes) /\ streak \in Nat
      /\ scenes # <<>> /\ last \in Scenes \cup {NoScene}
      /\ waited \in [Scenes -> Nat] /\ queues \in [Scenes -> Seq(Items)]
      /\ \A t \in Scenes : Waiting(t) <=> Stands(scenes, t)
  BY DEF WInv, IInv, TypeOK, QueueTypeOK, LineIsTheWaiting, EachOnce, Stands, Serve, Pop
<1>2. IInv /\ IInv'  BY ServeKeepsIInv, FairQueueAssumption DEF WInv
<1>3. /\ Turn \in Scenes /\ last' = Turn
      /\ streak' = (IF last = Turn THEN streak + 1 ELSE 1)
      /\ \A s \in Scenes : waited'[s] = IF PassedOver(s) THEN waited[s] + 1 ELSE 0
      /\ queues' = [queues EXCEPT ![Turn] = Tail(queues[Turn])]
  BY <1>1, <1>2, LineKeeps DEF IInv, TypeOK, Serve, Pop
<1>4. RestedWaitNone'
  <2>1. \A s \in Scenes : s # Turn => queues'[s] = queues[s]  BY <1>1, <1>3
  <2>2. \A s \in Scenes : ~Waiting(s)' => ~PassedOver(s)
    BY <2>1 DEF PassedOver, Waiting
  <2>3. waited'[Turn] = 0  BY <1>3 DEF PassedOver
  <2>4. \A s \in Scenes : ~Waiting(s)' => waited'[s] = 0  BY <1>3, <2>2
  <2> QED  BY <1>3, <2>3, <2>4 DEF RestedWaitNone
<1>5. n \in Nat \ {0} /\ Cardinality(Scenes) \in Nat /\ n <= Cardinality(Scenes)
  BY <1>1, <1>2, LineAfterServing, LineIsShort, FairQueueWaitsAssumption
<1>6. Most \in Int /\ 2 * (n - 1) <= Most /\ Most' = Most
  <2> HIDE DEF n
  <2> QED  BY <1>5 DEF Most
<1>7. \A i \in 1..n : /\ scenes[i] \in Scenes /\ waited[scenes[i]] \in Nat
                      /\ waited'[scenes[i]] = (IF scenes[i] = Turn THEN 0 ELSE waited[scenes[i]] + 1)
                      /\ waited[scenes[i]] + 2 * (i - 1) <= Most + (IF i > 1 THEN Used ELSE 0)
  <2> SUFFICES ASSUME NEW i \in 1..n
               PROVE /\ scenes[i] \in Scenes /\ waited[scenes[i]] \in Nat
                     /\ waited'[scenes[i]] = (IF scenes[i] = Turn THEN 0 ELSE waited[scenes[i]] + 1)
                     /\ waited[scenes[i]] + 2 * (i - 1) <= Most + (IF i > 1 THEN Used ELSE 0)
    OBVIOUS
  <2>1. scenes[i] \in Scenes /\ Waiting(scenes[i])  BY <1>1 DEF Stands
  <2>2. PassedOver(scenes[i]) <=> scenes[i] # Turn  BY <2>1 DEF PassedOver
  <2>3. waited[scenes[i]] + 2 * (i - 1) <= Most + (IF i > 1 THEN Used ELSE 0)
    BY DEF WInv, PlaceAllows
  <2>4. waited'[scenes[i]] = (IF scenes[i] = Turn THEN 0 ELSE waited[scenes[i]] + 1)
    BY <1>3, <2>1, <2>2
  <2> QED  BY <1>1, <2>1, <2>3, <2>4
<1>8. \A i, j \in 1..n : scenes[i] = scenes[j] => i = j  BY <1>1 DEF EachOnce
<1>9. Used \in 0..2 /\ Used' \in 0..2
  <2>1. streak' \in Nat  BY <1>1, <1>3
  <2> QED  BY <1>1, <2>1 DEF Used
<1>10. PlaceAllows'
  <2> SUFFICES ASSUME NEW i \in 1..Len(scenes')
               PROVE waited'[scenes'[i]] + 2 * (i - 1) <= Most + (IF i > 1 THEN Used' ELSE 0)
    BY <1>6 DEF PlaceAllows
  <2>1. CASE ~Rotates /\ scenes' = scenes
    <3>1. Turn = scenes[1]  BY <1>2, <2>1, LineAfterServing
    <3>2. i \in 1..n  BY <2>1
    <3>3. CASE i = 1
      <4>1. waited'[scenes'[i]] = 0  BY <1>7, <2>1, <3>1, <3>2, <3>3
      <4> HIDE DEF n, Used
      <4> QED  BY <1>5, <1>6, <3>3, <4>1
    <3>4. CASE i > 1
      <4>1. scenes[i] # Turn  BY <1>5, <1>8, <3>1, <3>2, <3>4
      <4>2. Used' = Used + 1
        <5>1. Head(scenes) = scenes[1] /\ n > 1  BY <1>1, <3>2, <3>4
        <5>2. CASE last = Turn
          <6>1. streak < 2  BY <2>1, <3>1, <5>1, <5>2, <1>1 DEF Rotates
          <6>2. Used = streak  BY <3>1, <5>1, <5>2, <6>1, <1>1 DEF Used
          <6>3. streak' = streak + 1 /\ last' = Turn  BY <1>3, <5>2
          <6>4. Used' = streak'
            BY <2>1, <3>1, <5>1, <6>1, <6>3, <1>1 DEF Used
          <6> QED  BY <6>2, <6>3, <6>4
        <5>3. CASE last # Turn
          <6>1. Used = 0  BY <3>1, <5>1, <5>3 DEF Used
          <6>2. streak' = 1 /\ last' = Turn  BY <1>3, <5>3
          <6>3. Used' = 1  BY <2>1, <3>1, <5>1, <6>2 DEF Used
          <6> QED  BY <6>1, <6>3
        <5> QED  BY <5>2, <5>3
      <4>3. /\ waited'[scenes'[i]] = waited[scenes[i]] + 1 /\ waited[scenes[i]] \in Nat
            /\ waited[scenes[i]] + 2 * (i - 1) <= Most + Used
        BY <1>7, <2>1, <3>2, <3>4, <4>1
      <4> HIDE DEF n, Used, Most
      <4> QED  BY <1>5, <1>6, <1>9, <3>2, <3>4, <4>2, <4>3
    <3> QED  BY <3>2, <3>3, <3>4
  <2>2. CASE ~Rotates /\ scenes' # scenes
    <3>1. /\ Turn = scenes[1] /\ Len(scenes') = n - 1
          /\ \A k \in 1..(n - 1) : scenes'[k] = scenes[k + 1]
      BY <1>2, <2>2, LineAfterServing
    <3>2. i + 1 \in 1..n /\ i + 1 > 1 /\ scenes'[i] = scenes[i + 1] /\ i \in Nat \ {0}
          /\ 1 \in 1..n
      BY <1>5, <3>1
    <3>3. scenes[i + 1] # Turn
      <4>1. i + 1 # 1  BY <3>2
      <4> QED  BY <1>8, <3>1, <3>2, <4>1
    <3>4. Used \in 0..1
      <4>1. Head(scenes) = scenes[1] /\ n > 1
        <5>1. n > 1  BY <1>5, <3>2
        <5> QED  BY <1>1, <5>1
      <4> QED  BY <1>1, <2>2, <4>1 DEF Used, Rotates
    <3>5. /\ waited'[scenes'[i]] = waited[scenes[i + 1]] + 1 /\ waited[scenes[i + 1]] \in Nat
          /\ waited[scenes[i + 1]] + 2 * ((i + 1) - 1) <= Most + Used
      BY <1>7, <3>2, <3>3
    <3> HIDE DEF n, Used, Most
    <3> QED  BY <1>6, <1>9, <3>2, <3>4, <3>5, MovedUp
  <2>3. CASE Rotates
    <3>1. /\ Turn = scenes[2] /\ n > 1 /\ last = scenes[1] /\ streak >= 2
      BY <1>1, <1>2, <2>3, LineAfterServing DEF Rotates
    <3>2. Used = 2  BY <1>1, <2>3 DEF Used, Rotates
    <3>3. 1 \in 1..n /\ 2 \in 1..n /\ scenes[1] # scenes[2]
      BY <1>5, <1>8, <3>1
    <3>4. waited'[scenes[1]] = 1
      <4>1. waited[scenes[1]] = 0  BY <1>7, <3>1, <3>3 DEF WInv, RestedWaitNone
      <4>2. waited'[scenes[1]] = waited[scenes[1]] + 1  BY <1>7, <3>1, <3>3
      <4> QED  BY <4>1, <4>2
    <3>5. CASE /\ Len(scenes') = n
               /\ \A k \in 1..(n - 1) : scenes'[k] = scenes[k + 1]
               /\ scenes'[n] = scenes[1]
      <4>1. Len(scenes') > 1 /\ scenes'[1] = scenes[2] /\ scenes' \in Seq(Scenes)
        <5>1. 1 \in 1..(n - 1) /\ 1 + 1 = 2  BY <1>5, <3>1
        <5> QED  BY <1>2, <3>1, <3>5, <5>1 DEF IInv, TypeOK, QueueTypeOK
      <4>2. Used' = (IF last = Turn THEN Used' ELSE 1) /\ Used' >= 1
        <5>1. Head(scenes') = last'  BY <1>3, <3>1, <4>1
        <5>2. streak' \in Nat \ {0}  BY <1>1, <1>3
        <5>3. last # Turn => streak' = 1  BY <1>3
        <5> QED  BY <4>1, <5>1, <5>2, <5>3 DEF Used
      <4>3. CASE i = n
        <5>1. waited'[scenes'[i]] = 1  BY <3>4, <3>5, <4>3
        <5>2. n \in Nat /\ i \in Nat \ {0}  BY <1>5, <4>3
        <5> HIDE DEF n, Used, Most
        <5> QED  BY <1>6, <1>9, <3>1, <4>2, <4>3, <5>1, <5>2, WentToTheEnd
      <4>4. CASE i < n
        <5>1. i \in 1..(n - 1) /\ i + 1 \in 1..n /\ i \in Nat \ {0} /\ i + 1 > 1
          BY <1>5, <3>5, <4>4
        <5>2. scenes'[i] = scenes[i + 1]  BY <3>5, <5>1
        <5>3. CASE i = 1
          <6>1. waited'[scenes'[i]] = 0  BY <1>7, <3>1, <3>3, <5>2, <5>3
          <6> HIDE DEF n, Used, Most
          <6> QED  BY <1>5, <1>6, <5>3, <6>1
        <5>4. CASE i > 1
          <6>1. i + 1 # 2  BY <5>1, <5>4
          <6>2. scenes[i + 1] # Turn  BY <1>8, <3>1, <3>3, <5>1, <6>1
          <6>3. /\ waited'[scenes'[i]] = waited[scenes[i + 1]] + 1 /\ waited[scenes[i + 1]] \in Nat
                /\ waited[scenes[i + 1]] + 2 * ((i + 1) - 1) <= Most + Used
            BY <1>7, <5>1, <5>2, <6>2
          <6> HIDE DEF n, Used, Most
          <6> QED  BY <1>6, <1>9, <3>2, <4>2, <5>1, <5>4, <6>3
        <5> QED  BY <5>1, <5>3, <5>4
      <4> QED  BY <1>5, <3>5, <4>3, <4>4
    <3>6. CASE /\ Len(scenes') = n - 1
               /\ \A k \in 1..(n - 2) : scenes'[k] = scenes[k + 2]
               /\ scenes'[n - 1] = scenes[1]
      <4>1. CASE i = n - 1
        <5>1. waited'[scenes'[i]] = 1  BY <3>4, <3>6, <4>1
        <5>2. n \in Nat /\ i \in Nat \ {0} /\ i < n  BY <1>5, <4>1
        <5> HIDE DEF n, Used, Most
        <5> QED  BY <1>6, <1>9, <3>1, <5>1, <5>2, WentToTheEnd
      <4>2. CASE i < n - 1
        <5>1. i \in 1..(n - 2) /\ i + 2 \in 1..n /\ i \in Nat \ {0} /\ i + 2 > 1
          BY <1>5, <3>6, <4>2
        <5>2. scenes'[i] = scenes[i + 2]  BY <3>6, <5>1
        <5>3. i + 2 # 2  BY <5>1
        <5>4. scenes[i + 2] # Turn  BY <1>8, <3>1, <3>3, <5>1, <5>3
        <5>5. /\ waited'[scenes'[i]] = waited[scenes[i + 2]] + 1 /\ waited[scenes[i + 2]] \in Nat
              /\ waited[scenes[i + 2]] + 2 * ((i + 2) - 1) <= Most + Used
          BY <1>7, <5>1, <5>2, <5>4
        <5> HIDE DEF n, Used, Most
        <5> QED  BY <1>6, <1>9, <3>2, <5>1, <5>5
      <4> QED  BY <1>5, <3>6, <4>1, <4>2
    <3> QED  BY <1>2, <2>3, <3>5, <3>6, LineAfterServing
  <2> QED  BY <2>1, <2>2, <2>3
<1> QED  BY <1>2, <1>4, <1>10 DEF WInv

(* However the others fill their queues, a conversation with something     *)
(* queued is served after at most two items of each of the others: pop's   *)
(* rotation is enough, whatever the conversations and the order of calls.   *)
THEOREM WaitsAreBounded == WaitsSpec => []WaitIsBounded
<1>1. WaitsInit => WInv
  <2> SUFFICES ASSUME WaitsInit PROVE WInv  OBVIOUS
  <2>1. IInv
    BY FairQueueAssumption DEF WaitsInit, QueueInit, IInv, TypeOK, QueueTypeOK, LineIsTheWaiting,
       Waiting, AtMostTwoBeforeAPeer, OvertakenWithinStreak
  <2>2. PlaceAllows
    <3>1. Len(scenes) = 0  BY DEF WaitsInit, QueueInit
    <3> QED  BY <3>1 DEF PlaceAllows
  <2>3. RestedWaitNone  BY DEF WaitsInit, RestedWaitNone
  <2> QED  BY <2>1, <2>2, <2>3 DEF WInv
<1>2. WInv /\ [WaitsNext]_waitsVars => WInv'
  <2> SUFFICES ASSUME WInv, [WaitsNext]_waitsVars PROVE WInv'  OBVIOUS
  <2>1. CASE Serve  BY <2>1, ServeKeepsWInv
  <2>2. CASE \E s \in Scenes, item \in Items : Arrive(s, item)
    BY <2>2, ArriveKeepsWInv
  <2>3. CASE UNCHANGED waitsVars
    BY <2>3 DEF waitsVars, WInv, PlaceAllows, RestedWaitNone, Used, Most, IInv, TypeOK, QueueTypeOK,
       LineIsTheWaiting, Waiting, AtMostTwoBeforeAPeer, OvertakenWithinStreak
  <2> QED  BY <2>1, <2>2, <2>3 DEF WaitsNext
<1>3. WInv => WaitIsBounded  BY WaitFollows
<1> QED  BY <1>1, <1>2, <1>3, PTL DEF WaitsSpec

----------------------------------------------------------------------------
(* The outbox. *)

(* Her lines and the parts of the system, by what each may hold. *)
Row == [turn : Turns, index : Nat, kind : Kinds, paced : BOOLEAN,
        state : LineStates, lease : {"none", "running", "over"}]

Writer == [pc : {"writing"}, turn : Turns, parts : Nat, todo : Seq(Nat)]

OutboxTypes ==
    /\ lines \in Seq(Row) /\ Len(lines) <= MaxLines
    /\ turn \in [Turns -> {"new", "TURN", "COMMITTED", "FAILED"}]
    /\ up \in BOOLEAN
    /\ worker \in {Idle} \cup [pc : {"turn"}, turn : Turns] \cup Writer
    /\ adapter \in [1..MaxLines -> {"none", "held", "shown", "refused", "unsure"}]
    /\ arrived \in Seq(Lines) /\ doubted \subseteq Lines
    /\ left \in [Disturbances -> Nat]

Gone(i) == lines[i].state \in {"SENDING", "UNKNOWN", "DELIVERED"}
Kept(i) == lines[i].state \in {"READY", "QUEUED_EXTERNAL"}
Out(i)  == lines[i].kind = "chat" /\ lines[i].state = "SENDING" /\ lines[i].lease = "running"

Arrived(i) == \E k \in 1..Len(arrived) : arrived[k] = i

ArrivedBefore(i, j) == \E k \in 1..Len(arrived) :
    /\ arrived[k] = i
    /\ \A l \in 1..Len(arrived) : arrived[l] = j => k < l

(* A line the worker has written and not yet published: it holds the last. *)
InHand(i) == worker.pc = "writing" /\ i > Len(lines) - Len(worker.todo)

(* The parts of a turn are numbered in the order of their rows. *)
Numbered ==
    /\ \A i, j \in Lines : lines[i].turn = lines[j].turn /\ i < j => lines[i].index < lines[j].index
    /\ \A i \in Lines : lines[i].index < Cardinality(PartsOf(lines[i].turn))

HandIsTheEnd == worker.pc = "writing" =>
    /\ Len(worker.todo) <= Len(lines) /\ Len(lines) + worker.parts <= MaxLines
    /\ \A k \in 1..Len(worker.todo) : worker.todo[k] = Len(lines) - Len(worker.todo) + k
    /\ \A i \in Lines : InHand(i) => lines[i].state \in {"READY", "CANCELLED_AFTER_FAILURE"}

(* Of every line, the row, the adapter and the platform tell the same. *)
Agree == \A i \in Lines :
    /\ Kept(i) => adapter[i] = "none" /\ ~Arrived(i) /\ lines[i].lease = "none"
    /\ lines[i].state \in NeverLeft => adapter[i] \in {"none", "refused"} /\ ~Arrived(i)
    /\ lines[i].state = "DELIVERED" => Arrived(i)
    /\ lines[i].state = "SENDING" => lines[i].lease # "none"
    /\ lines[i].state = "UNKNOWN" => i \in doubted
    /\ adapter[i] \in {"held", "refused"} => ~Arrived(i)
    /\ adapter[i] = "shown" => Arrived(i)

Unwritten == \A i \in 1..MaxLines : i \notin Lines => adapter[i] = "none"

(* A part is gone only when every chat part of its turn before it settled,  *)
(* or was once unknown.                                                     *)
SettledBehind == \A i, j \in Lines :
    i < j /\ lines[i].turn = lines[j].turn /\ lines[i].kind = "chat" /\ Gone(j)
    => i \in doubted \/ lines[i].state \in Settled

(* When a chat line is gone, one written before it has arrived before it,   *)
(* will never go, or is one of the two exceptions InOrder makes.            *)
Excused(i, j) ==
    \/ i \in doubted
    \/ lines[i].lease = "over" /\ lines[i].turn # lines[j].turn
    \/ ArrivedBefore(i, j)
    \/ lines[i].state \in NeverLeft
    \/ lines[i].state = "READY" /\ ~InHand(i)

LeftInOrder == \A i, j \in Lines :
    i < j /\ lines[i].kind = "chat" /\ lines[j].kind = "chat" /\ Gone(j) => Excused(i, j)

OutInv == /\ OutboxTypes /\ Numbered /\ HandIsTheEnd /\ Agree /\ Unwritten
          /\ ShownOnce /\ OneOut /\ SettledBehind /\ LeftInOrder

LEMMA EqualDom == ASSUME NEW m \in Nat, NEW n \in Nat, 1..m = 1..n PROVE m = n
OBVIOUS

LEMMA MappedIsASeq ==
    ASSUME NEW S, NEW n \in Nat, NEW f \in [1..n -> S]
    PROVE  f \in Seq(S) /\ Len(f) = n /\ DOMAIN f = 1..n
<1>1. f \in Seq(S)  BY IsASeq
<1>2. DOMAIN f = 1..Len(f) /\ Len(f) \in Nat  BY <1>1, LenProperties
<1>3. DOMAIN f = 1..n  OBVIOUS
<1> QED  BY <1>1, <1>2, <1>3, EqualDom

(* A row with another state is a row, and says the rest as before. *)
LEMMA RowWithState ==
    ASSUME NEW row \in Row, NEW state \in LineStates
    PROVE  LET new == [row EXCEPT !.state = state]
           IN new \in Row /\ new.state = state /\ new.turn = row.turn /\ new.index = row.index
              /\ new.kind = row.kind /\ new.lease = row.lease /\ new.paced = row.paced
BY DEF Row

(* Rows of which some have another state, and say the rest as before. *)
SameButState(new, old) ==
    new.turn = old.turn /\ new.index = old.index /\ new.kind = old.kind /\ new.lease = old.lease

LEMMA SomeWithState ==
    ASSUME lines \in Seq(Row), NEW is, NEW state \in LineStates
    PROVE  LET new == WithState(is, state)
           IN /\ new \in Seq(Row) /\ Len(new) = Len(lines) /\ DOMAIN new = Lines
              /\ \A i \in Lines : SameButState(new[i], lines[i])
              /\ \A i \in Lines : new[i].state = IF i \in is THEN state ELSE lines[i].state
<1> DEFINE new == WithState(is, state)
<1>1. Len(lines) \in Nat /\ \A i \in Lines : lines[i] \in Row  BY DEF Lines
<1>2. \A i \in Lines : /\ new[i] \in Row /\ SameButState(new[i], lines[i])
                       /\ new[i].state = IF i \in is THEN state ELSE lines[i].state
  BY <1>1, RowWithState DEF WithState, SameButState
<1>3. new \in [1..Len(lines) -> Row]  BY <1>2 DEF WithState, Lines
<1>4. new \in Seq(Row) /\ Len(new) = Len(lines) /\ DOMAIN new = Lines
  BY <1>1, <1>3, MappedIsASeq DEF Lines
<1> QED  BY <1>2, <1>4

LEMMA OneWithState ==
    ASSUME NEW rows \in Seq(Row), NEW i \in 1..Len(rows), NEW state \in LineStates
    PROVE  LET new == [rows EXCEPT ![i].state = state]
           IN /\ new \in Seq(Row) /\ Len(new) = Len(rows) /\ DOMAIN new = 1..Len(rows)
              /\ \A j \in 1..Len(rows) : SameButState(new[j], rows[j])
              /\ \A j \in 1..Len(rows) : new[j].state = IF j = i THEN state ELSE rows[j].state
<1> DEFINE new == [rows EXCEPT ![i].state = state]
<1>1. Len(rows) \in Nat /\ DOMAIN rows = 1..Len(rows) /\ \A j \in 1..Len(rows) : rows[j] \in Row  OBVIOUS
<1>2. \A j \in 1..Len(rows) : /\ new[j] \in Row /\ SameButState(new[j], rows[j])
                              /\ new[j].state = IF j = i THEN state ELSE rows[j].state
  BY <1>1, RowWithState DEF SameButState
<1>3. new \in [1..Len(rows) -> Row]  BY <1>1, <1>2
<1>4. new \in Seq(Row) /\ Len(new) = Len(rows) /\ DOMAIN new = 1..Len(rows)  BY <1>1, <1>3, MappedIsASeq
<1> QED  BY <1>2, <1>4

(* PublishService.cancel_after leaves all but the states of lines on their way. *)
LEMMA CancelAfterIs ==
    ASSUME NEW rows \in Seq(Row), NEW i \in 1..Len(rows)
    PROVE  LET new == CancelAfter(i, rows)
           IN /\ new \in Seq(Row) /\ Len(new) = Len(rows)
              /\ \A j \in 1..Len(rows) : SameButState(new[j], rows[j])
              /\ \A j \in 1..Len(rows) : \/ new[j].state = rows[j].state
                                         \/ /\ rows[j].state \in {"READY", "QUEUED_EXTERNAL"}
                                            /\ new[j].state = "CANCELLED_AFTER_FAILURE"
              /\ new[i] = rows[i]
<1> DEFINE new == CancelAfter(i, rows)
           After(j) == /\ rows[j].turn = rows[i].turn /\ rows[j].index > rows[i].index
                       /\ rows[j].state \in {"READY", "QUEUED_EXTERNAL"}
<1>1. Len(rows) \in Nat /\ DOMAIN rows = 1..Len(rows) /\ \A j \in 1..Len(rows) : rows[j] \in Row  OBVIOUS
<1>2. new = [j \in 1..Len(rows) |-> IF After(j) THEN [rows[j] EXCEPT !.state = "CANCELLED_AFTER_FAILURE"] ELSE rows[j]]
  BY <1>1 DEF CancelAfter
<1>3. "CANCELLED_AFTER_FAILURE" \in LineStates  BY DEF LineStates, NeverLeft
<1>4. ASSUME NEW j \in 1..Len(rows)
      PROVE  /\ new[j] \in Row /\ SameButState(new[j], rows[j])
             /\ \/ new[j].state = rows[j].state
                \/ /\ rows[j].state \in {"READY", "QUEUED_EXTERNAL"}
                   /\ new[j].state = "CANCELLED_AFTER_FAILURE"
  <2>1. new[j] = IF After(j) THEN [rows[j] EXCEPT !.state = "CANCELLED_AFTER_FAILURE"] ELSE rows[j]
    BY <1>2
  <2>2. rows[j] \in Row  BY <1>1
  <2> HIDE DEF new
  <2> QED  BY <2>1, <2>2, <1>3, RowWithState DEF SameButState
<1>5. new \in [1..Len(rows) -> Row]  BY <1>2, <1>4
<1>6. new \in Seq(Row) /\ Len(new) = Len(rows)  BY <1>1, <1>5, MappedIsASeq
<1>7. new[i] = rows[i]
  <2>1. rows[i].index \in Nat  BY <1>1 DEF Row
  <2>2. ~After(i)  BY <2>1
  <2> QED  BY <1>2, <2>2
<1> QED  BY <1>4, <1>6, <1>7

----------------------------------------------------------------------------
LEMMA OutInit == Init => OutInv
<1> SUFFICES ASSUME Init PROVE OutInv  OBVIOUS
<1> USE DEF Init
<1>1. Lines = {}  BY DEF Lines
<1>2. OutboxTypes
  <2>1. lines \in Seq(Row) /\ Len(lines) = 0  OBVIOUS
  <2>2. arrived \in Seq(Lines)  OBVIOUS
  <2> QED  BY <2>1, <2>2, <1>1, OutboxAssumption DEF OutboxTypes, Idle
<1>3. HandIsTheEnd  BY DEF HandIsTheEnd, Idle
<1>4. ShownOnce /\ Unwritten  BY DEF ShownOnce, Unwritten
<1> QED  BY <1>1, <1>2, <1>3, <1>4 DEF OutInv, Numbered, Agree, OneOut, SettledBehind, LeftInOrder

(* A step that lets no further line leave: the rows go on as they were, or  *)
(* to where no order is asked of them.                                      *)
RowsStay == /\ Lines \subseteq Lines'
            /\ \A i \in Lines : /\ lines'[i].turn = lines[i].turn /\ lines'[i].index = lines[i].index
                                /\ lines'[i].kind = lines[i].kind

NoneLeaves ==
    /\ \A i \in Lines' : i \notin Lines => lines'[i].state = "READY" /\ i > Len(lines)
    /\ \A i \in Lines : /\ Gone(i)' => Gone(i)
                        /\ Out(i)' => Out(i)
                        /\ lines[i].lease = "over" => lines'[i].lease = "over"
                        /\ lines[i].state \in NeverLeft => lines'[i].state \in NeverLeft
                        /\ lines[i].state \in Settled => lines'[i].state \in Settled
                        /\ lines[i].state = "READY" /\ ~InHand(i)
                           => \/ lines'[i].state = "READY" /\ ~InHand(i)'
                              \/ lines'[i].state \in NeverLeft
    /\ doubted \subseteq doubted'
    /\ \A i, j \in Lines : ArrivedBefore(i, j) => ArrivedBefore(i, j)'

LEMMA OrderStays ==
    ASSUME OutInv, RowsStay, NoneLeaves, Len(lines) \in Nat, Len(lines') \in Nat
    PROVE  OneOut' /\ SettledBehind' /\ LeftInOrder'
<1>1. \A i \in Lines' : i \notin Lines => ~Gone(i)' /\ ~Out(i)'  BY DEF NoneLeaves, Gone, Out
<1>2. \A i, j \in Lines' : i < j /\ Gone(j)' => i \in Lines /\ j \in Lines
  BY <1>1 DEF NoneLeaves, Lines
<1>3. OneOut'
  <2>1. \A i, j \in Lines : Out(i) /\ Out(j) => i = j  BY DEF OutInv, OneOut, Out
  <2>2. \A i, j \in Lines' : Out(i)' /\ Out(j)' => i = j  BY <2>1, <1>1 DEF NoneLeaves
  <2> QED  BY <2>2 DEF OneOut, Out
<1>4. SettledBehind'
  <2> SUFFICES ASSUME NEW i \in Lines', NEW j \in Lines', i < j, lines'[i].turn = lines'[j].turn,
                      lines'[i].kind = "chat", Gone(j)'
               PROVE  i \in doubted' \/ lines'[i].state \in Settled
    BY DEF SettledBehind
  <2>1. i \in Lines /\ j \in Lines /\ Gone(j)  BY <1>2 DEF NoneLeaves
  <2>2. i \in doubted \/ lines[i].state \in Settled  BY <2>1 DEF OutInv, SettledBehind, RowsStay
  <2> QED  BY <2>1, <2>2 DEF NoneLeaves
<1>5. LeftInOrder'
  <2> SUFFICES ASSUME NEW i \in Lines', NEW j \in Lines', i < j,
                      lines'[i].kind = "chat", lines'[j].kind = "chat", Gone(j)'
               PROVE  Excused(i, j)'
    BY DEF LeftInOrder
  <2>1. i \in Lines /\ j \in Lines /\ Gone(j)  BY <1>2 DEF NoneLeaves
  <2>2. Excused(i, j)  BY <2>1 DEF OutInv, LeftInOrder, RowsStay
  <2>3. CASE i \in doubted  BY <2>3 DEF NoneLeaves, Excused
  <2>4. CASE lines[i].lease = "over" /\ lines[i].turn # lines[j].turn
    BY <2>1, <2>4 DEF NoneLeaves, RowsStay, Excused
  <2>5. CASE ArrivedBefore(i, j)  BY <2>1, <2>5 DEF NoneLeaves, Excused
  <2>6. CASE lines[i].state \in NeverLeft  BY <2>1, <2>6 DEF NoneLeaves, Excused
  <2>7. CASE lines[i].state = "READY" /\ ~InHand(i)  BY <2>1, <2>7 DEF NoneLeaves, Excused
  <2> QED  BY <2>2, <2>3, <2>4, <2>5, <2>6, <2>7 DEF Excused
<1> QED  BY <1>3, <1>4, <1>5

(* Only WritePart writes rows. *)
LEMMA NumbersStay ==
    ASSUME OutInv, RowsStay, Lines' = Lines
    PROVE  Numbered'
<1>1. \A i \in Lines : {j \in Lines' : lines'[j].turn = lines'[i].turn} = {j \in Lines : lines[j].turn = lines[i].turn}
  BY DEF RowsStay
<1>2. \A i \in Lines : lines[i].index < Cardinality({j \in Lines : lines[j].turn = lines[i].turn})
  BY DEF OutInv, Numbered, PartsOf
<1>3. \A i \in Lines' : lines'[i].index < Cardinality({j \in Lines' : lines'[j].turn = lines'[i].turn})
  <2> SUFFICES ASSUME NEW i \in Lines'
               PROVE  lines'[i].index < Cardinality({j \in Lines' : lines'[j].turn = lines'[i].turn})
    OBVIOUS
  <2>1. lines'[i].index = lines[i].index  BY DEF RowsStay
  <2> QED  BY <1>1, <1>2, <2>1
<1>4. \A i, j \in Lines' : lines'[i].turn = lines'[j].turn /\ i < j => lines'[i].index < lines'[j].index
  BY DEF OutInv, Numbered, RowsStay
<1> QED  BY <1>3, <1>4 DEF Numbered, PartsOf

LEMMA Lengths ==
    ASSUME OutInv
    PROVE  /\ Len(lines) \in Nat /\ MaxLines \in Nat /\ Len(lines) <= MaxLines
           /\ \A i \in Lines : lines[i] \in Row /\ i \in Nat /\ i \in 1..MaxLines
           /\ Len(arrived) \in Nat /\ \A k \in 1..Len(arrived) : arrived[k] \in Lines
BY OutboxAssumption DEF OutInv, OutboxTypes, Lines

(* What OutInv asks of a step that writes no row. *)
LEMMA Assembled ==
    ASSUME OutInv, RowsStay, NoneLeaves, OutboxTypes', Lines' = Lines,
           HandIsTheEnd', Agree', Unwritten', ShownOnce'
    PROVE  OutInv'
<1>1. Len(lines) \in Nat /\ Len(lines') \in Nat  BY DEF OutInv, OutboxTypes
<1>2. Numbered'  BY NumbersStay
<1>3. OneOut' /\ SettledBehind' /\ LeftInOrder'  BY <1>1, OrderStays
<1> QED  BY <1>2, <1>3 DEF OutInv

(* ... of a step of the worker that leaves the lines alone. *)
LEMMA WorkerMoves ==
    ASSUME OutInv, UNCHANGED <<lines, adapter, arrived, doubted>>, OutboxTypes',
           HandIsTheEnd', \A i \in Lines : InHand(i)' => InHand(i)
    PROVE  OutInv'
<1>1. Lines' = Lines /\ RowsStay  BY DEF Lines, RowsStay
<1>2. \A i : Arrived(i)' = Arrived(i)  BY DEF Arrived
<1>3. \A i, j : ArrivedBefore(i, j)' = ArrivedBefore(i, j)  BY DEF ArrivedBefore
<1>4. NoneLeaves  BY <1>1, <1>3 DEF NoneLeaves, Gone, Out
<1>5. Agree'  BY <1>1, <1>2 DEF OutInv, Agree, Kept
<1>6. Unwritten' /\ ShownOnce'  BY <1>1 DEF OutInv, Unwritten, ShownOnce
<1> QED  BY <1>1, <1>4, <1>5, <1>6, Assembled

LEMMA TurnsMove ==
    ASSUME OutInv, NEW t \in Turns, NEW state \in {"TURN", "COMMITTED", "FAILED"}
    PROVE  [turn EXCEPT ![t] = state] \in [Turns -> {"new", "TURN", "COMMITTED", "FAILED"}]
BY DEF OutInv, OutboxTypes

LEMMA SpendIs ==
    ASSUME OutInv, NEW kind \in Disturbances, Spend(kind)
    PROVE  left' \in [Disturbances -> Nat]
BY DEF OutInv, OutboxTypes, Spend

LEMMA WorkerIs ==
    ASSUME OutInv
    PROVE  /\ worker.pc = "turn" => worker.turn \in Turns
           /\ worker.pc = "writing" => worker \in Writer
BY DEF OutInv, OutboxTypes, Idle, Writer

LEMMA BeginTurnKeeps ==
    ASSUME OutInv, NEW t \in Turns, BeginTurn(t)
    PROVE  OutInv'
<1>1. OutboxTypes'
  <2>1. turn' \in [Turns -> {"new", "TURN", "COMMITTED", "FAILED"}]  BY TurnsMove DEF BeginTurn
  <2>2. worker' \in [pc : {"turn"}, turn : Turns]  BY DEF BeginTurn
  <2> QED  BY <2>1, <2>2 DEF BeginTurn, OutInv, OutboxTypes, Lines
<1>2. worker'.pc = "turn"  BY DEF BeginTurn
<1>3. HandIsTheEnd' /\ \A i \in Lines : ~InHand(i)'  BY <1>2 DEF HandIsTheEnd, InHand
<1> QED  BY <1>1, <1>3, WorkerMoves DEF BeginTurn

LEMMA ReplyKeeps ==
    ASSUME OutInv, NEW parts \in Nat, Reply(parts)
    PROVE  OutInv'
<1>1. worker' = [pc |-> "writing", turn |-> worker.turn, parts |-> parts, todo |-> <<>>]  BY DEF Reply
<1>2. worker' \in Writer  BY <1>1, WorkerIs DEF Writer, Reply
<1>3. OutboxTypes'  BY <1>2 DEF Reply, OutInv, OutboxTypes, Lines
<1>4. worker'.pc = "writing" /\ worker'.todo = <<>> /\ Len(worker'.todo) = 0  BY <1>1
<1>5. Len(lines) \in Nat /\ lines' = lines  BY Lengths DEF Reply
<1>6. \A i \in Lines' : ~InHand(i)'  BY <1>4, <1>5 DEF InHand, Lines
<1>7. HandIsTheEnd'
  <2>1. Len(lines') + worker'.parts <= MaxLines  BY <1>1, <1>5 DEF Reply
  <2> QED  BY <1>4, <1>5, <1>6, <2>1 DEF HandIsTheEnd
<1> QED  BY <1>3, <1>6, <1>7, WorkerMoves DEF Reply, Lines

LEMMA IdleKeeps ==
    ASSUME OutInv, worker' = Idle, UNCHANGED <<lines, adapter, arrived, doubted>>,
           turn' \in [Turns -> {"new", "TURN", "COMMITTED", "FAILED"}], up' \in BOOLEAN,
           left' \in [Disturbances -> Nat]
    PROVE  OutInv'
<1>1. OutboxTypes'  BY DEF OutInv, OutboxTypes, Lines
<1>2. worker'.pc = "idle"  BY DEF Idle
<1>3. HandIsTheEnd' /\ \A i \in Lines : ~InHand(i)'  BY <1>2 DEF HandIsTheEnd, InHand
<1> QED  BY <1>1, <1>3, WorkerMoves

LEMMA DenyPartKeeps == ASSUME OutInv, DenyPart PROVE OutInv'
<1>1. worker.turn \in Turns  BY WorkerIs DEF DenyPart, Writer
<1>2. worker' = [pc |-> "turn", turn |-> worker.turn]  BY DEF DenyPart
<1>3. left' \in [Disturbances -> Nat]  BY SpendIs DEF DenyPart, Disturbances
<1>4. OutboxTypes'  BY <1>1, <1>2, <1>3 DEF DenyPart, OutInv, OutboxTypes, Lines
<1>5. worker'.pc = "turn"  BY <1>2
<1>6. HandIsTheEnd' /\ \A i \in Lines : ~InHand(i)'  BY <1>5 DEF HandIsTheEnd, InHand
<1> QED  BY <1>4, <1>6, WorkerMoves DEF DenyPart

LEMMA EndTurnKeeps ==
    ASSUME OutInv, NEW outcome \in {"COMMITTED", "FAILED"}, EndTurn(outcome)
    PROVE  OutInv'
<1>1. worker.turn \in Turns  BY WorkerIs DEF EndTurn
<1>2. turn' \in [Turns -> {"new", "TURN", "COMMITTED", "FAILED"}]  BY <1>1, TurnsMove DEF EndTurn
<1>3. left' \in [Disturbances -> Nat]
  <2>1. CASE outcome = "FAILED"  BY <2>1, SpendIs DEF EndTurn, Disturbances
  <2>2. CASE outcome # "FAILED"  BY <2>2 DEF EndTurn, OutInv, OutboxTypes
  <2> QED  BY <2>1, <2>2
<1> QED  BY <1>2, <1>3, IdleKeeps DEF EndTurn, OutInv, OutboxTypes

LEMMA CrashKeeps == ASSUME OutInv, Crash PROVE OutInv'
<1>1. left' \in [Disturbances -> Nat]  BY SpendIs DEF Crash, Disturbances
<1> QED  BY <1>1, IdleKeeps DEF Crash, OutInv, OutboxTypes

LEMMA WritePartKeeps == ASSUME OutInv, WritePart PROVE OutInv'
<1> DEFINE n == Len(lines)
           t == worker.turn
           index == Cardinality(PartsOf(t))
           row == [turn |-> t, index |-> index, kind |-> IF index \in FileParts THEN "file" ELSE "chat",
                   paced |-> index > 0, state |-> "READY", lease |-> "none"]
<1>1. worker \in Writer /\ worker.pc = "writing" /\ worker.parts \in Nat \ {0} /\ t \in Turns
  BY WorkerIs DEF WritePart, Writer
<1>2. n \in Nat /\ n < MaxLines /\ \A i \in Lines : lines[i] \in Row /\ i \in Nat
  <2>1. n + worker.parts <= MaxLines  BY <1>1 DEF OutInv, HandIsTheEnd
  <2>2. n \in Nat /\ MaxLines \in Nat /\ worker.parts \in Nat /\ worker.parts # 0  BY <1>1, Lengths
  <2>3. n < MaxLines  BY <2>1, <2>2
  <2>4. \A i \in Lines : lines[i] \in Row /\ i \in Nat  BY Lengths
  <2> QED  BY <2>2, <2>3, <2>4
<1>3. IsFiniteSet(PartsOf(t)) /\ index \in Nat
  <2>1. IsFiniteSet(Lines)  BY <1>2, FS_Interval DEF Lines
  <2>2. PartsOf(t) \in SUBSET Lines  BY DEF PartsOf
  <2> QED  BY <2>1, <2>2, FS_Subset, FS_CardinalityType
<1>4. row \in Row
  BY <1>1, <1>3 DEF Row, Kinds, LineStates, OnItsWay
<1> HIDE DEF row, index
<1>5. lines' = Append(lines, row)  BY DEF WritePart, row, index
<1>6. /\ lines' \in Seq(Row) /\ Len(lines') = n + 1
      /\ \A i \in Lines : lines'[i] = lines[i]
      /\ lines'[n + 1] = row
  BY <1>4, <1>5, AppendProperties DEF OutInv, OutboxTypes, Lines
<1>7. Lines' = Lines \cup {n + 1} /\ n + 1 \notin Lines /\ \A i \in Lines : i < n + 1
  BY <1>2, <1>6 DEF Lines
<1>8. RowsStay  BY <1>6, <1>7 DEF RowsStay
<1>9. /\ worker' \in Writer /\ worker'.pc = "writing" /\ worker'.todo = Append(worker.todo, n + 1)
      /\ worker'.parts = worker.parts - 1
  <2>1. worker' = [worker EXCEPT !.parts = @ - 1, !.todo = Append(@, n + 1)]  BY DEF WritePart
  <2>2. Append(worker.todo, n + 1) \in Seq(Nat)  BY <1>1, <1>2, AppendProperties DEF Writer
  <2>3. PICK u \in Turns, p \in Nat, todo \in Seq(Nat) :
           worker = [pc |-> "writing", turn |-> u, parts |-> p, todo |-> todo]
    BY <1>1 DEF Writer
  <2> HIDE DEF t, n
  <2>4. worker' = [pc |-> "writing", turn |-> u, parts |-> p - 1, todo |-> Append(todo, n + 1)]
    BY <2>1, <2>3
  <2>5. p = worker.parts /\ todo = worker.todo  BY <2>3
  <2>6. p - 1 \in Nat  BY <1>1, <2>5
  <2> QED  BY <2>2, <2>4, <2>5, <2>6 DEF Writer
<1>10. /\ worker.todo \in Seq(Nat) /\ Len(worker.todo) \in Nat
       /\ Len(worker'.todo) = Len(worker.todo) + 1
       /\ \A k \in 1..Len(worker.todo) : worker'.todo[k] = worker.todo[k]
       /\ worker'.todo[Len(worker.todo) + 1] = n + 1
  BY <1>1, <1>2, <1>9, AppendProperties DEF Writer
<1>11. \A i \in Lines : InHand(i)' <=> InHand(i)
  <2>1. Len(lines') - Len(worker'.todo) = Len(lines) - Len(worker.todo)  BY <1>2, <1>6, <1>10
  <2> QED  BY <1>1, <1>9, <2>1 DEF InHand
<1>12. \A i : Arrived(i)' = Arrived(i) /\ \A j : ArrivedBefore(i, j)' = ArrivedBefore(i, j)
  BY DEF WritePart, Arrived, ArrivedBefore
<1>13. OutboxTypes'
  <2>1. arrived' \in Seq(Lines')
    <3>1. arrived \in Seq(Lines) /\ Lines \subseteq Lines'  BY <1>7 DEF OutInv, OutboxTypes
    <3>2. \A k \in 1..Len(arrived) : arrived[k] \in Lines'  BY <3>1
    <3>3. arrived \in [1..Len(arrived) -> Lines'] /\ Len(arrived) \in Nat  BY <3>1, <3>2
    <3> QED  BY <3>3, IsASeq DEF WritePart
  <2>2. doubted' \subseteq Lines'  BY <1>7 DEF WritePart, OutInv, OutboxTypes
  <2>3. lines' \in Seq(Row) /\ Len(lines') <= MaxLines  BY <1>2, <1>6, Lengths
  <2> QED  BY <1>9, <2>1, <2>2, <2>3 DEF WritePart, OutInv, OutboxTypes
<1>14. row.turn = t /\ row.index = index /\ row.state = "READY" /\ row.lease = "none"  BY DEF row
<1>15. Numbered'
  <2>1. \A i \in Lines : lines[i].turn = t => lines[i].index < index
    BY DEF OutInv, Numbered, index
  <2>2. \A i, j \in Lines' : lines'[i].turn = lines'[j].turn /\ i < j => lines'[i].index < lines'[j].index
    <3> SUFFICES ASSUME NEW i \in Lines', NEW j \in Lines', lines'[i].turn = lines'[j].turn, i < j
                 PROVE  lines'[i].index < lines'[j].index
      OBVIOUS
    <3>1. i \in Lines  BY <1>2, <1>7
    <3>2. CASE j \in Lines  BY <1>6, <3>1, <3>2 DEF OutInv, Numbered
    <3>3. CASE j = n + 1
      <4>1. lines[i].turn = t /\ lines'[j].index = index  BY <1>6, <1>14, <3>1, <3>3
      <4> QED  BY <1>6, <2>1, <3>1, <4>1
    <3> QED  BY <1>7, <3>2, <3>3
  <2> DEFINE Of(u) == {j \in Lines : lines[j].turn = u}
             OfNew(u) == {j \in Lines' : lines'[j].turn = u}
  <2>3. ASSUME NEW i \in Lines', lines'[i].turn # t PROVE lines'[i].index < Cardinality(OfNew(lines'[i].turn))
    <3>1. i \in Lines /\ lines'[i] = lines[i]  BY <1>6, <1>7, <1>14, <2>3
    <3>2. OfNew(lines[i].turn) = Of(lines[i].turn)  BY <1>6, <1>7, <1>14, <2>3, <3>1
    <3>3. lines[i].index < Cardinality(Of(lines[i].turn))  BY <3>1 DEF OutInv, Numbered, PartsOf
    <3> QED  BY <3>1, <3>2, <3>3
  <2>4. Cardinality(OfNew(t)) = index + 1
    <3>1. OfNew(t) = PartsOf(t) \cup {n + 1} /\ n + 1 \notin PartsOf(t)  BY <1>6, <1>7, <1>14 DEF PartsOf
    <3>2. Cardinality(PartsOf(t) \cup {n + 1}) = Cardinality(PartsOf(t)) + 1  BY <1>3, <3>1, FS_AddElement
    <3> QED  BY <3>1, <3>2 DEF index
  <2>5. ASSUME NEW i \in Lines', lines'[i].turn = t PROVE lines'[i].index < Cardinality(OfNew(lines'[i].turn))
    <3>1. lines'[i].index <= index /\ lines'[i].index \in Nat
      BY <1>2, <1>3, <1>6, <1>7, <1>14, <2>1, <2>5 DEF Row
    <3>2. Cardinality(OfNew(lines'[i].turn)) = index + 1  BY <2>4, <2>5
    <3> QED  BY <1>3, <3>1, <3>2
  <2> QED  BY <2>2, <2>3, <2>5 DEF Numbered, PartsOf
<1>16. HandIsTheEnd'
  <2>1. Len(worker'.todo) <= Len(lines') /\ Len(lines') + worker'.parts <= MaxLines
    BY <1>1, <1>2, <1>6, <1>9, <1>10, OutboxAssumption DEF OutInv, HandIsTheEnd
  <2>2. \A k \in 1..Len(worker'.todo) : worker'.todo[k] = Len(lines') - Len(worker'.todo) + k
    <3> SUFFICES ASSUME NEW k \in 1..(Len(worker.todo) + 1)
                 PROVE  worker'.todo[k] = n - Len(worker.todo) + k
      <4>1. Len(worker'.todo) = Len(worker.todo) + 1  BY <1>10
      <4>2. Len(lines') - Len(worker'.todo) = n - Len(worker.todo)  BY <1>2, <1>6, <1>10
      <4> QED  BY <4>1, <4>2
    <3>1. CASE k \in 1..Len(worker.todo)  BY <1>1, <1>10, <3>1 DEF OutInv, HandIsTheEnd
    <3>2. CASE k = Len(worker.todo) + 1  BY <1>2, <1>10, <3>2
    <3>3. Len(worker.todo) \in Nat  BY <1>10
    <3>4. k \in 1..Len(worker.todo) \/ k = Len(worker.todo) + 1  BY <3>3
    <3> QED  BY <3>1, <3>2, <3>4
  <2>3. \A i \in Lines' : InHand(i)' => lines'[i].state \in {"READY", "CANCELLED_AFTER_FAILURE"}
    BY <1>1, <1>6, <1>7, <1>11, <1>14 DEF OutInv, HandIsTheEnd
  <2> QED  BY <2>1, <2>2, <2>3 DEF HandIsTheEnd
<1>17. adapter[n + 1] = "none" /\ adapter' = adapter /\ doubted' = doubted
  <2>1. n + 1 \in 1..MaxLines  BY <1>2, Lengths
  <2> QED  BY <1>7, <2>1 DEF OutInv, Unwritten, WritePart
<1>18. ~Arrived(n + 1)  BY <1>7, Lengths DEF Arrived
<1>19. Agree'
  <2>1. \A i \in Lines : Kept(i)' = Kept(i)  BY <1>6 DEF Kept
  <2>2. "READY" \notin NeverLeft  BY DEF NeverLeft
  <2> SUFFICES ASSUME NEW i \in Lines'
               PROVE  /\ Kept(i)' => adapter'[i] = "none" /\ ~Arrived(i)' /\ lines'[i].lease = "none"
                      /\ lines'[i].state \in NeverLeft => adapter'[i] \in {"none", "refused"} /\ ~Arrived(i)'
                      /\ lines'[i].state = "DELIVERED" => Arrived(i)'
                      /\ lines'[i].state = "SENDING" => lines'[i].lease # "none"
                      /\ lines'[i].state = "UNKNOWN" => i \in doubted'
                      /\ adapter'[i] \in {"held", "refused"} => ~Arrived(i)'
                      /\ adapter'[i] = "shown" => Arrived(i)'
    BY DEF Agree
  <2>3. CASE i \in Lines  BY <1>6, <1>12, <1>17, <2>1, <2>3 DEF OutInv, Agree
  <2>4. CASE i = n + 1  BY <1>6, <1>12, <1>14, <1>17, <1>18, <2>2, <2>4
  <2> QED  BY <1>7, <2>3, <2>4
<1>20. Unwritten' /\ ShownOnce'  BY <1>7, <1>17 DEF OutInv, Unwritten, ShownOnce, WritePart
<1>21. NoneLeaves
  BY <1>2, <1>6, <1>7, <1>11, <1>12, <1>14, <1>17 DEF NoneLeaves, Gone, Out
<1>22. OneOut' /\ SettledBehind' /\ LeftInOrder'  BY <1>2, <1>6, <1>8, <1>21, OrderStays
<1> QED  BY <1>13, <1>15, <1>16, <1>19, <1>20, <1>22 DEF OutInv

(* A line the worker publishes is the first it holds, and was never offered. *)
LEMMA HeadInHand ==
    ASSUME OutInv, worker.pc = "writing", worker.todo # <<>>
    PROVE  LET i == Head(worker.todo)
           IN /\ i \in Lines /\ InHand(i) /\ lines[i].state \in {"READY", "CANCELLED_AFTER_FAILURE"}
              /\ Tail(worker.todo) \in Seq(Nat) /\ Len(Tail(worker.todo)) = Len(worker.todo) - 1
              /\ i = Len(lines) - Len(worker.todo) + 1 /\ Len(worker.todo) \in Nat \ {0}
              /\ \A k \in 1..(Len(worker.todo) - 1) : Tail(worker.todo)[k] = worker.todo[k + 1]
<1> DEFINE todo == worker.todo
           i == Head(todo)
<1>1. todo \in Seq(Nat)  BY WorkerIs DEF Writer
<1>2. /\ Tail(todo) \in Seq(Nat) /\ Len(Tail(todo)) = Len(todo) - 1
      /\ \A k \in 1..Len(Tail(todo)) : Tail(todo)[k] = todo[k + 1]
  BY <1>1, HeadTailProperties
<1>3. Len(todo) \in Nat \ {0} /\ i = todo[1]  BY <1>1, EmptySeq, LenProperties
<1>4. Len(todo) <= Len(lines) /\ todo[1] = Len(lines) - Len(todo) + 1
  <2>1. /\ Len(worker.todo) <= Len(lines)
        /\ \A k \in 1..Len(worker.todo) : worker.todo[k] = Len(lines) - Len(worker.todo) + k
    BY DEF OutInv, HandIsTheEnd
  <2>2. 1 \in 1..Len(todo)  BY <1>3
  <2> QED  BY <2>1, <2>2
<1>5. i \in Lines /\ InHand(i)
  <2>1. i \in 1..Len(lines) /\ i > Len(lines) - Len(todo)
    <3> HIDE DEF i, todo
    <3> QED  BY <1>3, <1>4, Lengths
  <2> QED  BY <2>1 DEF Lines, InHand
<1>6. lines[i].state \in {"READY", "CANCELLED_AFTER_FAILURE"}  BY <1>5 DEF OutInv, HandIsTheEnd
<1> QED  BY <1>2, <1>3, <1>4, <1>5, <1>6

LEMMA PublishPartKeeps == ASSUME OutInv, PublishPart PROVE OutInv'
<1>1. CASE worker.todo = <<>>
  <2>1. worker' = [pc |-> "turn", turn |-> worker.turn] /\ UNCHANGED <<lines, adapter, arrived, doubted>>
    BY <1>1 DEF PublishPart
  <2>2. worker' \in [pc : {"turn"}, turn : Turns] /\ worker'.pc = "turn"
    BY <2>1, WorkerIs DEF PublishPart, Writer
  <2>3. OutboxTypes'  BY <2>1, <2>2 DEF PublishPart, OutInv, OutboxTypes, Lines
  <2>4. HandIsTheEnd' /\ \A i \in Lines : ~InHand(i)'  BY <2>2 DEF HandIsTheEnd, InHand
  <2> QED  BY <2>1, <2>3, <2>4, WorkerMoves
<1>2. CASE worker.todo # <<>>
  <2> DEFINE i == Head(worker.todo)
             todo == Tail(worker.todo)
  <2>1. /\ worker.pc = "writing" /\ worker' = [worker EXCEPT !.todo = todo]
        /\ lines' = IF lines[i].state = "READY" THEN [lines EXCEPT ![i].state = "QUEUED_EXTERNAL"] ELSE lines
        /\ UNCHANGED <<turn, up, adapter, arrived, doubted, left>>
    BY <1>2 DEF PublishPart
  <2>2. /\ i \in Lines /\ InHand(i) /\ lines[i].state \in {"READY", "CANCELLED_AFTER_FAILURE"}
        /\ todo \in Seq(Nat) /\ Len(todo) = Len(worker.todo) - 1
        /\ i = Len(lines) - Len(worker.todo) + 1 /\ Len(worker.todo) \in Nat \ {0}
        /\ \A k \in 1..(Len(worker.todo) - 1) : todo[k] = worker.todo[k + 1]
    BY <1>2, <2>1, HeadInHand
  <2> HIDE DEF i, todo
  <2>3. worker' \in Writer /\ worker'.pc = "writing" /\ worker'.todo = todo /\ worker'.parts = worker.parts
    BY <2>1, <2>2, WorkerIs DEF Writer
  <2>4. /\ lines' \in Seq(Row) /\ Len(lines') = Len(lines)
        /\ \A j \in Lines : SameButState(lines'[j], lines[j])
        /\ \A j \in Lines : lines'[j].state = IF j = i /\ lines[i].state = "READY" THEN "QUEUED_EXTERNAL" ELSE lines[j].state
    <3>1. lines \in Seq(Row) /\ "QUEUED_EXTERNAL" \in LineStates  BY DEF OutInv, OutboxTypes, LineStates, OnItsWay
    <3>2. CASE lines[i].state = "READY"
      <4>1. lines' = [lines EXCEPT ![i].state = "QUEUED_EXTERNAL"] /\ i \in 1..Len(lines)
        BY <2>1, <2>2, <3>2 DEF Lines
      <4> QED  BY <3>1, <3>2, <4>1, OneWithState DEF Lines
    <3>3. CASE lines[i].state # "READY"  BY <2>1, <2>2, <3>1, <3>3 DEF Lines, SameButState
    <3> QED  BY <3>2, <3>3
  <2>5. Lines' = Lines /\ RowsStay  BY <2>4 DEF Lines, RowsStay, SameButState
  <2>6. \A j \in Lines : InHand(j)' <=> InHand(j) /\ j # i
    <3>1. \A j \in Lines : j > Len(lines') - Len(worker'.todo) <=> j > Len(lines) - Len(worker.todo) /\ j # i
      <4>1. Len(worker'.todo) = Len(worker.todo) - 1 /\ Len(lines') = Len(lines)  BY <2>2, <2>3, <2>4
      <4>2. i = Len(lines) - Len(worker.todo) + 1 /\ Len(worker.todo) \in Nat  BY <2>2
      <4>3. Len(lines) \in Nat /\ \A j \in Lines : j \in Nat  BY Lengths
      <4>4. Len(lines') - Len(worker'.todo) = i  BY <4>1, <4>2, <4>3
      <4>5. Len(lines) - Len(worker.todo) = i - 1 /\ i \in Nat
        <5>1. i \in Nat  BY <2>2, <4>3
        <5> QED  BY <4>2, <4>3, <5>1
      <4> QED  BY <4>3, <4>4, <4>5
    <3> QED  BY <2>1, <2>3, <3>1 DEF InHand
  <2>7. \A j : Arrived(j)' = Arrived(j) /\ \A k : ArrivedBefore(j, k)' = ArrivedBefore(j, k)
    BY <2>1 DEF Arrived, ArrivedBefore
  <2>8. OutboxTypes'  BY <2>1, <2>3, <2>4, <2>5 DEF OutInv, OutboxTypes
  <2>9. HandIsTheEnd'
    <3>1. Len(worker'.todo) <= Len(lines') /\ Len(lines') + worker'.parts <= MaxLines
      BY <2>1, <2>2, <2>3, <2>4, Lengths DEF OutInv, HandIsTheEnd
    <3>2. \A k \in 1..Len(worker'.todo) : worker'.todo[k] = Len(lines') - Len(worker'.todo) + k
      <4> SUFFICES ASSUME NEW k \in 1..(Len(worker.todo) - 1)
                   PROVE  worker.todo[k + 1] = Len(lines) - (Len(worker.todo) - 1) + k
        BY <2>2, <2>3, <2>4
      <4>1. k + 1 \in 1..Len(worker.todo)  BY <2>2
      <4>2. worker.todo[k + 1] = Len(lines) - Len(worker.todo) + (k + 1)  BY <2>1, <4>1 DEF OutInv, HandIsTheEnd
      <4> QED  BY <2>2, <4>2, Lengths
    <3>3. \A j \in Lines' : InHand(j)' => lines'[j].state \in {"READY", "CANCELLED_AFTER_FAILURE"}
      BY <2>1, <2>4, <2>5, <2>6 DEF OutInv, HandIsTheEnd
    <3> QED  BY <3>1, <3>2, <3>3 DEF HandIsTheEnd
  <2>10. Agree'
    <3>1. \A j \in Lines : Kept(j)' => Kept(j)  BY <2>4 DEF Kept
    <3>2. "QUEUED_EXTERNAL" \notin NeverLeft  BY DEF NeverLeft
    <3> QED  BY <2>1, <2>4, <2>5, <2>7, <3>1, <3>2 DEF OutInv, Agree, SameButState
  <2>11. Unwritten' /\ ShownOnce'  BY <2>1, <2>5 DEF OutInv, Unwritten, ShownOnce
  <2>12. NoneLeaves
    <3>1. "READY" \notin NeverLeft /\ "READY" \notin Settled  BY DEF NeverLeft, Settled
    <3>2. \A j \in Lines : /\ Gone(j)' => Gone(j)
                           /\ Out(j)' => Out(j)
                           /\ lines[j].lease = "over" => lines'[j].lease = "over"
      BY <2>4 DEF Gone, Out, SameButState
    <3>3. \A j \in Lines : lines[j].state # "READY" => lines'[j].state = lines[j].state
      BY <2>2, <2>4
    <3>4. \A j \in Lines : lines[j].state = "READY" /\ ~InHand(j) => lines'[j].state = "READY" /\ ~InHand(j)'
      BY <2>2, <2>4, <2>6
    <3> QED  BY <2>1, <2>5, <2>7, <3>1, <3>2, <3>3, <3>4 DEF NoneLeaves
  <2> QED  BY <2>5, <2>8, <2>9, <2>10, <2>11, <2>12, Assembled
<1> QED  BY <1>1, <1>2

----------------------------------------------------------------------------
(* Steps that leave the worker alone. *)
LEMMA HandStays ==
    ASSUME OutInv, worker' = worker, Len(lines') = Len(lines),
           \A i \in Lines : InHand(i) /\ lines[i].state \in {"READY", "CANCELLED_AFTER_FAILURE"}
                            => lines'[i].state \in {"READY", "CANCELLED_AFTER_FAILURE"}
    PROVE  HandIsTheEnd' /\ \A i : InHand(i)' <=> InHand(i)
<1>1. Lines' = Lines /\ \A i : InHand(i)' <=> InHand(i)  BY DEF Lines, InHand
<1> QED  BY <1>1 DEF OutInv, HandIsTheEnd

LEMMA RowsStayIf ==
    ASSUME Len(lines') = Len(lines), \A i \in Lines : SameButState(lines'[i], lines[i])
    PROVE  RowsStay /\ Lines' = Lines
BY DEF RowsStay, SameButState, Lines

LEMMA PlatformStays ==
    ASSUME OutInv, arrived' = arrived, Lines' = Lines
    PROVE  /\ ShownOnce'
           /\ \A i : Arrived(i)' = Arrived(i)
           /\ \A i, j : ArrivedBefore(i, j)' = ArrivedBefore(i, j)
BY DEF OutInv, ShownOnce, Arrived, ArrivedBefore

LEMMA TakeBackKeeps ==
    ASSUME OutInv, NEW i \in Lines, TakeBack(i)
    PROVE  OutInv'
<1>1. /\ worker.pc = "turn" /\ lines[i].state \in {"READY", "QUEUED_EXTERNAL"}
      /\ UNCHANGED <<turn, up, worker, adapter, arrived, doubted>>
  BY DEF TakeBack
<1>2. /\ lines' \in Seq(Row) /\ Len(lines') = Len(lines)
      /\ \A j \in Lines : SameButState(lines'[j], lines[j])
      /\ \A j \in Lines : lines'[j].state = IF j = i THEN "CANCELLED_BY_HER" ELSE lines[j].state
  <2>1. lines' = [lines EXCEPT ![i].state = "CANCELLED_BY_HER"]  BY DEF TakeBack
  <2>2. "CANCELLED_BY_HER" \in LineStates  BY DEF LineStates, Settled
  <2> QED  BY <2>1, <2>2, OneWithState DEF OutInv, OutboxTypes, Lines
<1>3. RowsStay /\ Lines' = Lines  BY <1>2, RowsStayIf
<1>4. HandIsTheEnd' /\ \A j : InHand(j)' <=> InHand(j)  BY <1>1, <1>2, HandStays DEF InHand
<1>5. ShownOnce' /\ \A j : Arrived(j)' = Arrived(j) /\ \A k : ArrivedBefore(j, k)' = ArrivedBefore(j, k)
  BY <1>1, <1>3, PlatformStays
<1>6. left' \in [Disturbances -> Nat]  BY SpendIs DEF TakeBack, Disturbances
<1>7. OutboxTypes'  BY <1>1, <1>2, <1>3, <1>6 DEF OutInv, OutboxTypes
<1>8. Agree'
  <2>1. \A j \in Lines : Kept(j)' => Kept(j)  BY <1>2 DEF Kept
  <2>2. Kept(i)  BY <1>1 DEF Kept
  <2> QED  BY <1>1, <1>2, <1>3, <1>5, <2>1, <2>2 DEF OutInv, Agree, SameButState
<1>9. Unwritten'  BY <1>1, <1>3 DEF OutInv, Unwritten
<1>10. NoneLeaves
  BY <1>1, <1>2, <1>3, <1>4, <1>5 DEF NoneLeaves, Gone, Out, SameButState, NeverLeft, Settled
<1> QED  BY <1>3, <1>4, <1>5, <1>7, <1>8, <1>9, <1>10, Assembled

LEMMA TimePassesKeeps ==
    ASSUME OutInv, NEW i \in Lines, TimePasses(i)
    PROVE  OutInv'
<1>1. UNCHANGED <<turn, up, worker, adapter, arrived, doubted, left>>  BY DEF TimePasses
<1>2. /\ lines' \in Seq(Row) /\ Len(lines') = Len(lines)
      /\ \A j \in Lines : /\ lines'[j].turn = lines[j].turn /\ lines'[j].index = lines[j].index
                          /\ lines'[j].kind = lines[j].kind /\ lines'[j].state = lines[j].state
                          /\ \/ lines'[j].lease = lines[j].lease
                             \/ lines[j].state = "SENDING" /\ lines'[j].lease = "over"
  <2> DEFINE paceOver == [lines[i] EXCEPT !.paced = FALSE]
             leaseOver == [lines[i] EXCEPT !.lease = "over"]
  <2>1. lines[i] \in Row /\ lines \in Seq(Row) /\ DOMAIN lines = Lines /\ Len(lines) \in Nat
    BY Lengths DEF OutInv, OutboxTypes, Lines
  <2>2. \A j \in Lines : lines[j] \in Row  BY Lengths
  <2>3. paceOver \in Row /\ leaseOver \in Row  BY <2>1 DEF Row
  <2>4. \/ lines' = [lines EXCEPT ![i] = paceOver]
        \/ lines[i].state = "SENDING" /\ lines' = [lines EXCEPT ![i] = leaseOver]
    BY DEF TimePasses
  <2>5. lines' \in [1..Len(lines) -> Row]  BY <2>1, <2>2, <2>3, <2>4 DEF Lines
  <2>6. lines' \in Seq(Row) /\ Len(lines') = Len(lines)  BY <2>1, <2>5, MappedIsASeq
  <2>7. \A j \in Lines : j # i => lines'[j] = lines[j]  BY <2>1, <2>4
  <2>8. \/ lines'[i] = paceOver
        \/ lines[i].state = "SENDING" /\ lines'[i] = leaseOver
    BY <2>1, <2>4
  <2>9. /\ paceOver.turn = lines[i].turn /\ paceOver.index = lines[i].index /\ paceOver.kind = lines[i].kind
        /\ paceOver.state = lines[i].state /\ paceOver.lease = lines[i].lease
        /\ leaseOver.turn = lines[i].turn /\ leaseOver.index = lines[i].index /\ leaseOver.kind = lines[i].kind
        /\ leaseOver.state = lines[i].state /\ leaseOver.lease = "over"
    BY <2>1 DEF Row
  <2> HIDE DEF paceOver, leaseOver
  <2> QED  BY <2>6, <2>7, <2>8, <2>9
<1>3. RowsStay /\ Lines' = Lines  BY <1>2 DEF RowsStay, Lines
<1>4. HandIsTheEnd' /\ \A j : InHand(j)' <=> InHand(j)  BY <1>1, <1>2, HandStays
<1>5. ShownOnce' /\ \A j : Arrived(j)' = Arrived(j) /\ \A k : ArrivedBefore(j, k)' = ArrivedBefore(j, k)
  BY <1>1, <1>3, PlatformStays
<1>6. OutboxTypes'  BY <1>1, <1>2, <1>3 DEF OutInv, OutboxTypes
<1>7. Agree'  BY <1>1, <1>2, <1>3, <1>5 DEF OutInv, Agree, Kept
<1>8. Unwritten'  BY <1>1, <1>3 DEF OutInv, Unwritten
<1>9. NoneLeaves  BY <1>1, <1>2, <1>3, <1>4, <1>5 DEF NoneLeaves, Gone, Out
<1> QED  BY <1>3, <1>4, <1>5, <1>6, <1>7, <1>8, <1>9, Assembled

(* Steps of the adapter and the platform leave the rows alone. *)
LEMMA AdapterMoves ==
    ASSUME OutInv, UNCHANGED <<lines, turn, up, worker, doubted>>,
           OutboxTypes', Agree', Unwritten', ShownOnce',
           \A i, j : ArrivedBefore(i, j) => ArrivedBefore(i, j)'
    PROVE  OutInv'
<1>1. Lines' = Lines /\ RowsStay  BY DEF Lines, RowsStay
<1>2. HandIsTheEnd' /\ \A i : InHand(i)' <=> InHand(i)  BY HandStays
<1>3. NoneLeaves  BY <1>1, <1>2 DEF NoneLeaves, Gone, Out
<1> QED  BY <1>1, <1>2, <1>3, Assembled

LEMMA LearnKeeps ==
    ASSUME OutInv, NEW i \in Lines, Learn(i)
    PROVE  OutInv'
<1>1. /\ adapter[i] = "unsure" /\ lines[i].state = "UNKNOWN"
      /\ adapter' = [adapter EXCEPT ![i] = IF Arrived(i) THEN "shown" ELSE "refused"]
      /\ UNCHANGED <<lines, turn, up, worker, arrived, doubted, left>>
  BY DEF Learn, Arrived
<1>2. /\ adapter' \in [1..MaxLines -> {"none", "held", "shown", "refused", "unsure"}]
      /\ adapter'[i] = IF Arrived(i) THEN "shown" ELSE "refused"
      /\ \A j \in 1..MaxLines : j # i => adapter'[j] = adapter[j]
  BY <1>1, Lengths DEF OutInv, OutboxTypes
<1>3. Lines' = Lines /\ \A j \in Lines : j \in 1..MaxLines  BY <1>1, Lengths DEF Lines
<1>4. OutboxTypes'  BY <1>1, <1>2, <1>3 DEF OutInv, OutboxTypes
<1>5. /\ ShownOnce' /\ \A j : Arrived(j)' = Arrived(j)
      /\ \A j, k : ArrivedBefore(j, k)' = ArrivedBefore(j, k)
  BY <1>1, <1>3, PlatformStays
<1>6. Agree'
  <2>1. \A j \in Lines : Kept(j)' = Kept(j)  BY <1>1 DEF Kept
  <2>2. ~Kept(i) /\ lines[i].state \notin NeverLeft  BY <1>1 DEF Kept, NeverLeft
  <2> QED  BY <1>1, <1>2, <1>3, <1>5, <2>1, <2>2 DEF OutInv, Agree
<1>7. Unwritten'  BY <1>1, <1>2, <1>3 DEF OutInv, Unwritten
<1> QED  BY <1>1, <1>4, <1>5, <1>6, <1>7, AdapterMoves

LEMMA ForgetKeeps ==
    ASSUME OutInv, NEW i \in Lines, Forget(i)
    PROVE  OutInv'
<1>1. /\ lines[i].state = "SENDING" /\ adapter' = [adapter EXCEPT ![i] = "none"]
      /\ UNCHANGED <<lines, turn, up, worker, arrived, doubted>>
  BY DEF Forget
<1>2. /\ adapter' \in [1..MaxLines -> {"none", "held", "shown", "refused", "unsure"}]
      /\ adapter'[i] = "none"
      /\ \A j \in 1..MaxLines : j # i => adapter'[j] = adapter[j]
  BY <1>1, Lengths DEF OutInv, OutboxTypes
<1>3. Lines' = Lines /\ \A j \in Lines : j \in 1..MaxLines  BY <1>1, Lengths DEF Lines
<1>4. left' \in [Disturbances -> Nat]  BY SpendIs DEF Forget, Disturbances
<1>5. OutboxTypes'  BY <1>1, <1>2, <1>3, <1>4 DEF OutInv, OutboxTypes
<1>6. /\ ShownOnce' /\ \A j : Arrived(j)' = Arrived(j)
      /\ \A j, k : ArrivedBefore(j, k)' = ArrivedBefore(j, k)
  BY <1>1, <1>3, PlatformStays
<1>7. Agree'
  <2>1. \A j \in Lines : Kept(j)' = Kept(j)  BY <1>1 DEF Kept
  <2>2. ~Kept(i) /\ lines[i].state \notin NeverLeft  BY <1>1 DEF Kept, NeverLeft
  <2> QED  BY <1>1, <1>2, <1>3, <1>6, <2>1, <2>2 DEF OutInv, Agree
<1>8. Unwritten'  BY <1>1, <1>2, <1>3 DEF OutInv, Unwritten
<1> QED  BY <1>1, <1>5, <1>6, <1>7, <1>8, AdapterMoves

LEMMA SendKeeps ==
    ASSUME OutInv, NEW i \in Lines, NEW outcome \in {"shown", "refused", "unsure"}, Send(i, outcome)
    PROVE  OutInv'
<1>1. /\ adapter[i] = "held" /\ adapter' = [adapter EXCEPT ![i] = outcome]
      /\ UNCHANGED <<lines, turn, up, worker, doubted, left>>
      /\ \/ outcome \in {"shown", "unsure"} /\ arrived' = Append(arrived, i)
         \/ outcome \in {"refused", "unsure"} /\ UNCHANGED arrived
  BY DEF Send
<1>2. /\ adapter' \in [1..MaxLines -> {"none", "held", "shown", "refused", "unsure"}]
      /\ adapter'[i] = outcome
      /\ \A j \in 1..MaxLines : j # i => adapter'[j] = adapter[j]
  BY <1>1, Lengths DEF OutInv, OutboxTypes
<1>3. Lines' = Lines /\ \A j \in Lines : j \in 1..MaxLines  BY <1>1, Lengths DEF Lines
<1>4. ~Kept(i) /\ lines[i].state \notin NeverLeft /\ ~Arrived(i)
  BY <1>1, <1>3 DEF OutInv, Agree
<1>5. Unwritten'  BY <1>1, <1>2, <1>3 DEF OutInv, Unwritten
<1>6. \A j \in Lines : Kept(j)' = Kept(j)  BY <1>1 DEF Kept
<1>7. CASE outcome \in {"shown", "unsure"} /\ arrived' = Append(arrived, i)
  <2> DEFINE n == Len(arrived)
  <2>1. /\ n \in Nat /\ arrived' \in Seq(Lines) /\ Len(arrived') = n + 1
        /\ \A k \in 1..n : arrived'[k] = arrived[k]
        /\ arrived'[n + 1] = i
    BY <1>7, AppendProperties DEF OutInv, OutboxTypes
  <2>2. \A j : Arrived(j)' <=> Arrived(j) \/ j = i
    <3>1. \A j : (\E k \in 1..(n + 1) : arrived'[k] = j) <=> (\E k \in 1..n : arrived[k] = j) \/ j = i
      BY <2>1
    <3> QED  BY <2>1, <3>1 DEF Arrived
  <2>3. \A j, l : ArrivedBefore(j, l) => ArrivedBefore(j, l)'
    <3> SUFFICES ASSUME NEW j, NEW l, NEW k \in 1..n, arrived[k] = j,
                        \A m \in 1..n : arrived[m] = l => k < m
                 PROVE  /\ k \in 1..(n + 1) /\ arrived'[k] = j
                        /\ \A m \in 1..(n + 1) : arrived'[m] = l => k < m
      BY <2>1 DEF ArrivedBefore
    <3> QED  BY <2>1
  <2>4. ShownOnce'
    <3> SUFFICES ASSUME NEW k \in 1..(n + 1), NEW l \in 1..(n + 1), arrived'[k] = arrived'[l] PROVE k = l
      BY <2>1 DEF ShownOnce
    <3>1. \A m \in 1..n : arrived[m] # i  BY <1>4 DEF Arrived
    <3>2. \A m, p \in 1..n : arrived[m] = arrived[p] => m = p  BY DEF OutInv, ShownOnce
    <3>3. CASE k \in 1..n /\ l \in 1..n  BY <2>1, <3>2, <3>3
    <3>4. CASE k = n + 1 /\ l = n + 1  BY <3>4
    <3>5. CASE k = n + 1 /\ l \in 1..n  BY <2>1, <3>1, <3>5
    <3>6. CASE k \in 1..n /\ l = n + 1  BY <2>1, <3>1, <3>6
    <3> QED  BY <2>1, <3>3, <3>4, <3>5, <3>6
  <2>5. OutboxTypes'  BY <1>1, <1>2, <1>3, <2>1 DEF OutInv, OutboxTypes
  <2>6. Agree'  BY <1>1, <1>2, <1>3, <1>4, <1>6, <1>7, <2>2 DEF OutInv, Agree
  <2> QED  BY <1>1, <1>5, <2>3, <2>4, <2>5, <2>6, AdapterMoves
<1>8. CASE outcome \in {"refused", "unsure"} /\ UNCHANGED arrived
  <2>1. /\ ShownOnce' /\ \A j : Arrived(j)' = Arrived(j)
        /\ \A j, k : ArrivedBefore(j, k)' = ArrivedBefore(j, k)
    BY <1>3, <1>8, PlatformStays
  <2>2. OutboxTypes'  BY <1>1, <1>2, <1>3, <1>8 DEF OutInv, OutboxTypes
  <2>3. Agree'  BY <1>1, <1>2, <1>3, <1>4, <1>6, <1>8, <2>1 DEF OutInv, Agree
  <2> QED  BY <1>1, <1>5, <2>1, <2>2, <2>3, AdapterMoves
<1> QED  BY <1>1, <1>7, <1>8

(* Steps that move lines on their way to where they are settled, or unknown. *)
LEMMA LinesSettled ==
    ASSUME OutInv, UNCHANGED <<worker, adapter, arrived>>,
           turn' \in [Turns -> {"new", "TURN", "COMMITTED", "FAILED"}], up' \in BOOLEAN,
           left' \in [Disturbances -> Nat],
           doubted \subseteq doubted', doubted' \subseteq Lines,
           lines' \in Seq(Row), Len(lines') = Len(lines),
           \A i \in Lines : SameButState(lines'[i], lines[i]),
           \A i \in Lines :
               \/ lines'[i].state = lines[i].state
               \/ /\ Kept(i) /\ lines'[i].state = "CANCELLED_AFTER_FAILURE"
               \/ /\ lines[i].state = "QUEUED_EXTERNAL" /\ lines'[i].state = "FAILED"
               \/ /\ lines[i].state \in {"SENDING", "UNKNOWN"}
                  /\ \/ lines'[i].state = "UNKNOWN" /\ i \in doubted'
                     \/ lines'[i].state = "DELIVERED" /\ Arrived(i)
                     \/ lines'[i].state = "FAILED" /\ adapter[i] = "refused"
    PROVE  OutInv'
<1>1. RowsStay /\ Lines' = Lines  BY RowsStayIf
<1>2. /\ ShownOnce' /\ \A j : Arrived(j)' = Arrived(j)
      /\ \A j, k : ArrivedBefore(j, k)' = ArrivedBefore(j, k)
  BY <1>1, PlatformStays
<1>3. HandIsTheEnd' /\ \A i : InHand(i)' <=> InHand(i)
  <2>1. \A i \in Lines : lines[i].state \in {"READY", "CANCELLED_AFTER_FAILURE"}
                         => lines'[i].state \in {"READY", "CANCELLED_AFTER_FAILURE"}
    BY DEF Kept
  <2> QED  BY <2>1, HandStays
<1>4. OutboxTypes'  BY <1>1 DEF OutInv, OutboxTypes
<1>5. Unwritten'  BY <1>1 DEF OutInv, Unwritten
<1>6. Agree'
  <2> SUFFICES ASSUME NEW i \in Lines
               PROVE  /\ Kept(i)' => adapter[i] = "none" /\ ~Arrived(i) /\ lines'[i].lease = "none"
                      /\ lines'[i].state \in NeverLeft => adapter[i] \in {"none", "refused"} /\ ~Arrived(i)
                      /\ lines'[i].state = "DELIVERED" => Arrived(i)
                      /\ lines'[i].state = "SENDING" => lines'[i].lease # "none"
                      /\ lines'[i].state = "UNKNOWN" => i \in doubted'
                      /\ adapter[i] \in {"held", "refused"} => ~Arrived(i)
                      /\ adapter[i] = "shown" => Arrived(i)
    BY <1>1, <1>2 DEF Agree
  <2>1. /\ Kept(i) => adapter[i] = "none" /\ ~Arrived(i) /\ lines[i].lease = "none"
        /\ lines[i].state \in NeverLeft => adapter[i] \in {"none", "refused"} /\ ~Arrived(i)
        /\ lines[i].state = "DELIVERED" => Arrived(i)
        /\ lines[i].state = "SENDING" => lines[i].lease # "none"
        /\ lines[i].state = "UNKNOWN" => i \in doubted
        /\ adapter[i] \in {"held", "refused"} => ~Arrived(i)
        /\ adapter[i] = "shown" => Arrived(i)
    BY DEF OutInv, Agree
  <2>2. lines'[i].lease = lines[i].lease  BY DEF SameButState
  <2>3. CASE lines'[i].state = lines[i].state  BY <2>1, <2>2, <2>3 DEF Kept
  <2>4. CASE Kept(i) /\ lines'[i].state = "CANCELLED_AFTER_FAILURE"  BY <2>1, <2>4 DEF Kept, NeverLeft
  <2>5. CASE lines[i].state = "QUEUED_EXTERNAL" /\ lines'[i].state = "FAILED"  BY <2>1, <2>5 DEF Kept, NeverLeft
  <2>6. CASE lines'[i].state = "UNKNOWN" /\ i \in doubted'  BY <2>1, <2>6 DEF Kept, NeverLeft
  <2>7. CASE lines'[i].state = "DELIVERED" /\ Arrived(i)  BY <2>1, <2>7 DEF Kept, NeverLeft
  <2>8. CASE lines'[i].state = "FAILED" /\ adapter[i] = "refused"  BY <2>1, <2>8 DEF Kept, NeverLeft
  <2> QED  BY <2>3, <2>4, <2>5, <2>6, <2>7, <2>8
<1>7. NoneLeaves
  <2>1. \A i \in Lines : /\ Gone(i)' => Gone(i)
                         /\ Out(i)' => Out(i)
                         /\ lines[i].lease = "over" => lines'[i].lease = "over"
    BY DEF Gone, Out, SameButState, Kept
  <2>2. \A i \in Lines : /\ lines[i].state \in NeverLeft => lines'[i].state \in NeverLeft
                         /\ lines[i].state \in Settled => lines'[i].state \in Settled
                         /\ lines[i].state = "READY" => lines'[i].state \in {"READY"} \cup NeverLeft
    BY DEF NeverLeft, Settled, Kept
  <2> QED  BY <1>1, <1>2, <1>3, <2>1, <2>2 DEF NoneLeaves
<1> QED  BY <1>1, <1>2, <1>3, <1>4, <1>5, <1>6, <1>7, Assembled

LEMMA StatusIs ==
    /\ DOMAIN StatusOf = {"shown", "refused", "unsure"}
    /\ StatusOf["shown"] = "DELIVERED" /\ StatusOf["refused"] = "FAILED" /\ StatusOf["unsure"] = "UNKNOWN"
BY DEF StatusOf

LEMMA StatesAre ==
    \A state \in {"DELIVERED", "FAILED", "UNKNOWN", "SENDING", "CANCELLED_AFTER_FAILURE"} : state \in LineStates
BY DEF LineStates, OnItsWay, Settled, NeverLeft

LEMMA ReceiptKeeps ==
    ASSUME OutInv, NEW i \in Lines, Receipt(i)
    PROVE  OutInv'
<1> DEFINE state == StatusOf[adapter[i]]
           told  == [lines EXCEPT ![i].state = state]
<1>1. /\ adapter[i] \in {"shown", "refused", "unsure"} /\ lines[i].state \in {"SENDING", "UNKNOWN"}
      /\ lines' = IF state = "FAILED" THEN CancelAfter(i, told) ELSE told
      /\ doubted' = IF state = "UNKNOWN" THEN doubted \cup {i} ELSE doubted
      /\ UNCHANGED <<turn, up, worker, adapter, arrived, left>>
  BY StatusIs DEF Receipt
<1>2. \/ state = "DELIVERED" /\ Arrived(i)
      \/ state = "FAILED" /\ adapter[i] = "refused"
      \/ state = "UNKNOWN" /\ i \in doubted'
  <2>1. CASE adapter[i] = "shown"  BY <2>1, StatusIs DEF OutInv, Agree
  <2>2. CASE adapter[i] = "refused"  BY <2>2, StatusIs
  <2>3. CASE adapter[i] = "unsure"  BY <1>1, <2>3, StatusIs
  <2> QED  BY <1>1, <2>1, <2>2, <2>3
<1>3. state \in LineStates  BY <1>2, StatesAre
<1> HIDE DEF state
<1>4. /\ told \in Seq(Row) /\ Len(told) = Len(lines) /\ i \in 1..Len(told)
      /\ \A j \in Lines : SameButState(told[j], lines[j])
      /\ \A j \in Lines : told[j].state = IF j = i THEN state ELSE lines[j].state
  BY <1>3, OneWithState DEF OutInv, OutboxTypes, Lines
<1> HIDE DEF told
<1>5. /\ lines' \in Seq(Row) /\ Len(lines') = Len(lines)
      /\ \A j \in Lines : SameButState(lines'[j], lines[j])
      /\ lines'[i].state = state
      /\ \A j \in Lines : j # i => \/ lines'[j].state = lines[j].state
                                   \/ Kept(j) /\ lines'[j].state = "CANCELLED_AFTER_FAILURE"
  <2>1. CASE state = "FAILED"
    <3>1. lines' = CancelAfter(i, told)  BY <1>1, <2>1
    <3>2. /\ lines' \in Seq(Row) /\ Len(lines') = Len(lines) /\ lines'[i] = told[i]
          /\ \A j \in Lines : SameButState(lines'[j], told[j])
          /\ \A j \in Lines : \/ lines'[j].state = told[j].state
                              \/ /\ told[j].state \in {"READY", "QUEUED_EXTERNAL"}
                                 /\ lines'[j].state = "CANCELLED_AFTER_FAILURE"
      <4>1. Lines = 1..Len(told)  BY <1>4 DEF Lines
      <4>2. LET new == CancelAfter(i, told)
            IN /\ new \in Seq(Row) /\ Len(new) = Len(told)
               /\ \A j \in 1..Len(told) : SameButState(new[j], told[j])
               /\ \A j \in 1..Len(told) : \/ new[j].state = told[j].state
                                           \/ /\ told[j].state \in {"READY", "QUEUED_EXTERNAL"}
                                              /\ new[j].state = "CANCELLED_AFTER_FAILURE"
               /\ new[i] = told[i]
        BY <1>4, CancelAfterIs
      <4> QED  BY <1>4, <3>1, <4>1, <4>2
    <3> QED  BY <1>4, <3>2 DEF SameButState, Kept
  <2>2. CASE state # "FAILED"  BY <1>1, <1>4, <2>2
  <2> QED  BY <2>1, <2>2
<1>6. /\ turn' \in [Turns -> {"new", "TURN", "COMMITTED", "FAILED"}] /\ up' \in BOOLEAN
      /\ left' \in [Disturbances -> Nat] /\ doubted \subseteq doubted' /\ doubted' \subseteq Lines
  BY <1>1 DEF OutInv, OutboxTypes
<1>7. \A j \in Lines :
          \/ lines'[j].state = lines[j].state
          \/ /\ Kept(j) /\ lines'[j].state = "CANCELLED_AFTER_FAILURE"
          \/ /\ lines[j].state \in {"SENDING", "UNKNOWN"}
             /\ \/ lines'[j].state = "UNKNOWN" /\ j \in doubted'
                \/ lines'[j].state = "DELIVERED" /\ Arrived(j)
                \/ lines'[j].state = "FAILED" /\ adapter[j] = "refused"
  BY <1>1, <1>2, <1>5
<1> QED  BY <1>1, <1>5, <1>6, <1>7, LinesSettled

LEMMA StartKeeps == ASSUME OutInv, Start PROVE OutInv'
<1>1. /\ up' = TRUE /\ UNCHANGED <<turn, worker, adapter, arrived, left>>
      /\ lines' = WithState(SendingLines, "UNKNOWN")
      /\ doubted' = doubted \cup SendingLines
  BY DEF Start, StartWith
<1>2. /\ lines' \in Seq(Row) /\ Len(lines') = Len(lines)
      /\ \A i \in Lines : SameButState(lines'[i], lines[i])
      /\ \A i \in Lines : lines'[i].state = IF i \in SendingLines THEN "UNKNOWN" ELSE lines[i].state
  BY <1>1, SomeWithState, StatesAre DEF OutInv, OutboxTypes
<1>3. /\ turn' \in [Turns -> {"new", "TURN", "COMMITTED", "FAILED"}] /\ up' \in BOOLEAN
      /\ left' \in [Disturbances -> Nat] /\ doubted \subseteq doubted' /\ doubted' \subseteq Lines
  BY <1>1 DEF OutInv, OutboxTypes, SendingLines
<1>4. \A i \in Lines : \/ lines'[i].state = lines[i].state
                       \/ /\ lines[i].state = "SENDING"
                          /\ lines'[i].state = "UNKNOWN" /\ i \in doubted'
  BY <1>1, <1>2 DEF SendingLines
<1> QED  BY <1>1, <1>2, <1>3, <1>4, LinesSettled

(* The walk of one lane through the queue, up to the line it comes to. *)
LEMMA WalkIs ==
    ASSUME OutInv, NEW lane \in Lanes
    PROVE  LET walked == WithState(Passed(lane), "CANCELLED_AFTER_FAILURE")
           IN /\ walked \in Seq(Row) /\ Len(walked) = Len(lines)
              /\ \A i \in Lines : SameButState(walked[i], lines[i])
              /\ \A i \in Lines : walked[i].state = IF i \in Passed(lane) THEN "CANCELLED_AFTER_FAILURE" ELSE lines[i].state
              /\ \A i \in Passed(lane) : i \in Lines /\ lines[i].state = "QUEUED_EXTERNAL"
<1>1. \A i \in Passed(lane) : i \in Lines /\ lines[i].state = "QUEUED_EXTERNAL"  BY DEF Passed, Queue
<1> QED  BY <1>1, SomeWithState, StatesAre DEF OutInv, OutboxTypes

LEMMA CancelDoomedKeeps ==
    ASSUME OutInv, NEW lane \in Lanes, CancelDoomed(lane)
    PROVE  OutInv'
<1>1. /\ lines' = WithState(Passed(lane), "CANCELLED_AFTER_FAILURE")
      /\ UNCHANGED <<turn, up, worker, adapter, arrived, doubted, left>>
  BY DEF CancelDoomed
<1>2. /\ lines' \in Seq(Row) /\ Len(lines') = Len(lines)
      /\ \A i \in Lines : SameButState(lines'[i], lines[i])
      /\ \A i \in Lines : \/ lines'[i].state = lines[i].state
                          \/ Kept(i) /\ lines'[i].state = "CANCELLED_AFTER_FAILURE"
  BY <1>1, WalkIs DEF Kept
<1>3. /\ turn' \in [Turns -> {"new", "TURN", "COMMITTED", "FAILED"}] /\ up' \in BOOLEAN
      /\ left' \in [Disturbances -> Nat] /\ doubted \subseteq doubted' /\ doubted' \subseteq Lines
  BY <1>1 DEF OutInv, OutboxTypes
<1> QED  BY <1>1, <1>2, <1>3, LinesSettled

LEMMA RefuseClaimKeeps ==
    ASSUME OutInv, NEW lane \in Lanes, RefuseClaim(lane)
    PROVE  OutInv'
<1> DEFINE walked == WithState(Passed(lane), "CANCELLED_AFTER_FAILURE")
<1>1. UNCHANGED <<turn, up, worker, adapter, arrived, doubted>>  BY DEF RefuseClaim
<1>2. PICK i \in Offered(lane) :
        /\ IF Valid(i) THEN Spend("refuse") ELSE UNCHANGED left
        /\ lines' = CancelAfter(i, [walked EXCEPT ![i].state = "FAILED"])
  BY DEF RefuseClaim
<1> DEFINE refused == [walked EXCEPT ![i].state = "FAILED"]
<1>3. i \in Lines /\ lines[i].state = "QUEUED_EXTERNAL" /\ i \notin Passed(lane)
  BY DEF Offered, Front, Queue, Passed
<1>4. /\ walked \in Seq(Row) /\ Len(walked) = Len(lines) /\ i \in 1..Len(walked)
      /\ \A j \in Lines : SameButState(walked[j], lines[j])
      /\ \A j \in Lines : walked[j].state = IF j \in Passed(lane) THEN "CANCELLED_AFTER_FAILURE" ELSE lines[j].state
      /\ \A j \in Passed(lane) : j \in Lines /\ lines[j].state = "QUEUED_EXTERNAL"
  BY <1>3, WalkIs DEF Lines
<1> HIDE DEF walked
<1>5. /\ refused \in Seq(Row) /\ Len(refused) = Len(lines) /\ i \in 1..Len(refused)
      /\ \A j \in Lines : SameButState(refused[j], walked[j])
      /\ \A j \in Lines : refused[j].state = IF j = i THEN "FAILED" ELSE walked[j].state
  BY <1>4, OneWithState, StatesAre DEF Lines
<1> HIDE DEF refused
<1>6. lines' = CancelAfter(i, refused)  BY <1>2 DEF refused
<1>7. /\ lines' \in Seq(Row) /\ Len(lines') = Len(lines) /\ lines'[i] = refused[i]
      /\ \A j \in Lines : SameButState(lines'[j], refused[j])
      /\ \A j \in Lines : \/ lines'[j].state = refused[j].state
                          \/ /\ refused[j].state \in {"READY", "QUEUED_EXTERNAL"}
                             /\ lines'[j].state = "CANCELLED_AFTER_FAILURE"
  <2>1. Lines = 1..Len(refused)  BY <1>5 DEF Lines
  <2>2. LET new == CancelAfter(i, refused)
        IN /\ new \in Seq(Row) /\ Len(new) = Len(refused)
           /\ \A j \in 1..Len(refused) : SameButState(new[j], refused[j])
           /\ \A j \in 1..Len(refused) : \/ new[j].state = refused[j].state
                                          \/ /\ refused[j].state \in {"READY", "QUEUED_EXTERNAL"}
                                             /\ new[j].state = "CANCELLED_AFTER_FAILURE"
           /\ new[i] = refused[i]
    BY <1>5, CancelAfterIs
  <2> QED  BY <1>5, <1>6, <2>1, <2>2
<1>8. \A j \in Lines : SameButState(lines'[j], lines[j])  BY <1>4, <1>5, <1>7 DEF SameButState
<1>9. \A j \in Lines : \/ lines'[j].state = lines[j].state
                       \/ Kept(j) /\ lines'[j].state = "CANCELLED_AFTER_FAILURE"
                       \/ lines[j].state = "QUEUED_EXTERNAL" /\ lines'[j].state = "FAILED"
  BY <1>3, <1>4, <1>5, <1>7 DEF Kept
<1>10. left' \in [Disturbances -> Nat]
  <2>1. CASE Valid(i)  BY <1>2, <2>1, SpendIs DEF Disturbances
  <2>2. CASE ~Valid(i)  BY <1>2, <2>2 DEF OutInv, OutboxTypes
  <2> QED  BY <2>1, <2>2
<1>11. /\ turn' \in [Turns -> {"new", "TURN", "COMMITTED", "FAILED"}] /\ up' \in BOOLEAN
       /\ doubted \subseteq doubted' /\ doubted' \subseteq Lines
  BY <1>1 DEF OutInv, OutboxTypes
<1> QED  BY <1>1, <1>7, <1>8, <1>9, <1>10, <1>11, LinesSettled

(* A claimed line: what the walk found, and what the order of leaving needs. *)
LEMMA ClaimIs ==
    ASSUME OutInv, NEW lane \in Lanes, Claim(lane)
    PROVE  \E i \in Lines :
        /\ lines[i].state = "QUEUED_EXTERNAL" /\ adapter[i] = "none" /\ ~Arrived(i)
        /\ lines' \in Seq(Row) /\ Len(lines') = Len(lines)
        /\ \A j \in Lines : lines'[j].turn = lines[j].turn /\ lines'[j].index = lines[j].index
                            /\ lines'[j].kind = lines[j].kind
        /\ lines'[i].state = "SENDING" /\ lines'[i].lease = "running"
        /\ \A j \in Lines : j # i => /\ lines'[j].lease = lines[j].lease
                                     /\ \/ lines'[j].state = lines[j].state
                                        \/ /\ lines[j].state = "QUEUED_EXTERNAL"
                                           /\ lines'[j].state = "CANCELLED_AFTER_FAILURE"
        /\ \A j \in Lines : j < i /\ lines[j].turn = lines[i].turn /\ lines[j].kind = "chat"
                            => lines[j].state \in Settled \/ lines[j].state = "UNKNOWN"
        /\ lines[i].kind = "chat" =>
              /\ \A j \in Lines : ~Out(j)
              /\ \A j \in Lines : j < i /\ lines[j].kind = "chat" /\ lines[j].state = "QUEUED_EXTERNAL"
                                  => lines'[j].state = "CANCELLED_AFTER_FAILURE"
        /\ \/ adapter' = [adapter EXCEPT ![i] = "held"] /\ UNCHANGED left
           \/ Spend("lost") /\ UNCHANGED adapter
        /\ UNCHANGED <<turn, up, worker, arrived, doubted>>
<1> DEFINE walked == WithState(Passed(lane), "CANCELLED_AFTER_FAILURE")
<1>1. Walks(lane) /\ UNCHANGED <<turn, up, worker, arrived, doubted>>  BY DEF Claim
<1>2. PICK i \in Offered(lane) :
        /\ lines' = [walked EXCEPT ![i].state = "SENDING", ![i].lease = "running"]
        /\ \/ adapter' = [adapter EXCEPT ![i] = "held"] /\ UNCHANGED left
           \/ Spend("lost") /\ UNCHANGED adapter
  BY DEF Claim
<1>3. /\ i \in Lines /\ lines[i].state = "QUEUED_EXTERNAL" /\ InLane(i, lane)
      /\ ~Doomed(i) /\ ~Waits(i) /\ i \notin Passed(lane) /\ i \in Front(lane)
      /\ \A j \in Queue(lane) : j < i => Doomed(j)
  BY DEF Offered, Front, Queue, Passed
<1>4. /\ walked \in Seq(Row) /\ Len(walked) = Len(lines) /\ i \in 1..Len(walked)
      /\ \A j \in Lines : SameButState(walked[j], lines[j])
      /\ \A j \in Lines : walked[j].state = IF j \in Passed(lane) THEN "CANCELLED_AFTER_FAILURE" ELSE lines[j].state
      /\ \A j \in Passed(lane) : j \in Lines /\ lines[j].state = "QUEUED_EXTERNAL"
  BY <1>3, WalkIs DEF Lines
<1> HIDE DEF walked
<1> DEFINE row == [walked[i] EXCEPT !.state = "SENDING", !.lease = "running"]
<1>5. /\ row \in Row /\ row.state = "SENDING" /\ row.lease = "running"
      /\ row.turn = lines[i].turn /\ row.index = lines[i].index /\ row.kind = lines[i].kind
  <2>1. walked[i] \in Row  BY <1>4
  <2>2. SameButState(walked[i], lines[i])  BY <1>3, <1>4
  <2>3. "SENDING" \in LineStates  BY StatesAre
  <2> QED  BY <2>1, <2>2, <2>3 DEF SameButState, Row
<1>6. /\ lines' \in Seq(Row) /\ Len(lines') = Len(lines) /\ lines'[i] = row
      /\ \A j \in Lines : j # i => lines'[j] = walked[j]
  <2>1. lines' = [walked EXCEPT ![i] = row]  BY <1>2
  <2>2. DOMAIN walked = 1..Len(lines) /\ Len(lines) \in Nat /\ \A j \in 1..Len(lines) : walked[j] \in Row
    BY <1>4
  <2> HIDE DEF row
  <2>3. lines' \in [1..Len(lines) -> Row]  BY <1>5, <2>1, <2>2
  <2>4. lines' \in Seq(Row) /\ Len(lines') = Len(lines)  BY <2>2, <2>3, MappedIsASeq
  <2> QED  BY <1>4, <2>1, <2>2, <2>4 DEF Lines
<1> HIDE DEF row
<1>7. adapter[i] = "none" /\ ~Arrived(i)  BY <1>3 DEF OutInv, Agree, Kept
<1>8. ASSUME NEW j \in Lines, j < i, lines[j].turn = lines[i].turn, lines[j].kind = "chat",
             lines[j].state \notin Settled
      PROVE  lines[j].state = "UNKNOWN"
  <2>1. j \in Earlier(i)  BY <1>3, <1>8 DEF Earlier, OutInv, Numbered
  <2>2. lines[j].state \in OnItsWay \cup {"UNKNOWN"}  BY <1>3, <2>1 DEF Doomed
  <2>3. lines[j].state \notin OnItsWay  BY <1>3, <1>8, <2>1 DEF Waits
  <2> QED  BY <2>2, <2>3
<1>9. ASSUME lines[i].kind = "chat", NEW j \in Lines
      PROVE  ~Out(j)
  <2>1. lane = "chat"  BY <1>3, <1>9 DEF InLane, Lanes
  <2> QED  BY <1>1, <2>1 DEF Walks, InFlight, Out
<1>10. ASSUME lines[i].kind = "chat", NEW j \in Lines, j < i, lines[j].kind = "chat",
              lines[j].state = "QUEUED_EXTERNAL"
       PROVE  j \in Passed(lane)
  <2>1. j \in Queue(lane) /\ Doomed(j)  BY <1>3, <1>10 DEF Queue, InLane
  <2>2. \A k \in Front(lane) : ~(k < i)  BY <1>3 DEF Front, Queue
  <2>3. \A k \in Front(lane) : j < k  BY <1>3, <1>10, <2>2, Lengths DEF Front, Queue
  <2> QED  BY <2>1, <2>3 DEF Passed
<1>11. \A j \in Lines : /\ lines'[j].turn = lines[j].turn /\ lines'[j].index = lines[j].index
                        /\ lines'[j].kind = lines[j].kind
  BY <1>4, <1>5, <1>6 DEF SameButState
<1>12. \A j \in Lines : j # i => /\ lines'[j].lease = lines[j].lease
                                 /\ \/ lines'[j].state = lines[j].state
                                    \/ /\ lines[j].state = "QUEUED_EXTERNAL"
                                       /\ lines'[j].state = "CANCELLED_AFTER_FAILURE"
  BY <1>4, <1>6 DEF SameButState
<1>13. lines'[i].state = "SENDING" /\ lines'[i].lease = "running"  BY <1>5, <1>6
<1>14. \A j \in Lines : j < i /\ j \in Passed(lane) => lines'[j].state = "CANCELLED_AFTER_FAILURE"
  BY <1>3, <1>4, <1>6
<1>15. lines[i].kind = "chat" =>
         /\ \A j \in Lines : ~Out(j)
         /\ \A j \in Lines : j < i /\ lines[j].kind = "chat" /\ lines[j].state = "QUEUED_EXTERNAL"
                             => lines'[j].state = "CANCELLED_AFTER_FAILURE"
  BY <1>9, <1>10, <1>14
<1>16. \A j \in Lines : j < i /\ lines[j].turn = lines[i].turn /\ lines[j].kind = "chat"
                        => lines[j].state \in Settled \/ lines[j].state = "UNKNOWN"
  BY <1>8
<1> QED  BY <1>1, <1>2, <1>3, <1>6, <1>7, <1>11, <1>12, <1>13, <1>15, <1>16

LEMMA ClaimKeeps ==
    ASSUME OutInv, NEW lane \in Lanes, Claim(lane)
    PROVE  OutInv'
<1>1. PICK i \in Lines :
        /\ lines[i].state = "QUEUED_EXTERNAL" /\ adapter[i] = "none" /\ ~Arrived(i)
        /\ lines' \in Seq(Row) /\ Len(lines') = Len(lines)
        /\ \A j \in Lines : lines'[j].turn = lines[j].turn /\ lines'[j].index = lines[j].index
                            /\ lines'[j].kind = lines[j].kind
        /\ lines'[i].state = "SENDING" /\ lines'[i].lease = "running"
        /\ \A j \in Lines : j # i => /\ lines'[j].lease = lines[j].lease
                                     /\ \/ lines'[j].state = lines[j].state
                                        \/ /\ lines[j].state = "QUEUED_EXTERNAL"
                                           /\ lines'[j].state = "CANCELLED_AFTER_FAILURE"
        /\ \A j \in Lines : j < i /\ lines[j].turn = lines[i].turn /\ lines[j].kind = "chat"
                            => lines[j].state \in Settled \/ lines[j].state = "UNKNOWN"
        /\ lines[i].kind = "chat" =>
              /\ \A j \in Lines : ~Out(j)
              /\ \A j \in Lines : j < i /\ lines[j].kind = "chat" /\ lines[j].state = "QUEUED_EXTERNAL"
                                  => lines'[j].state = "CANCELLED_AFTER_FAILURE"
        /\ \/ adapter' = [adapter EXCEPT ![i] = "held"] /\ UNCHANGED left
           \/ Spend("lost") /\ UNCHANGED adapter
        /\ UNCHANGED <<turn, up, worker, arrived, doubted>>
  BY ClaimIs
<1>2. RowsStay /\ Lines' = Lines  BY <1>1 DEF RowsStay, Lines
<1>3. /\ ShownOnce' /\ \A j : Arrived(j)' = Arrived(j)
      /\ \A j, k : ArrivedBefore(j, k)' = ArrivedBefore(j, k)
  BY <1>1, <1>2, PlatformStays
<1>4. ~InHand(i)
  BY <1>1 DEF OutInv, HandIsTheEnd, InHand
<1>5. HandIsTheEnd' /\ \A j : InHand(j)' <=> InHand(j)
  <2>1. \A j \in Lines : lines[j].state \in {"READY", "CANCELLED_AFTER_FAILURE"}
                         => lines'[j].state \in {"READY", "CANCELLED_AFTER_FAILURE"}
    BY <1>1
  <2> QED  BY <1>1, <2>1, HandStays
<1>6. left' \in [Disturbances -> Nat]
  BY <1>1, SpendIs DEF Disturbances, OutInv, OutboxTypes
<1>7. /\ adapter' \in [1..MaxLines -> {"none", "held", "shown", "refused", "unsure"}]
      /\ adapter'[i] \in {"none", "held"}
      /\ \A j \in 1..MaxLines : j # i => adapter'[j] = adapter[j]
  BY <1>1, Lengths DEF OutInv, OutboxTypes
<1>8. OutboxTypes'  BY <1>1, <1>2, <1>6, <1>7 DEF OutInv, OutboxTypes
<1>9. Numbered'  BY <1>2, NumbersStay
<1>10. Unwritten'  BY <1>2, <1>7 DEF OutInv, Unwritten
<1>11. Agree'
  <2> SUFFICES ASSUME NEW j \in Lines
               PROVE  /\ Kept(j)' => adapter'[j] = "none" /\ ~Arrived(j) /\ lines'[j].lease = "none"
                      /\ lines'[j].state \in NeverLeft => adapter'[j] \in {"none", "refused"} /\ ~Arrived(j)
                      /\ lines'[j].state = "DELIVERED" => Arrived(j)
                      /\ lines'[j].state = "SENDING" => lines'[j].lease # "none"
                      /\ lines'[j].state = "UNKNOWN" => j \in doubted
                      /\ adapter'[j] \in {"held", "refused"} => ~Arrived(j)
                      /\ adapter'[j] = "shown" => Arrived(j)
    BY <1>1, <1>2, <1>3 DEF Agree
  <2>1. /\ Kept(j) => adapter[j] = "none" /\ ~Arrived(j) /\ lines[j].lease = "none"
        /\ lines[j].state \in NeverLeft => adapter[j] \in {"none", "refused"} /\ ~Arrived(j)
        /\ lines[j].state = "DELIVERED" => Arrived(j)
        /\ lines[j].state = "SENDING" => lines[j].lease # "none"
        /\ lines[j].state = "UNKNOWN" => j \in doubted
        /\ adapter[j] \in {"held", "refused"} => ~Arrived(j)
        /\ adapter[j] = "shown" => Arrived(j)
    BY DEF OutInv, Agree
  <2>2. CASE j = i  BY <1>1, <1>7, <2>2 DEF Kept, NeverLeft
  <2>3. CASE j # i
    <3>1. adapter'[j] = adapter[j] /\ lines'[j].lease = lines[j].lease  BY <1>1, <1>7, <2>3, Lengths
    <3>2. CASE lines'[j].state = lines[j].state  BY <2>1, <3>1, <3>2 DEF Kept
    <3>3. CASE lines[j].state = "QUEUED_EXTERNAL" /\ lines'[j].state = "CANCELLED_AFTER_FAILURE"
      BY <2>1, <3>1, <3>3 DEF Kept, NeverLeft
    <3> QED  BY <1>1, <2>3, <3>2, <3>3
  <2> QED  BY <2>2, <2>3
<1>12. \A j \in Lines : j # i => /\ Gone(j)' => Gone(j)
                                 /\ Out(j)' => Out(j)
                                 /\ lines[j].lease = "over" => lines'[j].lease = "over"
                                 /\ lines[j].state \in NeverLeft => lines'[j].state \in NeverLeft
                                 /\ lines[j].state \in Settled => lines'[j].state \in Settled
                                 /\ lines[j].state # "QUEUED_EXTERNAL" => lines'[j].state = lines[j].state
  BY <1>1 DEF Gone, Out, NeverLeft, Settled
<1>13. OneOut'
  <2> SUFFICES ASSUME NEW j \in Lines, NEW k \in Lines, Out(j)', Out(k)' PROVE j = k
    BY <1>2 DEF OneOut, Out
  <2>1. CASE j = i \/ k = i
    <3>1. lines[i].kind = "chat"  BY <1>1, <2>1 DEF Out
    <3>2. \A m \in Lines : ~Out(m)  BY <1>1, <3>1
    <3> QED  BY <1>12, <2>1, <3>2
  <2>2. CASE j # i /\ k # i
    BY <1>12, <2>2 DEF OutInv, OneOut, Out
  <2> QED  BY <2>1, <2>2
<1>14. SettledBehind'
  <2> SUFFICES ASSUME NEW j \in Lines, NEW k \in Lines, j < k, lines[j].turn = lines[k].turn,
                      lines[j].kind = "chat", Gone(k)'
               PROVE  j \in doubted \/ lines'[j].state \in Settled
    BY <1>1, <1>2 DEF SettledBehind
  <2>1. CASE k = i
    <3>1. j # i  BY <2>1, Lengths
    <3>2. lines[j].state \in Settled \/ lines[j].state = "UNKNOWN"  BY <1>1, <2>1
    <3>3. lines[j].state = "UNKNOWN" => j \in doubted  BY DEF OutInv, Agree
    <3> QED  BY <1>12, <3>1, <3>2, <3>3
  <2>2. CASE k # i
    <3>1. Gone(k)  BY <1>12, <2>2
    <3>2. j \in doubted \/ lines[j].state \in Settled  BY <3>1 DEF OutInv, SettledBehind
    <3>3. lines[i].state \notin Settled  BY <1>1 DEF Settled
    <3> QED  BY <1>12, <3>2, <3>3
  <2> QED  BY <2>1, <2>2
<1>15. LeftInOrder'
  <2> SUFFICES ASSUME NEW j \in Lines, NEW k \in Lines, j < k,
                      lines[j].kind = "chat", lines[k].kind = "chat", Gone(k)'
               PROVE  Excused(j, k)'
    BY <1>1, <1>2 DEF LeftInOrder
  <2>1. CASE k = i
    <3>1. j # i  BY <2>1, Lengths
    <3>2. lines[j].state \in LineStates  BY Lengths DEF Row
    <3>3. CASE lines[j].state = "QUEUED_EXTERNAL"
      <4>1. lines'[j].state = "CANCELLED_AFTER_FAILURE"  BY <1>1, <2>1, <3>3
      <4> QED  BY <4>1 DEF Excused, NeverLeft
    <3>4. CASE lines[j].state = "READY"
      <4>1. ~InHand(j)
        <5>1. InHand(j) => InHand(i)  BY <2>1, Lengths, WorkerIs DEF InHand, Writer
        <5> QED  BY <1>4, <5>1
      <4>2. lines'[j].state = "READY" /\ ~InHand(j)'  BY <1>5, <1>12, <3>1, <3>4, <4>1
      <4> QED  BY <4>2 DEF Excused
    <3>5. CASE lines[j].state = "SENDING"
      <4>1. ~Out(j)  BY <1>1, <2>1
      <4>2. lines[j].lease = "over"
        <5>1. lines[j].lease # "none"  BY <3>5 DEF OutInv, Agree
        <5>2. lines[j].lease \in {"none", "running", "over"}  BY Lengths DEF Row
        <5> QED  BY <3>5, <4>1, <5>1, <5>2 DEF Out
      <4>3. lines[j].turn # lines[i].turn  BY <1>1, <2>1, <3>5 DEF Settled
      <4> QED  BY <1>1, <1>12, <2>1, <3>1, <4>2, <4>3 DEF Excused
    <3>6. CASE lines[j].state = "UNKNOWN"
      <4>1. j \in doubted  BY <3>6 DEF OutInv, Agree
      <4> QED  BY <1>1, <4>1 DEF Excused
    <3>7. CASE lines[j].state = "DELIVERED"
      <4>1. Arrived(j)  BY <3>7 DEF OutInv, Agree
      <4>2. ArrivedBefore(j, i)  BY <1>1, <4>1 DEF Arrived, ArrivedBefore
      <4> QED  BY <1>3, <2>1, <4>2 DEF Excused
    <3>8. CASE lines[j].state \in NeverLeft  BY <1>12, <3>1, <3>8 DEF Excused
    <3> QED  BY <3>2, <3>3, <3>4, <3>5, <3>6, <3>7, <3>8 DEF LineStates, OnItsWay, Settled, NeverLeft
  <2>2. CASE k # i
    <3>1. Excused(j, k)  BY <1>12, <2>2 DEF OutInv, LeftInOrder
    <3>2. CASE j \in doubted  BY <1>1, <3>2 DEF Excused
    <3>3. CASE lines[j].lease = "over" /\ lines[j].turn # lines[k].turn
      <4>1. CASE j # i  BY <1>1, <1>12, <3>3, <4>1 DEF Excused
      <4>2. j # i
        <5>1. lines[i].lease = "none"  BY <1>1 DEF OutInv, Agree, Kept
        <5> QED  BY <3>3, <5>1
      <4> QED  BY <4>1, <4>2
    <3>4. CASE ArrivedBefore(j, k)  BY <1>3, <3>4 DEF Excused
    <3>5. CASE lines[j].state \in NeverLeft
      <4>1. j # i  BY <1>1, <3>5 DEF NeverLeft
      <4> QED  BY <1>12, <3>5, <4>1 DEF Excused
    <3>6. CASE lines[j].state = "READY" /\ ~InHand(j)
      <4>1. lines'[j].state = "READY"  BY <1>1, <1>12, <3>6
      <4> QED  BY <1>5, <3>6, <4>1 DEF Excused
    <3> QED  BY <3>1, <3>2, <3>3, <3>4, <3>5, <3>6 DEF Excused
  <2> QED  BY <2>1, <2>2
<1> QED  BY <1>3, <1>5, <1>8, <1>9, <1>10, <1>11, <1>13, <1>14, <1>15 DEF OutInv

----------------------------------------------------------------------------
LEMMA OutStep == OutInv /\ [Next]_vars => OutInv'
<1> SUFFICES ASSUME OutInv, [Next]_vars PROVE OutInv'  OBVIOUS
<1>1. ASSUME NEW t \in Turns, BeginTurn(t) PROVE OutInv'  BY <1>1, BeginTurnKeeps
<1>2. ASSUME NEW parts \in 1..MaxLines, Reply(parts) PROVE OutInv'
  <2>1. parts \in Nat  BY OutboxAssumption
  <2> QED  BY <1>2, <2>1, ReplyKeeps
<1>3. CASE WritePart  BY <1>3, WritePartKeeps
<1>4. CASE PublishPart  BY <1>4, PublishPartKeeps
<1>5. CASE DenyPart  BY <1>5, DenyPartKeeps
<1>6. ASSUME NEW outcome \in {"COMMITTED", "FAILED"}, EndTurn(outcome) PROVE OutInv'
  BY <1>6, EndTurnKeeps
<1>7. ASSUME NEW i \in Lines, TakeBack(i) PROVE OutInv'  BY <1>7, TakeBackKeeps
<1>8. CASE TurnStep  BY <1>1, <1>2, <1>3, <1>4, <1>5, <1>6, <1>7, <1>8 DEF TurnStep
<1>9. ASSUME NEW lane \in Lanes, OutboxStep(lane) PROVE OutInv'
  BY <1>9, CancelDoomedKeeps, ClaimKeeps, RefuseClaimKeeps DEF OutboxStep
<1>10. ASSUME NEW i \in Lines, AdapterStep(i) PROVE OutInv'
  BY <1>10, SendKeeps, ReceiptKeeps, StatusIs DEF AdapterStep
<1>11. ASSUME NEW i \in Lines, Learn(i) \/ Forget(i) \/ TimePasses(i) PROVE OutInv'
  BY <1>11, LearnKeeps, ForgetKeeps, TimePassesKeeps
<1>12. CASE Crash  BY <1>12, CrashKeeps
<1>13. CASE Start  BY <1>13, StartKeeps
<1>14. CASE UNCHANGED vars
  <2>1. UNCHANGED <<lines, turn, up, worker, adapter, arrived, doubted, left>> /\ Lines' = Lines
    BY <1>14 DEF vars, Lines
  <2>2. OutboxTypes'  BY <2>1 DEF OutInv, OutboxTypes
  <2>3. HandIsTheEnd' /\ \A i : InHand(i)' <=> InHand(i)  BY <2>1, HandStays
  <2> QED  BY <2>1, <2>2, <2>3, WorkerMoves
<1> QED  BY <1>8, <1>9, <1>10, <1>11, <1>12, <1>13, <1>14 DEF Next

LEMMA OutInvHolds == Spec => []OutInv
<1>1. OutInv /\ [Next]_vars => OutInv'  BY OutStep
<1> QED  BY <1>1, OutInit, PTL DEF Spec

(* A conversation's lines leave once each, one by one, in the order she     *)
(* wrote them, for any number of turns, parts and disturbances.             *)
THEOREM LinesLeaveOneByOne == Spec => []OneByOne
<1>1. OutInv => OneByOne
  <2> SUFFICES ASSUME OutInv PROVE InOrder  BY DEF OutInv, OneByOne
  <2> SUFFICES ASSUME NEW k \in 1..Len(arrived), NEW l \in 1..Len(arrived), k < l,
                      arrived[l] < arrived[k],
                      lines[arrived[l]].kind = "chat", lines[arrived[k]].kind = "chat"
               PROVE  \/ arrived[l] \in doubted
                      \/ /\ lines[arrived[l]].lease = "over"
                         /\ lines[arrived[l]].turn # lines[arrived[k]].turn
    BY DEF InOrder
  <2> DEFINE i == arrived[l]
             j == arrived[k]
  <2>1. i \in Lines /\ j \in Lines /\ Arrived(i) /\ Arrived(j)  BY Lengths DEF Arrived
  <2>2. Gone(j)
    <3>1. lines[j].state \in LineStates  BY <2>1, Lengths DEF Row
    <3>2. ~Kept(j) /\ lines[j].state \notin NeverLeft  BY <2>1 DEF OutInv, Agree
    <3> QED  BY <3>1, <3>2 DEF Kept, Gone, LineStates, OnItsWay, Settled, NeverLeft
  <2>3. Excused(i, j)  BY <2>1, <2>2 DEF OutInv, LeftInOrder
  <2>4. ~Kept(i) /\ lines[i].state \notin NeverLeft  BY <2>1 DEF OutInv, Agree
  <2>5. ~ArrivedBefore(i, j)
    <3> SUFFICES ASSUME NEW m \in 1..Len(arrived), arrived[m] = i,
                        \A p \in 1..Len(arrived) : arrived[p] = j => m < p
                 PROVE  FALSE
      BY DEF ArrivedBefore
    <3>1. m = l  BY DEF OutInv, ShownOnce
    <3>2. m < k  OBVIOUS
    <3> QED  BY <3>1, <3>2, Lengths
  <2> QED  BY <2>3, <2>4, <2>5 DEF Excused, Kept
<1> QED  BY <1>1, OutInvHolds, PTL

(* Behind a chat part that failed, of which nothing was ever unknown, no    *)
(* later part of the turn is sent or delivered.                             *)
THEOREM NothingFollowsAFailure == Spec => []NoTailAfterFailure
<1>1. OutInv => NoTailAfterFailure
  <2> SUFFICES ASSUME OutInv, NEW i \in Lines, NEW j \in Lines,
                      lines[i].turn = lines[j].turn, lines[i].index < lines[j].index,
                      lines[i].kind = "chat", lines[i].state \in {"FAILED", "CANCELLED_AFTER_FAILURE"},
                      i \notin doubted, Gone(j)
               PROVE  FALSE
    BY DEF NoTailAfterFailure, Gone
  <2>1. i \in Nat /\ j \in Nat /\ lines[i].index \in Nat /\ lines[j].index \in Nat  BY Lengths DEF Row
  <2>2. ~(j < i)
    <3>1. j < i => lines[j].index < lines[i].index  BY DEF OutInv, Numbered
    <3> QED  BY <2>1, <3>1
  <2>3. i < j  BY <2>1, <2>2
  <2> QED  BY <2>3 DEF OutInv, SettledBehind, Settled
<1> QED  BY <1>1, OutInvHolds, PTL

(* What the rows say of a line, the platform shows. *)
THEOREM RowsAreTrue == Spec => []RowsTellTheTruth
<1>1. OutInv => RowsTellTheTruth  BY DEF OutInv, Agree, RowsTellTheTruth, Arrived
<1> QED  BY <1>1, OutInvHolds, PTL
=============================================================================

----------------------------- MODULE InputTurns -----------------------------
(***************************************************************************)
(* From a line to her turn: one conversation's inputs (ingress.py,         *)
(* chat.py receive, _work and recover_inputs, coordinator.py ingest,       *)
(* _advance, _run_turn and _absorb, the plugin's stageView).               *)
(*                                                                         *)
(* A platform line is saved, queued and given a turn of hers. While a turn *)
(* runs, further lines of the conversation may come into view between its  *)
(* requests: those she has then seen are marked as hers and get no turn of *)
(* their own. The adapter's posts, the conversation worker, a pending      *)
(* worker restart, a stop and a crash interleave. Rows and the session's   *)
(* log outlive the process; the queue, `enqueued` and the worker do not.   *)
(***************************************************************************)
EXTENDS Integers, Sequences, FiniteSets

CONSTANTS MaxLines,   \* bound: the platform lines, numbered by received_at
          Bound       \* bounds: how often each disturbance may happen

Disturbances == {"crash", "stop", "restart", "fail", "unsaved", "repost"}

ASSUME InputAssumption ==
    MaxLines \in Nat \ {0} /\ Bound \in [Disturbances -> Nat]

Lines  == 1..MaxLines
NoLine == 0

VARIABLES input,      \* rows: ingress_state of each line
          absorbed,   \* rows: the turn that took the line, absorbed_by
          episode,    \* rows: the state of the line's own turn
          receipt,    \* rows: the lane receipt of the turn's stage: the lines it saw
          marked,     \* session log: the lines before its last asuna/stage mark
          host,       \* the process: "up", "stopping" or "down"
          restart,    \* restart_pending
          pending,    \* the conversation's queue
          enqueued,   \* Chat.enqueued
          posting,    \* the post that holds ingress_lock, with the row it read
          worker,     \* the conversation worker: where it is, on which line
          shownBefore, \* observed: lines still waiting untaken when a turn began that earlier ones had shown
          answered,   \* observed: lines that waited in view of a turn that ended
          left        \* what is left of each bound

rows   == <<input, absorbed, episode, receipt>>
memory == <<host, restart, pending, enqueued, posting, worker>>
vars   == <<rows, marked, memory, shownBefore, answered, left>>

Settled   == {"COMPLETE", "FAILED", "NO_RETRIEVAL"}
Resumable == {"PREPARED", "TURN", "SPEAK_ACCEPTED", "INTERRUPTED"}
Answered  == {"SPEAK_ACCEPTED", "COMMITTED"}
None      == [saved |-> FALSE]
Nothing   == [at |-> "nothing"]
Idle      == [pc |-> "idle"]

(* The operators named Wrong... are slips the code below each could have    *)
(* had: the runs show that the properties notice them.                      *)

Arrived == {l \in Lines : input[l] # "none"}
Spend(kind) == left[kind] > 0 /\ left' = [left EXCEPT ![kind] = @ - 1]
Undisturbed == UNCHANGED left

At(pc) == worker.pc = pc
Line   == worker.line
GoTo(pc) == worker' = [worker EXCEPT !.pc = pc]

Init ==
    /\ input = [l \in Lines |-> "none"]
    /\ absorbed = [l \in Lines |-> NoLine]
    /\ episode = [l \in Lines |-> "none"]
    /\ receipt = [l \in Lines |-> None]
    /\ marked = {}
    /\ host = "up" /\ restart = FALSE
    /\ pending = <<>> /\ enqueued = {} /\ posting = Nothing
    /\ worker = Idle
    /\ shownBefore = {} /\ answered = {} /\ left = Bound

-----------------------------------------------------------------------------
(* Chat.receive, in two steps under ingress_lock: the row is saved, or the   *)
(* one already there is read; then it is queued if it waits and is not yet.  *)

Reading(l, state) == posting' = [at |-> "read", line |-> l, state |-> state]

PersistInput(l) ==
    /\ l \notin Arrived /\ 1..(l - 1) \subseteq Arrived
    /\ input' = [input EXCEPT ![l] = "ACCEPTED"]
    /\ Reading(l, "ACCEPTED") /\ Undisturbed

ReadDuplicate(l) ==
    /\ l \in Arrived
    /\ Reading(l, input[l]) /\ Spend("repost")
    /\ UNCHANGED input

Receive(l) ==
    /\ host = "up" /\ posting = Nothing
    /\ PersistInput(l) \/ ReadDuplicate(l)
    /\ UNCHANGED <<absorbed, episode, receipt, marked, host, restart, pending,
                   enqueued, worker, shownBefore, answered>>

Waits(l, state) == state = "ACCEPTED" /\ l \notin enqueued

Enqueue ==
    /\ posting # Nothing
    /\ IF Waits(posting.line, posting.state)
         THEN /\ enqueued' = enqueued \cup {posting.line}
              /\ pending' = Append(pending, posting.line)
         ELSE UNCHANGED <<enqueued, pending>>
    /\ posting' = Nothing
    /\ UNCHANGED <<rows, marked, host, restart, worker, shownBefore, answered, left>>

-----------------------------------------------------------------------------
(* Chat._work, the branch of an input.                                       *)

Take ==
    /\ At("idle") /\ host = "up" /\ ~restart
    /\ pending # <<>>
    /\ pending' = Tail(pending)
    /\ worker' = [pc |-> "taken", line |-> Head(pending), base |-> {}, seen |-> {}]
    /\ UNCHANGED <<rows, marked, host, restart, enqueued, posting, shownBefore, answered, left>>

(* Under state_lock: a stop abandons it, a pending restart puts it back.     *)
Hold ==
    /\ At("taken")
    /\ \/ host = "stopping" /\ UNCHANGED pending
       \/ host = "up" /\ restart /\ pending' = Append(pending, Line)
    /\ GoTo("finally")
    /\ UNCHANGED <<rows, marked, host, restart, enqueued, posting, shownBefore, answered, left>>

WrongSeenInTurn(l) == FALSE
SeenInTurn(l) == absorbed[l] # NoLine

Start ==
    /\ At("taken") /\ host = "up" /\ ~restart
    /\ IF SeenInTurn(Line)
         THEN input' = [input EXCEPT ![Line] = "COMPLETE"] /\ GoTo("finally")
         ELSE input' = [input EXCEPT ![Line] = "PROCESSING"] /\ GoTo("begin")
    /\ UNCHANGED <<absorbed, episode, receipt, marked, host, restart, pending,
                   enqueued, posting, shownBefore, answered, left>>

(* Coordinator.ingest of a new turn, advance of one that can be resumed; any *)
(* other turn is returned as it is.                                          *)
Begin ==
    /\ At("begin")
    /\ episode' = [episode EXCEPT ![Line] =
                     CASE @ = "none"        -> "PREPARED"
                       [] @ = "INTERRUPTED" -> "TURN"
                       [] OTHER             -> @]
    /\ GoTo(CASE episode[Line] = "SPEAK_ACCEPTED" -> "publish"
              [] episode[Line] \in Resumable \cup {"none"} -> "turn"
              [] OTHER -> "complete")
    /\ UNCHANGED <<input, absorbed, receipt, marked, host, restart, pending,
                   enqueued, posting, shownBefore, answered, left>>

(* The lines a turn may take: those of others that still wait, untaken.      *)
MayAbsorb(l) == l # Line /\ absorbed[l] = NoLine /\ input[l] = "ACCEPTED"

WrongReplayed(l) == FALSE
Replayed(l) == receipt[l].saved

(* A stage whose receipt was saved is replayed, never generated again.       *)
RunTurn ==
    /\ At("turn")
    /\ episode' = [episode EXCEPT ![Line] = "TURN"]
    /\ worker' = IF Replayed(Line)
                   THEN [worker EXCEPT !.pc = "absorb", !.seen = receipt[Line].seen]
                   ELSE [worker EXCEPT !.pc = "ask", !.base = marked]
    /\ shownBefore' = shownBefore \cup {l \in marked : MayAbsorb(l)}
    /\ UNCHANGED <<input, absorbed, receipt, marked, host, restart, pending,
                   enqueued, posting, answered, left>>

(* One request of the stage: it shows what the session's log has by then,    *)
(* her own line at least, and leaves its mark after them.                    *)
Request ==
    /\ At("ask") \/ At("stage")
    /\ \E shown \in SUBSET Arrived :
         /\ marked \cup {Line} \subseteq shown
         /\ At("stage") => shown # marked
         /\ marked' = shown
    /\ GoTo("stage")
    /\ UNCHANGED <<rows, host, restart, pending, enqueued, posting, shownBefore, answered, left>>

(* stageView: the lines since the last mark of an earlier stage.             *)
WrongSeenInputs == {Line}
SeenInputs == marked \ worker.base

EndStage ==
    /\ At("stage")
    /\ receipt' = [receipt EXCEPT ![Line] =
                     [saved |-> TRUE, seen |-> SeenInputs, view |-> marked]]
    /\ worker' = [worker EXCEPT !.pc = "absorb", !.seen = SeenInputs]
    /\ UNCHANGED <<input, absorbed, episode, marked, host, restart, pending,
                   enqueued, posting, shownBefore, answered, left>>

(* _absorb marks one row after the other.                                    *)
Absorb(l) ==
    /\ At("absorb") /\ l \in worker.seen /\ MayAbsorb(l)
    /\ absorbed' = [absorbed EXCEPT ![l] = Line]
    /\ UNCHANGED <<input, episode, receipt, marked, memory, shownBefore, answered, left>>

(* The turn ends: silent, waiting for a task, or with words to publish.      *)
EndTurn ==
    /\ At("absorb") /\ \A l \in worker.seen : ~MayAbsorb(l)
    /\ \E state \in Answered :
         /\ episode' = [episode EXCEPT ![Line] = state]
         /\ GoTo(IF state = "SPEAK_ACCEPTED" THEN "publish" ELSE "complete")
    /\ answered' = answered \cup {l \in receipt[Line].view \ {Line} : input[l] = "ACCEPTED"}
    /\ UNCHANGED <<input, absorbed, receipt, marked, host, restart, pending,
                   enqueued, posting, shownBefore, left>>

Publish ==
    /\ At("publish")
    /\ episode' = [episode EXCEPT ![Line] = "COMMITTED"]
    /\ GoTo("complete")
    /\ UNCHANGED <<input, absorbed, receipt, marked, host, restart, pending,
                   enqueued, posting, shownBefore, answered, left>>

Complete ==
    /\ At("complete")
    /\ input' = [input EXCEPT ![Line] = "COMPLETE"]
    /\ GoTo("after")
    /\ UNCHANGED <<absorbed, episode, receipt, marked, host, restart, pending,
                   enqueued, posting, shownBefore, answered, left>>

Finish ==
    /\ At("after") /\ GoTo("finally")
    /\ UNCHANGED <<rows, marked, host, restart, pending, enqueued, posting,
                   shownBefore, answered, left>>

(* A stage the lane did not finish, or whose words stay invalid.             *)
FailProtocol ==
    /\ At("stage") /\ Spend("fail")
    /\ episode' = [episode EXCEPT ![Line] = "FAILED_PROTOCOL"]
    /\ GoTo("complete")
    /\ UNCHANGED <<input, absorbed, receipt, marked, host, restart, pending,
                   enqueued, posting, shownBefore, answered>>

Raises == {"taken", "begin", "turn", "ask", "stage", "absorb", "publish", "complete", "after"}

(* An exception anywhere in the turn; a stop closes her lane under it.       *)
Raise ==
    /\ worker.pc \in Raises
    /\ At("taken") => host = "up" /\ ~restart
    /\ \/ Spend("fail")
       \/ host = "stopping" /\ worker.pc \in {"ask", "stage"} /\ Undisturbed
    /\ \E failure \in {"FAILED"} \cup IF At("begin") THEN {"NO_RETRIEVAL"} ELSE {} :
         worker' = [pc |-> "raised", line |-> Line, failure |-> failure]
    /\ UNCHANGED <<rows, marked, host, restart, pending, enqueued, posting, shownBefore, answered>>

Failure == worker.failure

(* The handler's first write, and the second it is followed by.              *)
InputFailed ==
    /\ At("raised")
    /\ input' = [input EXCEPT ![Line] = Failure]
    /\ GoTo("input failed")
    /\ UNCHANGED <<absorbed, episode, receipt, marked, host, restart, pending,
                   enqueued, posting, shownBefore, answered, left>>

TurnFailed ==
    /\ At("input failed")
    /\ episode' = [episode EXCEPT ![Line] =
                     IF @ \in {"none", "COMMITTED"} THEN @
                     ELSE IF host = "stopping" THEN "INTERRUPTED" ELSE "FAILED_RUNTIME"]
    /\ GoTo("finally")
    /\ UNCHANGED <<input, absorbed, receipt, marked, host, restart, pending,
                   enqueued, posting, shownBefore, answered, left>>

(* The store refuses the write: the handler gives up.                        *)
FailureUnsaved ==
    /\ At("raised") \/ At("input failed")
    /\ Spend("unsaved") /\ GoTo("finally")
    /\ UNCHANGED <<rows, marked, host, restart, pending, enqueued, posting, shownBefore, answered>>

(* `enqueued` is discarded under ingress_lock: not while a post holds it.    *)
WrongIngressFree == TRUE
IngressFree == posting = Nothing

Finally ==
    /\ At("finally") /\ IngressFree
    /\ enqueued' = enqueued \ {Line}
    /\ worker' = Idle
    /\ UNCHANGED <<rows, marked, host, restart, pending, posting, shownBefore, answered, left>>

-----------------------------------------------------------------------------
(* The Host process.                                                         *)

(* A publication asks for a worker restart, or what asked is overtaken.      *)
RestartPends ==
    /\ host = "up" /\ ~restart /\ Spend("restart")
    /\ restart' = TRUE
    /\ UNCHANGED <<rows, marked, host, pending, enqueued, posting, worker, shownBefore, answered>>

RestartWithdrawn ==
    /\ host = "up" /\ restart
    /\ restart' = FALSE
    /\ UNCHANGED <<rows, marked, host, pending, enqueued, posting, worker, shownBefore, answered, left>>

(* The restart is requested once no turn is active; a stop at any time.      *)
Active == worker.pc \notin {"idle", "taken"}

BeginStop ==
    /\ host = "up"
    /\ (restart /\ ~Active /\ Undisturbed) \/ Spend("stop")
    /\ host' = "stopping"
    /\ UNCHANGED <<rows, marked, restart, pending, enqueued, posting, worker, shownBefore, answered>>

ProcessGone ==
    /\ host' = "down" /\ restart' = FALSE
    /\ pending' = <<>> /\ enqueued' = {} /\ posting' = Nothing /\ worker' = Idle
    /\ UNCHANGED <<rows, marked, shownBefore, answered>>

EndProcess ==
    /\ host = "stopping" /\ At("idle")
    /\ ProcessGone /\ Undisturbed

Crash ==
    /\ host # "down" /\ Spend("crash")
    /\ ProcessGone

(* recover_inputs, before any client is served: a failure is taken up again  *)
(* only if no turn was begun and it was the retrieval's.                     *)
WrongRecoversWaiting(l) == input[l] = "ACCEPTED"
WrongRecoversBegun(l) == input[l] = "PROCESSING"
Recovers(l) ==
    \/ input[l] \in {"ACCEPTED", "PROCESSING"}
    \/ input[l] = "NO_RETRIEVAL" /\ episode[l] = "none"

WrongByReceivedAt(k, l) == k > l
ByReceivedAt(k, l) == k < l

Recovered == {l \in Lines : Recovers(l)}

RecoverInputs ==
    /\ host = "down"
    /\ host' = "up"
    /\ enqueued' = Recovered
    /\ \E order \in [1..Cardinality(Recovered) -> Recovered] :
         /\ \A i, j \in DOMAIN order : i < j => ByReceivedAt(order[i], order[j])
         /\ pending' = order
    /\ UNCHANGED <<rows, marked, restart, posting, worker, shownBefore, answered, left>>

Work == \/ Take \/ Hold \/ Start \/ Begin \/ RunTurn \/ Request \/ EndStage
        \/ (\E l \in Lines : Absorb(l)) \/ EndTurn \/ Publish \/ Complete \/ Finish
        \/ InputFailed \/ TurnFailed \/ Finally

Next == \/ \E l \in Lines : Receive(l)
        \/ Enqueue \/ Work
        \/ FailProtocol \/ Raise \/ FailureUnsaved
        \/ RestartPends \/ RestartWithdrawn \/ BeginStop \/ EndProcess \/ Crash
        \/ RecoverInputs

Spec == Init /\ [][Next]_vars

(* Threads keep running and a stage ends or fails; a pending restart is      *)
(* withdrawn or carried out; the Host is started again.                      *)
Fairness ==
    /\ WF_vars(Enqueue) /\ WF_vars(Work) /\ WF_vars(EndStage)
    /\ WF_vars(RestartWithdrawn \/ (restart /\ BeginStop))
    /\ WF_vars(EndProcess) /\ WF_vars(RecoverInputs)

LiveSpec == Spec /\ Fairness

-----------------------------------------------------------------------------
(* Properties.                                                               *)

Stage == [saved : {TRUE}, seen : SUBSET Lines, view : SUBSET Lines]
Working == [pc : (Raises \cup {"finally"}), line : Lines, base : SUBSET Lines, seen : SUBSET Lines]
Failing == [pc : {"raised", "input failed", "finally"}, line : Lines, failure : Settled]

(* The type invariant of the rows and of the Host's memory.                  *)
TypeOK ==
    /\ input \in [Lines -> {"none", "ACCEPTED", "PROCESSING"} \cup Settled]
    /\ absorbed \in [Lines -> Lines \cup {NoLine}]
    /\ episode \in [Lines -> {"none", "COMMITTED", "FAILED_PROTOCOL", "FAILED_RUNTIME"} \cup Resumable]
    /\ receipt \in [Lines -> Stage \cup {None}]
    /\ host \in {"up", "stopping", "down"} /\ restart \in BOOLEAN
    /\ pending \in Seq(Lines)
    /\ posting \in {Nothing} \cup [at : {"read"}, line : Lines, state : {"ACCEPTED", "PROCESSING"} \cup Settled]
    /\ worker \in {Idle} \cup Working \cup Failing
    /\ marked \cup shownBefore \cup answered \cup enqueued \subseteq Lines
    /\ left \in [Disturbances -> Nat]

Never(kind) == left[kind] = Bound[kind]
InHand(l) == worker # Idle /\ worker.line = l
Places(l) == {i \in 1..Len(pending) : pending[i] = l}

(* receive checks and queues, and _work forgets, under ingress_lock: a line  *)
(* posted again while it waits, runs or ends is not queued a second time     *)
(* (as long as no worker restart puts one back).                             *)
QueuedOnce == Never("restart") => \A l \in Lines :
    /\ Cardinality(Places(l)) + (IF InHand(l) /\ ~At("finally") THEN 1 ELSE 0) <= 1
    /\ Places(l) # {} => input[l] \notin Settled \ {"NO_RETRIEVAL"}

(* While the Host runs, each accepted line is on its way to the worker:      *)
(* through put-backs, recoveries and posts cut between their two steps.      *)
NoLineForgotten == host = "up" /\ Never("unsaved") => \A l \in Lines :
    input[l] = "ACCEPTED" => \/ Places(l) # {}
                             \/ InHand(l)
                             \/ posting # Nothing /\ posting.line = l

(* Both: an accepted line is carried to the worker, once.                    *)
CarriedOnce == NoLineForgotten /\ QueuedOnce

(* "the queue completes it without one": a line taken by another turn has    *)
(* no turn of its own, whatever failed or was restarted in between.          *)
AbsorbedGetsNoTurn == \A l \in Lines : absorbed[l] # NoLine => episode[l] = "none"

(* Turns begin in the order the lines came: when one begins, each earlier    *)
(* line is settled. A put-back by a restart and an unsaved failure excepted. *)
InArrivalOrder ==
    [][\A l \in Lines : /\ episode[l] = "none" /\ episode'[l] # "none"
                        /\ Never("restart") /\ Never("unsaved")
          => \A k \in 1..(l - 1) : input[k] \in Settled]_vars

(* "A native turn whose result was saved is replayed from it, never          *)
(* generated again", and a committed turn is not undone by a later failure.  *)
SavedWorkStands ==
    [][\A l \in Lines : /\ receipt[l].saved => receipt'[l] = receipt[l]
                        /\ episode[l] = "COMMITTED" => episode'[l] = "COMMITTED"]_vars

(* "the same line is never answered twice": a line that a turn that ended    *)
(* was the first to show gets no turn of its own.                            *)
AnsweredOnceUnlessShownBefore == \A l \in answered \ shownBefore : episode[l] = "none"

(* Every accepted line is settled, through crashes, stops and restarts, as   *)
(* long as the store takes the record of a failure.                          *)
InputsSettle == \A l \in Lines :
    input[l] \in {"ACCEPTED", "PROCESSING"} ~> input[l] \in Settled \/ ~Never("unsaved")
=============================================================================

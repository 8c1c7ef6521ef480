# AsunaCognitionCore in TLA+

Specifications of the Host of AsunaCognitionCore: how a message becomes a turn of the character brain, how a task she
delegates is run and its result brought back to her, how her words leave through a channel, how a plan of hers fires,
and how the Host and its worker come back after a fault, a publication or a restart she asked for. The modules are
model-checked with TLC on small instances; the theorems are checked by TLAPS for every value of the constants. Paths
below are relative to the repository root (`src/asuna/...`), which the other files here name `src/src/asuna/...`.

1. [The system](#1-the-system)
2. [Plan and state of the modules](#2-plan-and-state-of-the-modules)
3. [The modules and the code](#3-the-modules-and-the-code)
4. [What the runs check](#4-what-the-runs-check)
5. [Where the code and its own words differ](#5-where-the-code-and-its-own-words-differ)
6. [What is proved](#6-what-is-proved)
7. [What is not modelled](#7-what-is-not-modelled)
8. [Running the checks](#8-running-the-checks)

## 1. The system

Two model sessions do the thinking. The *character brain* speaks: one pass of it over an input is a **turn**, saved
as an `episode`. The *action brain* works: what the character brain delegates is a **task**, run under a lease by
the task worker, and its result is **handed back** to her as a turn of its own. All durable state is MongoDB rows
(`records/`, `store/`), every write of a row is conditional on the revision that was read.

Four kinds of process run it. The **launcher** (`tools/asuna-launch.mjs`, `asuna-supervisor.mjs`) stays and starts the
**Host**, a DSH server with the plugin `packages/cognition-core`, which keeps the native sessions' logs and the native
schedule. The plugin starts and replaces the **worker** (`src/asuna/native_worker.py`), where everything of `src/asuna`
runs and which speaks with the plugin in JSON lines. **Channel adapters** (`packages/channels/*`) post platform lines and
poll the outbox. The worker has these threads:

| thread | code | what it does |
|---|---|---|
| HTTP handlers | `host.py`, `channels.py` | posted lines, the outbox's claims and receipts, cancellations |
| requests of the plugin | `native_worker.py` `dispatch` | results and tool calls of stages, firings of plans, what the plugin has to tell |
| `asuna-chat` | `chat.py` `_work` | one item at a time from the fair queue: a line, a hand-back, a proactive item |
| `asuna-actions` | `chat.py` `_tasks`, `tasks.py` `Executor.run` | one task at a time, renewing its lease while it runs |
| time's up | `time_up.py` `_ask` | waits for her turn on the question of more time for a stage |
| watchdog | `chat.py` `sweep`, `handover.py` | each minute: orphaned runs, results nobody brings her |
| restart watch, restart desk | `host.py`, `restarts.py` | pending worker restarts; her own request for a restart of the Host |

They share rows, the queue, `Chat.enqueued`, `Chat.handbacks`, the pending stages and the locks `ingress_lock`,
`state_lock`, `pending_lock` and the effects lock (a thread lock and a file lock, `queue.py`).

### Components

| component | its state | its operations | hard behaviour | correct when | status |
|---|---|---|---|---|---|
| Fair queue (`router.py`) | per-scene lists, the rotation, the streak | `put`, `pop` | a busy scene beside waiting ones | no scene with items is missing from the line; no scene waits for ever | modelled |
| Watchdog (`handover.py`) | none of its own: decides on rows and a snapshot of `handbacks` | `waiting`, `lost`, `next_step` | decides on state that moves | a result reaches her or is given up, once | modelled |
| Chat host (`chat.py`) | queue, `enqueued`, `handbacks`, the worker's item, `task_queue`, `scheduled` | `receive`, `_work`, `_tasks`, `hand_back`, `sweep`, `stop`, `recover_inputs` | put-backs under a pending restart, stop between two steps, repost of a running line | nothing accepted is forgotten, queued twice, or served out of order | partly |
| Coordinator (`coordinator.py`) | episodes, lane receipts | `ingest`, `advance`, `_run_turn`, `_absorb`, `queue_reply` | a turn cut by a crash and resumed; lines seen during a turn | saved work is not generated again; a line has one answer | partly |
| Task service and executor (`tasks.py`) | task rows with lease and fence | `claim`, `valid`, `feedback`, `cancel`, `close_orphan`, ... | a stale worker, cancellation at any moment, an erasure | a result is owed once and never overwritten | partly |
| Tool broker (`tasks.py` `ToolBroker`), effects lock (`queue.py`) | artifact rows by call key, bound sessions, the lock's holder | `bind`, `call` | a call delivered twice, cut by a crash, or running when its task is cancelled | a call runs once, is answered alike, and no local tool outlives its task | partly |
| Stage limit (`time_up.py`), stage wait (`native_worker.py`) | the clock of a stage, `time_up` and `time_more` of the task | `due`, `_ask`, `_outcome`, `started`, `grant` | an extension racing the cut; an ask left behind | time she gave is not cut; every stage ends | partly |
| Channels and outbox (`channels.py`, `publish.py`) | message rows and their `send_state` | `queue_reply`, `publish`, `claim`, `receipt`, `cancel_after`, `recover_sending` | lost answers, dead adapters, two lanes | nothing shown twice, out of order, or said to be what it is not | partly |
| Schedule (`schedule.py`, the plugin's `schedule.js`) | plan rows, the native log, the mark of what was delivered | `create`, `update`, `cancel`, `deliver`, `_rearm`, `reconcile` | a crash between the native call and the row; a firing of a record just replaced | one event for an occurrence, none lost, an active plan armed | partly |
| Host process (`host.py`) | `restart_pending`, `stopping` | start-up recovery, stop, pending restart | crash between two steps of anyone | recovery finds all that was owed | partly |
| Restart desk and host stops (`restarts.py`, `host_stops.py`) | `pending.json`, `request.json`, `last.json`, stop rows | `request`, `cancel`, `go`, `record`, `left_behind` | a process that dies between two files | a request is carried out once; a stop is told for what it was | partly |
| Database lease (`host_lease.py`) | one document: holder, expiry, planned mark | `acquire`, `_renew`, `__exit__`, `mark_planned` | a machine that sleeps past its lease; renewals that fail; takeover between two operations of a start | one running Host for a database; a cut run is told, by whom it is of | modelled |
| Launcher and floor (`asuna-launch.mjs`, `asuna-supervisor.mjs`, `floor.js`) | `activation.json`, `launch.json`, the rung | `supervise`, `advanceSelection`, `revertSelections`, `applySelection`, `publish`, `workerReady` | a version that does not start, a start cut from outside | a version that has run comes back | partly |
| Plugin: the worker's starts (`index.js`, `outage.js`, `restart-tell.js`, `worker.js`) | `initializing`, `worker`, `restarting`, two files of what is to be told | `ready`, `workerFailed`, `startAgain`, `restart`, `handOver`, `dispose` | starts that overlap, exits during a hand-over | she comes up again and every outage is told once | partly |
| Native worker (`native_worker.py`) | pending stages, sessions | `initialize`, `close`, the wait of a stage, `dispatch` | a result for a stage that is gone | see the modules it is part of | partly |
| Plugin: sessions | the session log and its `asuna/stage` marks | `stageView`, compaction, context delivery, held lines | asynchronous projection of lines into a running stage | reports what a stage newly saw | `stageView` only |
| Audit (`state.py`) | `commits` beside the rows | `put`, `recover_commits` | crash between row and record | every write has its record | not modelled |
| Questions, notes, errands | rows | settle, close | a delivery repeated or late | one answer for a question | not modelled |
| Channel adapters | the QQ adapter's journal | claim, send, receipt | send without an answer | external; by what the Host accepts | external |
| Context, memory, people, affect, media, integration, CLI | | | ranking, wording, bytes | | not modelled |

How they interact: a line goes *adapter → `Chat.receive` → fair queue → `_work` → coordinator → native stage →
`_absorb` → `queue_reply` → outbox → adapter*. A delegated task goes *stage → task row → `_tasks` → `Executor.run` →
(its stages, their tool calls through the broker, their clock) → `feedback` row → `hand_back` → fair queue → `_work` → a
feedback turn → the row saved*, with the watchdog reading the same rows from the side. A plan goes *her tool call →
native record and row → firing in the native log → `deliver` → an internal event → a turn*. Around all of them: *launcher
→ Host → plugin → worker*, each restarting the next, and her request for a restart going the other way through files.

The hazards these behaviours carry are listed, each at its line, in `PROJECT.json`; the properties of the runs are
aimed at them.

## 2. Plan and state of the modules

Ordered by what would hurt most if it were wrong.

| # | module | models | abstract specification | state |
|---|---|---|---|---|
| 1 | `FairQueue`, `FairQueueWaits` | `router.py` | bounded waiting | checked; safety and the bound on waiting proved |
| 2 | `TaskHandback` | a task, its run, its hand-back, the watchdog, crash and restart | `ResultDelivery` | checked; types and every safety property proved, the implementation of `ResultDelivery` among them |
| 3 | `Outbox` | a conversation's lines through claim, send and receipt | | checked; all three safety properties proved |
| 4 | `InputTurns` | a line's way to its turn | | checked; types and every safety property proved |
| 5 | `ToolCalls` | the broker, the effects lock, a stage's wait and clock | | checked; types and every safety property proved |
| 6 | `Restarts` | the launcher's ladder, the selection of versions, her desk, how a stop is told | | checked; every safety property proved |
| 7 | `WorkerStarts` | the plugin's starts and replacements of its worker, what is told of them | | checked; types and every safety property proved |
| 8 | `Schedule` | a plan, its native records, firings, arming, the start's mending | | checked; every safety property proved |
| 9 | `DatabaseLease` | several deployments on one database, suspension, takeover | | checked; types and both safety properties proved |
| 10 | `AuditStore` | `state.py` `put`, `recover_commits` | every row's revision has a record | not written |
| 11 | `Questions`, `EffectsLock`, plugin compaction, QQ journal | | | not written |

Composition: `TaskHandback` uses a plain sequence for the conversation queue, since all hand-backs checked belong to
one scene or their order across scenes does not matter to its properties; `FairQueue` states what the real queue adds.
`InputTurns` stops where a turn publishes and `Outbox` begins there. `ToolCalls` is what `TaskHandback` has as the run
of a task, opened. `WorkerStarts` takes from `Restarts` that the supervisor starts the Host again, which `HostComesBack`
checks there; `Restarts` takes the worker of a Host as one process, whose replacements `WorkerStarts` opens. Both have one
deployment and no clock; `DatabaseLease` has the clock and several deployments, and a Host as one process.

Every invariant and every action property that a run checks has a theorem. What the plan has left is rows 10 and 11,
and the parts of the system that section 7 lists.

## 3. The modules and the code

`PROJECT.json` maps every definition to its lines. This section says how state and actions correspond, and what each
module leaves out. In every module `left` holds what is left of the bounds: each disturbance (a fault, a crash, a
cancellation, ...) spends one, and nothing else depends on it. Operators whose names begin with `Wrong` (and
`RotatesLate`, `LineTurnedBack` in `FairQueue`) are slips the code could have had; no specification uses them.
`mutants` in `PROJECT.json` pairs each with the property that notices it. "Observed" variables are history: no guard
reads them.

### FairQueue, FairQueueWaits

`queues`, `scenes`, `last` and `streak` are the fields of `router.FairQueue`; `Put` and `Pop` are its two methods,
one step each because both run under the queue's condition. `FairQueueWaits` only observes: for each waiting
conversation, how often in a row it was passed over and how many items were served before it. There are finitely many
conversations (`FairQueueWaitsAssumption`).

### ResultDelivery, TaskHandback

`ResultDelivery` is the promise: a task is *open* until it has a result, the result is *owed* until she has *taken*
it or it was *closed* without her, and *cancelled* is final. `TaskHandback` has the rows and threads, and maps to it
by `Phase`, the reading of a task row (`DeliverySpec`).

| variable | code |
|---|---|
| `task` | task row: `state`, lease and its `fence`, `feedback_state`, `feedback_episode`, `handback_failures`, `handback_short_failed` |
| `turn` | state of the feedback episodes of the full and the short version |
| `asked`, `moved` | state of the delegating episode; the scene's policy epoch differs from the task's |
| `up`, `stopping`, `restartPending` | the process |
| `scheduled`, `taskQueue`, `exec` | `Chat.scheduled`, `Chat.task_queue`, where the task worker is and with which fence |
| `handbacks`, `pending`, `conv` | `Chat.handbacks`, the queue, where the conversation worker is and on which item |
| `sweep` | where the watchdog is, with the snapshots it decides on |

Actors: the task worker (`ExecStep`: take, claim, run, report, or fail at any of them), the conversation worker
(`ConvStep`: take, hold or put back, begin, advance, end of the turn, save of the row, exception and its handler),
the watchdog (`SweepStep`: snapshot, orphans one by one, lost results one by one, each read again before it is acted
on), the process (`HostStep`: stop, end, crash, start with its recovery, a restart that pends and is withdrawn) and
the environment (a cancellation, an erasure, a lease that nobody renews running out, a follow-up task settling).

Abstractions. The intent's revision is dropped: only a cancellation changes it, and that also makes the row
`CANCELLED`. The states of an open turn (`PREPARED`, `TURN`, `SPEAK_ACCEPTED`, `ATTENDING`) are one, `TURN`; task
states that nothing writes any more are left out. The failure counter stops at the value the code compares it with.
Recovery at the start is one step, since no worker runs yet. A busy workspace lease is a fault. A cancelled task is
not cancelled again. Reading is not separate from the write that a revision makes conditional on it; where code
reads, works and then writes (`sweep`, a turn, a run) the steps are separate and the stale value is part of the state.

### Outbox

`lines` are the message rows of one conversation in `scene_seq` order: their turn, their index in it, kind, pacing,
`send_state` and whether the claim's lease runs. `worker` is the conversation worker in `queue_reply` and `publish`,
part by part: a publication that is refused (`DenyPart`) is answered to her by the tool call (`role_tools.py:1553-1557`),
leaves its part and those after it `READY`, and the turn goes on, may speak again, and is committed or fails. `adapter` is what the adapter knows of each line it claimed, `arrived` what the platform shows.
`Claim(lane)` is the whole of `claim`: the choice of the next line on that lane with all it holds back, and the
cancelling of what follows a failure (`CancelDoomed`) where the code does it first. `Receipt` is the handler with
its refusals, `Start` is `recover_sending`, `TakeBack` her taking a queued line back. The adapter is external: it may
send what it holds with any outcome, tell it or die with it, and be lost an answer.

Other conversations are left out since `held` is per scene; attempt ids because a line is handed out once; the
recall of a delivered line, redaction, the bytes of attachments, the local sink and group administration.

### InputTurns

| variable | code |
|---|---|
| `input`, `absorbed` | `ingress_state` and `absorbed_by` of a line's row; lines are numbered by `received_at` |
| `episode`, `receipt` | the line's own turn; the lane receipt of its stage with the lines it newly saw and (for the properties) all it showed |
| `marked` | the session's log: the lines before the last `asuna/stage` mark |
| `host`, `restart`, `pending`, `enqueued`, `posting`, `worker` | the process, `restart_pending`, the queue, `Chat.enqueued`, the post inside `ingress_lock`, the worker |
| `shownBefore`, `answered` | observed only |

`Receive` and `Enqueue` are the two halves of `Chat.receive`, between which the worker may move. `Take`, `Hold`,
`Start`, `Begin`, `RunTurn`, `Request`, `EndStage`, `Absorb`, `EndTurn`, `Publish`, `Complete`, `Finish`, `Finally`
follow a line through `_work`, the coordinator and the plugin; `Raise` is an exception at any of them, with the
handler's two writes (`InputFailed`, `TurnFailed`), either of which the store may refuse (`FailureUnsaved`).

Abstractions. One conversation; lines of other people only (her own initiative, errands, notes, the gate
`ATTENDING`, and feedback turns sharing the session are left out). A request shows any set of arrived lines that
includes its own and what was shown before, because the projection into the session is asynchronous. Repairs of a
stage belong to the stage. `COMMITTED` stands for `WAITING_TASK` too: both end the turn with its input complete.
`NO_RETRIEVAL` is the `FAILED` whose failure names the retrieval, which alone is taken up again. Stage generations are
dropped, as a further one exists only while no receipt is saved. A process that is ended at its join timeout is a
crash.

### ToolCalls

| variable | code |
|---|---|
| `task` | the task's row: `state`, the mark `time_up` (`mark`), the blocks she gave, `time_more` (`more`) |
| `art` | the artifact row of each call, by its key: `state` and `input_hash` |
| `thread` | each request being served: admitted, session bound, intent written, tool running, tool back |
| `lock`, `bound` | who holds the effects lock while a tool works; the sessions bound in `ToolBroker` |
| `exec`, `future` | the executor's thread and its stage; what the stage's future holds |
| `clock`, `threads` | `StageClock`, its times as ticks from now; the `task_time` threads that wait for her |
| `fencing` | a cancellation that has not yet reached the stage |
| `told`, `runs` | observed: the outcomes answered, and how often each tool ran |

`Deliver`, `Bind`, `Accept`, `RunTool`, `Raise`, `Recheck`, `Finish` follow a request from `dispatch` through
`ToolBroker.call`; `Register`, `NativeResult`, `TaskFenced`, `Leave`, `Report`, `Fail` follow a stage through
`NativeLane` and the executor; `Ask`, `SeeMore`, `SeeTurn`, `Expire`, `Decide`, `ClockFails`, `Tick`, `Ended` are
`StageClock`; `TurnStarts`, `Grant`, `Cancel` are her side; `Crash`, `Start` the process.

Abstractions. An input is a tool with its arguments, of three kinds that the broker treats differently: one that works on
files (under the lock), one that only reads elsewhere (without it), one of an integration (gated by a session, not checked
again after it). A local tool is brief: no minute passes while one works, and a cancellation reaches the stage before a
minute does. Lease expiry and erasure are in `TaskHandback`. `private_words` of a call is wording. A grant that a pending
restart refuses changes nothing, and is a stutter.

### Restarts

| variable | code |
|---|---|
| `pkg` | what git has (`tree`), `launch.json` (`inst`), what is installed (`disk`), `activation.json` (`active`, and the selection `sel`: version, state, previous one, unconfirmed starts) |
| `sup`, `last` | the supervisor, its rung and the record it writes down; `last.json` |
| `host`, `desk` | how far the Host's worker has come; the desk's `pending` and the request `go` holds |
| `files`, `ripe` | `pending.json` and `request.json`; the requests whose time has come |
| `lease`, `rows` | the database lease and its planned mark; the stop rows |
| `ran`, `fate`, `carried`, `blind`, `cause` | observed: versions that came up; what became of each request; requests whose stop could not be told as planned; why a Host left its lease |

`Prepare` installs what a rung starts; `StartFails`, `SeesReady`, `TakeRequest`, `Noted` and `RecordExit` are the rest of the supervisor.
`Acquire`, `Loaded`, `OpenDesk`, `RuntimeReady`, `WorkerReady` are the Host's start; `Ask`, `CancelAsk`, `Due`, `Take`,
`Mark`, `Write` the desk, `go` being the last three; `Publish` and `FastForward` bring new versions; `HostExits`, `Stopped`,
`ReplaceWorker` end processes and `LauncherStarts` begins again.

Abstractions. One package and one project stand for all. The windows of time always hold: the 600 seconds of a planned mark
and of a repeated crash, the half hour of a waiting record. A written request is taken sooner than an in-place replacement of
the worker can end. A publication that became `APPLIED` passed its boot probe, so it is a good version. Preparing a start
is one step except where it fails. `last.json` may fail to be written at `RecordExit` only.

### WorkerStarts

| variable | code |
|---|---|
| `init`, `cur`, `rs`, `again` | the plugin's `initializing`, `worker`, `restarting`, and whether another restart was asked for meanwhile |
| `att` | each start: *pre* (no worker of its own yet), *spawned*, *init* (its `initialize` is out), *late* (its last calls), *cut*, *failing* |
| `timers`, `exited` | what waits for a delay; an exit the plugin has not handled |
| `hand`, `retry` | `handOver`, its step and batch, and the repetition it set |
| `proc`, `lock`, `lease` | worker processes, the file lock one of them holds, the database lease |
| `span`, `entries` | `worker-down.json`, `restarts-to-tell.json` |
| `rows`, `told`, `stops` | rows of `host_stops`: outages, restarts, stops of the Host |
| `down`, `outage`, `asks`, `came`, `early`, `kills`, `ends`, `unheard`, `overlap` | observed; `ends` counts the clean ends of the Host |

`AttemptStep`, `RestartStep`, `HandStep`, `WorkerStep` and `HostStep` are the plugin's asynchronous functions, cut at
every `await`, and the processes beside them. A start whose worker is gone runs on until an `await` of its own tells it;
that is where the code is delicate and the reason each start is a record of its own.

Abstractions. `ApplySettings` is the step after the validation: a restart that began meanwhile is the one whose start it
then takes for its own. The plugin's timers fire in any order. Calls of the page are one kind. What the worker does once it is up is
in the other modules.

### Schedule

| variable | code |
|---|---|
| `records`, `fired`, `through` | DSH's native records; its log of dispatches; the plugin's mark of what was answered |
| `plan` | the plan's row: rule, status, version, native id, last firing handled, revision |
| `her` | her turn's plan call: `create`, `update`, `cancel`, step by step |
| `hand` | the thread that delivers firings, or at a start goes through the log (`reconcile`) |
| `acted`, `dropped`, `rules`, `apart` | observed: firings that became an event, those that did not; what went wrong on the way |

Abstractions. One plan. Two calls that follow each other with nothing between that another thread could change (a read and
the save of the same revision) are one step. `through` is kept over a crash, as when the worker alone dies; a Host that
died would have the log handed over again from its beginning, all of it handled by then or taken up as at any start. A repeating record does not fire again during one call of hers. Rhythms,
suspension, titles, the migration of old rows and time zones are left out.

`apart` names the conditions under which the properties are stated: a native call that failed (`native`), an update cut by
a crash (`cut`) or refused because the row had changed (`refused`), one saved while a firing was handed over or whose record
the arming took (`crossed`), a record that fired before the plan named it (`early`), a start that armed twice (`doubled`).
Section 5 lists what the code does then.

### DatabaseLease

| variable | code |
|---|---|
| `row` | the document `host` of `host_leases`: `instance` (`by`), the ticks left to `expires_at`, `planned_stop` (`mark`) |
| `host` | each deployment's Host: where it is in `acquire`, `left_behind` and `planned` as it found them, when `_renew` acts next and whether it just failed |
| `asleep` | the machines that are suspended |
| `late`, `ended` | observed: the Hosts that were suspended or missed two renewals in a row; how the last run of each deployment ended |

`Find`, `Take` and `Insert` are the three operations of `acquire`; `Renew` and `MissRenewal` the loop of `_renew`; `Release`
and `ReleaseFails` are `__exit__`; `MarkPlanned` is `mark_planned`, which a running Host calls on whoever holds the lease.
`Kill`, `Suspend`, `Resume` and `Tick` are the environment: a suspended machine takes no step and is due no renewal, while
the server's clock goes on.

Abstractions. A tick is what lies between two renewals or a part of it; a renewal comes a little later than its tick, so that
a lease with no tick left may be taken before it is renewed. The age of a mark is needed only at the last renewal
(`left_behind` less `at`), where the lease keeps it (`kept`), counted to one past the window. Within a deployment the file
lock lets one Host run at a time; two containers on two machines with one host id are not modelled. A mark carries who set it
and whether it survived a takeover (`by`, `late`, `old`): observed. A deletion that fails spends the same bound as a missed
renewal. A Host that stops, is killed or is refused starts again.

## 4. What the runs check

Every run finishes within a few minutes. Deadlock is checked for the queue; the other models really stop when every
task is settled, every line arrived and every disturbance is spent.

| run | instance | shows |
|---|---|---|
| `fair_queue` | 3 conversations, 3 items each, streak up to 6 | at most two items of one before a waiting peer; every wait bounded by twice the others |
| `handback` | 1 task; 3 faults, every other disturbance once | the row implements `ResultDelivery`; a finished result and a cancellation stand; one version at a time, the short one only after the full one failed, read in one turn; on its way at most once and never marked so while nothing carries it |
| `handback_live` | 1 task; fault, protocol failure, delegation, crash and a worker restart once | every owed result is settled; no task stays `RUNNING` |
| `outbox` | 2 turns, 3 lines, the third part of a turn a file; every disturbance once | nothing twice, out of order or two at once, nothing after a failure, the rows are true |
| `outbox_live` | 1 turn, 3 lines, the second a file; a refused publication, a failed turn, a lost answer and a crash, once each | every line handed out is settled, unless its own answer was lost or an earlier part that nobody carries on holds it |
| `inputs` | 2 lines; every disturbance once | no accepted line forgotten or queued twice; a line taken by a turn has none of its own; order of arrival; saved work stands; every line settled |
| `tool_calls` | 1 call with three inputs, 2 threads, a block of 2 ticks, a window of 1; one stage with two requests at once, two stages with one and a block given, two stages with three blocks given | a tool runs once; answers stand; no local tool outlives its task; the clock asks for the stage alone and ends it; what she gave is not cut |
| `restarts` | 3 versions, the third bad, 2 requests; three sets of bounds: requests through everything that ends a process, versions that come and fail, starts cut from outside | a request is carried out once and kept; its stop is told as planned; falls back to what ran; the Host comes back |
| `worker_starts` | 3 workers, 2 starts at a time; nine sets of bounds: exits, ends, requests, what they cut, slow closing, settings applied and restored, settings that join a restart under way, an exit or a failed start while the Host stops | she comes up; outages and restarts are told, and truly; no worker is left with the lock |
| `schedule` | a plan of each rule; six sets of bounds: one to three firings, up to two changes, a crash, a failing native call, a refusal | a plan due once acts once; of two versions one acts; no firing is passed over; an active plan is armed; an ended one stays so |
| `database_lease` | 2 deployments, a lease of 3 ticks renewed at each, a mark that counts for 1; five sets of bounds: kills, misses, two kinds of sleep, everything once | one running Host but for late ones; a mark and a cut run are told by the right deployment; the database is served |
| `restart_told` | the bounds of one fallback | what section 5 says |

Where a module has a *set* of bounds, its initial state chooses one, and `max` or `left` holds it from then on: one run
checks the union.

### Bounds, and why they are enough

- *Queue.* Three conversations let a rotated one end behind two others, three items let one stay in the line for
  more than the two it may have served. The streak is compared with 2 only. The proof covers every set.
- *Tasks.* Three faults are what it takes to reach the short version (two failed reports) and fail it too. Tasks meet
  only in the queue, the worker's hands, `handbacks` and the sweeps, which the two queue properties speak of and the
  proofs cover for any number of tasks. `handback` has no restart that is withdrawn, because of the second departure of tasks and
  inputs in section 5; `handback_live` has.
- *Outbox.* A part is held by an earlier part of its turn or by an earlier turn's line: three lines over two turns
  give both, a file as the third the two lanes. Turns are interchangeable, so symmetry is sound in that safety run
  (it is not used with liveness). One turn whose second part is a file has every shape of hold that `LinesSettle`
  speaks of: a chat part after a chat part of its turn, and a file on the other lane between them.
- *Inputs.* A line absorbed needs another that absorbs; a third adds a longer queue only.
- *Tool calls.* A call races itself, the task's end and a cancellation; calls of different keys share the lock only,
  and are otherwise independent. A stage's clock is reset with the stage: two stages show what one leaves behind. Three
  blocks given pass the one that is free. A window may be longer than a block (a block is configured from one second up, the
  window is ten minutes), so a stage's time is bounded by the longer of the two for each grant; the run has the usual order,
  the proof any.
- *Restarts.* Two publications over a first version are what a fall-back past one needs; three starts cut from
  outside are one more than `MAX_UNCONFIRMED_STARTS`. Two requests meet in the two files.
- *Worker starts.* Three workers: the one of the plugin, one that ends, one of an overlapping start. Every pair of the
  disturbances that the code distinguishes is in one of the nine sets.
- *Schedule.* A firing, the record that replaces it and a third are what "passed over" and "armed twice" need; two changes
  let one meet the other's record.
- *Database lease.* Two deployments: a third one would only wait beside the second. Three ticks and a renewal at each are the
  ratio of the code (90 and 30 seconds), so two misses in a row reach the expiry and one does not. The ten minutes of a mark
  are one tick: a renewal before the stop puts it at the window, two beyond it.
- *Disturbances.* One of each gives every pair of different kinds, and the hazards listed are of a kind with itself
  only for faults, exits and requests, which are bounded higher.

### Fairness

Weak fairness on each thread's steps: they are loops of a running process that block on a queue with something in
it. Also: a stopped or crashed Host is started again (checked by `HostComesBack`); a pending restart is withdrawn
or carried out (`host.py` watches it); a lease that nobody renews runs out; an adapter goes on polling, sends what it
holds and tells, and time passes. A stage ends, because the native lane is cut at its time limit (`ClockIsKept`). Timers of the
plugin run out. In `Restarts` a start of a *bad* version fails; a start of a good one may fail only as often as the
bound says. In `DatabaseLease`
time passes, and a Host whose machine is awake goes on, its launcher starting it again when it was refused or ended; nothing
forces a machine to wake up, and `IsServed` asks nothing while all of them sleep. Nothing is assumed of disturbances; each is bounded, so that "for ever failing" is not a behaviour: protocol
failures in particular are retried by the code without a limit of their own. `InputsSettle` says nothing of a failure whose
record the store refuses: the line then stays `PROCESSING` until the next start, which nothing forces. `LinesSettle` says
nothing of a line whose own answer was lost, whose fate is unknown by design until a start (`Lost`), nor of one whose lane has come
to a line that waits for an earlier chat part of its turn which nobody carries on (`HeldUp`): a lost one, or one left `READY`. `HostComesBack` says nothing once the
launcher is stopped or the install of a selection failed, `ComesUp` and `ToldInTheEnd` nothing once two starts have overlapped.

### The deeper properties

- `DeliverySpec`: the five actors' writes of one row, each with its own stale view, never take back what was settled.
- `VersionsInTurn`: the watchdog decides from an episode it does not hold; a crash between the turn's end and the row's
  save must not repeat the result, and an interrupted full turn must not compete with a short one.
- `NoForgottenHandback`, `OnItsWayOnce`: `handbacks` and the queue are changed in separate steps by three threads.
- `NoTailAfterFailure`, `OneByOne` (once, in order, one out at a time): the rule of what holds what in `claim`, under receipts that come late, by two lanes,
  with the sender dead.
- `RowsTellTheTruth`, and `ShownOnce` in `OneByOne`: at-most-once sending with answers lost on either side.
- `CarriedOnce` of `InputTurns`: `enqueued` against the two-step post and the worker's end of a line.
- `AbsorbedGetsNoTurn`, `AnsweredOnceUnlessShownBefore`: a line of another's turn, when that turn is cut, replayed or
  failed.
- `AnswersStand`, `NoLocalToolAfterTask`: a repeated call against the first one, a crash between its two writes, and a
  cancellation that must wait for the lock and be seen by what comes after it.
- `GivenIsNotCut`, `ClockIsKept`: an answer of hers, written by another thread, against the clock's reading of the row.
- `RequestStands`, `OwnRestartIsPlanned`: four writes by three processes for one request, any of which may be the last.
- `ToldInTheEnd`, `ToldCameBack`, `StopsAreOfTheHost`: two files written by the plugin and rows written by a worker it
  may lose in the middle.
- `ActsOnceUnlessCrossed`, `ActiveIsArmed`, `PassedIsHandled`: the native log and the plan's row, changed by a turn, a
  delivery and a start, without a transaction over both.
- `RunsAlone`, `StopBeforeIsTrue`: an expiry that three parties see at different times, under one missed renewal; and a takeover
  between the two operations with which a start reads and takes.

## 5. Where the code and its own words differ

One has a run that finds the counterexample.

**She is never called after a fallback** (`restart_told`, `CalledAfterFallback`). The call (`host.py:399`) runs inside
`Host.__enter__`, before the `runtime.ready` of `host.py:424` that the supervisor waits for. The supervisor gives
`last.json` its `fell_back` and `back_at` only then (`asuna-supervisor.mjs:154-165`), so `call_after_fallback` reads the
record of a start that is not back, returns `False`, and nothing calls it again. `restarts.py:320` and `:6-7` say that
a home turn calls her at once.

### Met while modelling, without a run

The properties of the runs are stated so that they hold beside these; many are an `Unless` of a property, or a
condition of it.

*Tasks and inputs.*
1. A result that led to further work can be read twice: `next_step` (`handover.py:69`) takes a feedback turn in
   `WAITING_TASK` for one that failed when the Host died before the row's save (the condition on `delegate` in `VersionsInTurn`).
2. A hand-back put back by a pending restart is queued twice once the restart is withdrawn: `_work`'s `finally` takes it
   out of `handbacks` all the same (`chat.py:540`).
3. Parts of a reply that were `READY` at a crash never leave: `publish_queued` is called by `Coordinator.recover`
   alone (`coordinator.py:653`), which nothing calls. The same holds of `recover_commits`, the repair of the audit. The parts of a
   refused publication stay `READY` as well (`DenyPart`): the refusal is her tool's answer and nothing takes them up again. Where the
   cause does not last (a conflict of the save, a route that is restored) later parts are queued behind them, and `READY` is
   in `PART_ON_ITS_WAY`: they hold every later chat part of the turn, and its conversation, for good (`channels.py:661-663`), unless
   she takes them back or an earlier part fails.
4. A dead adapter can hold a conversation: the next part of the turn whose part is on its way past its lease still waits
   for it, and holds the others (`channels.py:662`, `:895`), until a start. `LinesSettle` names this hold and the one of item 3
   (`HeldUp`); within the bounds of its run there is no other.
5. A line shown by a stage that a crash cut gets a turn of its own although the resumed turn answered it, because the cut
   stage left its mark in the session's log (`index.js:166`).
6. A turn `INTERRUPTED` by a stop is never resumed, though it counts as resumable: its line was set `FAILED`.

*Tool calls.* A task that once got `more` and is no longer `RUNNING` is not cut by the clock (`time_up.py:143-144`). Two
outcomes may be audited for one cut ask (`:13-14`). `turn_at` is read without the lock (`:104-107`). After a cut the stage
still accepts calls while `ended()` runs (`native_worker.py:351-354`).

*Restarts.* `due` reads `pending`, and `go` takes whatever is pending by then, due or not (`restarts.py:192-198`; `:4-5` says
at its time). A rung whose install fails is not tried again, and `loaded` reports the selection's digest all the same. A
transient fault of the first start is told as `fell_back`. A start killed as hung after it acquired the lease leaves a
second stop row. The write of the record when the Host is ready is not guarded. A request written just before the Host ends
is carried out by the next one, and told as a crash. A bad publication of Python alone is not taken back while the Host runs.

*Worker starts.* Two starts can overlap and leave a worker that holds the lock and nobody speaks with (`index.js:479-482`,
`:1214-1215`; `overlap`). A planned replacement whose closing takes more than five seconds is told as killed. An outage is lost if
the worker exits after writing its row, before the plugin heard the answer (`unheard`). A refused hand-over followed by an exit merges
two outages. A clean stop of the Host during a start opens a span. A start that fails between `acquire` and
`left_behind` loses the Host's stop. A restart asked for while another start makes its last calls is never told
(`:1216-1217`; `early`).

*Schedule.* `reconcile` (`schedule.py:1008-1043`) has one entry for each record of the log and judges each from the snapshot
read before the loop: a plan with several past records and a missing current one is armed once for each of them, though
`:949` says "只再挂一次", armed again only once, and `:1005-1006` names this slip of an old snapshot. A crash between the native creation and the save of an update lets `reconcile` take the firing for one of
an older version (`cut`). A firing between `reconcile`'s two readings of the log is swallowed. An update saved while a
firing is handed over is marked as fired under its new version, and an arming from a plan read earlier can overwrite it or take its record
(`crossed`). A failed native call in an arming leaves the plan unarmed until the next start (`native`). A cancellation cut
between deletion and save leaves an active plan without a record. A failed deletion may be adopted by a start
(`:1036-1040`). A record that fires before the plan is bound to it is named by the plan afterwards (`early`). A repeated
"after so many seconds" with the same text counts as no change. A delivery that met a conflict is tried again only with the next
reminder or start.

*Database lease.* A Host that was suspended past its lease, or missed two renewals, runs on beside the next holder: its
renewals match nothing, say nothing, and nothing else looks (`host_lease.py:95`; `late`). `mark_planned` has no filter on the
holder (`:120`), so such a Host marks the lease of another. "The lease outlives three of them" (`:97`): it outlives one
missed renewal for certain, and the second one's retry comes when it has just expired. A deletion that fails at a clean stop
is told as a stop from outside.

## 6. What is proved

For every value of the constants, with their named assumptions (`FairQueueAssumption`, `FairQueueWaitsAssumption`,
`TaskHandbackAssumption`, `OutboxAssumption`, `InputAssumption`, `ToolAssumption`, `RestartAssumption`, `WorkerStartsAssumption`, `ScheduleAssumption`,
`LeaseAssumption`: bounds are naturals, kinds are disjoint, the sets of tasks and of conversations are finite, a lease is longer than two renewals) and nothing else.

| theorem | module | says |
|---|---|---|
| `FairQueueSafe` | `Queues_proofs` | types; the line is the waiting conversations, each once; at most two before a waiting peer |
| `WaitsAreBounded` | `Queues_proofs` | a waiting conversation waits for at most two items of each other one |
| `LinesLeaveOneByOne` | `Queues_proofs` | no line is shown twice, one is out at a time, they arrive in the order she wrote them |
| `NothingFollowsAFailure` | `Queues_proofs` | behind a part that failed no later part of its turn goes |
| `RowsAreTrue` | `Queues_proofs` | what a row says left is on the platform, what it says did not is not |
| `TypeCorrect` | `TaskHandback_proofs` | types of rows and memory |
| `SettledForGood` | `TaskHandback_proofs` | only a cancellation changes a finished result's state; a cancelled task stays so, its feedback closed |
| `CarriedWhileMarked` | `TaskHandback_proofs` | nothing is marked as on its way while nothing carries it, restarts included |
| `OnItsWayAtMostOnce` | `TaskHandback_proofs` | without a pending restart, on its way at most once, and marked |
| `DeliversResults` | `TaskHandback_proofs` | without a pending restart, `TaskHandback` implements `ResultDelivery` |
| `VersionsTakeTurns` | `TaskHandback_proofs` | without a pending restart, her turns on the two versions of a result are never both open; without handed-on work one is read, and a result is given up only behind a short version that failed |
| `TypeCorrect` | `InputTurns_proofs` | types of rows, memory and session log |
| `TakenLinesGetNoTurn` | `InputTurns_proofs` | a line taken by another turn has no turn of its own |
| `SavedStands` | `InputTurns_proofs` | a saved stage is not generated again, a committed turn not undone |
| `LinesAreCarriedOnce` | `InputTurns_proofs` | an accepted line is in the queue, the worker's hands or a post, and in one of them |
| `TurnsBeginInOrder` | `InputTurns_proofs` | when a line's turn begins, every earlier line is settled |
| `ShownLinesGetNoTurn` | `InputTurns_proofs` | a line that a turn that ended was the first to show gets no turn of its own |
| `TypeCorrect` | `ToolCalls_proofs` | types of rows, threads and clock |
| `ToolRunsOnce` | `ToolCalls_proofs` | a call's tool runs at most once, crashes included |
| `OutcomesStand` | `ToolCalls_proofs` | every answer given is what the row holds for good |
| `LocalToolsStopWithTask` | `ToolCalls_proofs` | no tool under the lock works for a task that has ended |
| `ClockServesItsStage` | `ToolCalls_proofs` | an ask is of a stage that waits; a stage runs no longer than what it was given allows |
| `GivenTimeIsKept` | `ToolCalls_proofs` | a stage is not cut in the window in which she gave it more |
| `RequestCarriedOnce` | `Restarts_proofs` | a request of hers restarts the Host at most once |
| `RequestIsKept` | `Restarts_proofs` | one not cancelled, replaced, cut or carried out is on disk or in the desk's hands |
| `OwnStopToldPlanned` | `Restarts_proofs` | a stop that her request brought is told as planned |
| `FallbackRanBefore` | `Restarts_proofs` | what a fallback selects has run |
| `TypeCorrect` | `WorkerStarts_proofs` | types of the plugin, its workers and the files |
| `NoneLeftOver` | `WorkerStarts_proofs` | without overlapping starts, who holds the database is the plugin's worker or one that is closing |
| `StopsToldAreOfTheHost` | `WorkerStarts_proofs` | no stop of the Host is told that was none |
| `RestartsToldAreTrue` | `WorkerStarts_proofs` | every restart told is one that came back |
| `PassedAreHandled` | `Schedule_proofs` | no firing before the last one handled was passed over |
| `EndedPlansStand` | `Schedule_proofs` | a cancelled plan stays so, a fired one is never armed again |
| `ActsOnce` | `Schedule_proofs` | what is due once acts once; of two records armed at the same time one acts |
| `ActivePlansAreArmed` | `Schedule_proofs` | with nothing under way and nothing gone wrong, an active plan names a live record of its version |
| `TypeCorrect` | `DatabaseLease_proofs` | types of the lease, the Hosts and what is observed |
| `OneRunningHost` | `DatabaseLease_proofs` | a Host that was not late holds the lease while it runs; beside it only late ones run |
| `StopsBeforeAreTrue` | `DatabaseLease_proofs` | a start finds a cut run cut and a clean stop clean; one called planned was marked by its own run, or by a late Host |

**The arguments.**

- *Queue.* "At most two" speaks of the past, so the invariant ties it to the present: `OvertakenWithinStreak`, the count
  of times a waiting conversation was passed over in a row by the one last served is at most the streak. A rotation
  happens as soon as the streak is 2 with a peer in the line, and the line's being the waiting conversations says there is
  such a peer. `LineKeeps` says a rotation loses nobody. `WaitIsBounded` speaks of the past too: `PlaceAllows` turns it into
  what a place in the line still allows, two items for each conversation before it, less what the one at its head has
  used (`Used`). A pop either uses one of the head's two or sends it behind everyone, and whoever joins joins at the end.
- *Outbox.* `OutInv` compares three parties line by line (`Agree`: what the row says, what the adapter holds and what the
  platform shows), which is all that `RowsTellTheTruth` and "not twice" need. "One out at a time" (`OneOut`) is the hold of
  `claim` while the lease of the line before runs. The order needs what `claim` saw to stay true afterwards: `SettledBehind`
  says of a part that has gone that every chat part of its turn before it is settled or was once unknown, `LeftInOrder` says
  of any chat line that has gone what may still become of those written before it. Neither can be undone, since a line only
  moves on (`RowsStay`) and a line is written at the end (`HandIsTheEnd`).
- *Rows of a task.* The types are not inductive: the save of a feedback turn writes a value computed from that turn's
  state, which has a type only if the turn has ended. `EndedTurnSaved` says so. `RowsMove` then says what every step may do
  to a row, and the two halves of `SettledStands` (`FinishedStands`, `CancelledForGood`) follow from it; the second needs `CancelledClosed`, since the writes of stale
  workers are refused by the row's state and never by their own knowledge.
- *Queue of hand-backs.* `CarriedInv` adds `KeptIsQueued`: an item the worker puts back is in the queue before it leaves the
  worker's hands. `OnceInv` adds that the queue has no doubles (`Alone`), that what is both queued and held is being put
  back (`HeldOnce`) and that whatever is on its way is marked (`MarkedOnWay`), under `NoRestart`; the second departure
  of tasks and inputs in section 5 is a counterexample to `MarkedOnWay` without it.
- *The refinement.* A step of `TaskHandback` must be a step of the promise for one task and none for the others. Two of
  them are at stake. A save of her turn must find the result owed or cancelled (`HeldIsOwed`), and the watchdog may close
  only what nobody holds: it decides from a snapshot, so `WayInv` says what may have happened since. A task in its list is
  at most freshly reported (`ReportsFirst`, `SweptIsFull`), and what it gives up has failed as a short version and is held
  by no one (`Decided`, with `OnceInv`). The abstract step then follows from `RowsMove`.
- *The two versions.* What must be over before the short version comes into play is `Behind`: the full one's turn failed,
  two of its hand-backs never reached a turn, or work it delegated has ended it since. `ShortIsBehind` ties it to a turn, a
  hand-back or a decision of the watchdog for the short version; from it "never both open" and "read once" follow. That
  `Behind` stays true needs that no full version is still on its way: `FullComesFirst` (with `FullOnly` of `WayInv`) for
  a turn that failed, and for two failures the counting of `TwoFailuresEndFull` and `OneMoreTry`, that after a first
  failure one more hand-back is on its way at most. One step takes it back, a failure recorded during a stop
  (`INTERRUPTED`), and then nothing of the short version is there yet but what ends with the process: hence the `stopping`
  in `ShortIsBehind`. `GivenUpIsGone` says that nothing carries a result given up, so what it was given up for stands.
- *Inputs.* `TurnUnlessWaiting`: a line has a turn only once it stopped waiting, and no step makes it wait again.
  `OwnTurn`: what the worker gives a turn has stopped waiting, and was taken by nobody. A line that a turn takes is
  waiting, so it has no turn, and by `OwnTurn` it gets none later. `OpenInTheWorker`: a turn being run is not
  committed, and one asking the lane has no saved stage, which is all that `SavedStands` needs.
  `CarryInv` follows a line from its post to its end: what is in `enqueued` is queued or in the worker's hands
  (`EnqueuedIsCarried`), what is not settled is in one of the places (`UnsettledIsCarried`), and without a put-back in one
  only (`InOnePlace`). The queue then rises from the worker's line (`QueueRises`), so what is earlier than that line
  has left and is settled (`EarlierSettled`). `SeenInv` says that what a saved stage had in view and did not count as its own
  had been shown or taken before (`ViewsPassed`), which a turn that ends makes true of the rest.
- *Tool calls.* A call is in the hands of one thread from the intent's write to the outcome's (`OneHand`), its row then
  holds its intent and its input (`HandsOwnIntent`), and its tool has not run before it runs (`NotYetRun`). A repeated
  call finds the row and answers from it. `LockIsHeld`: who runs a local tool holds the lock, so the steps that end the
  task, which need it free, find no such tool. The clock is an account: what a stage ran and has left adds up to what it was
  given (`StageIsBounded` is its end), and a mark on the row belongs to the stage that asked, with nothing given since
  (`MarkIsCurrent`), so the grant and the cut cannot both find it. The bound of a grant is a block or a window, whichever is
  longer: `Window <= Block` would have been an assumption the configuration does not make.
- *Restarts.* A request is in one of three places, `pending.json`, the hands of `go`, `request.json` (`OnePlace`), or has
  left them for good; `DeskFollows` ties the desk's memory to its file, `SupTyped` what the supervisor holds to the rung
  it is on, and `NotYetCarried` says that in any of the places it was not carried out. `CarriedOnce` is then a count of the
  one step that takes it out of the last place. For how a stop is told, the planned mark is followed from the desk's hand
  (`MarkedInHand`) to the file (`MarkedInFile`) and to the lease that the Host leaves when it is asked (`LeftMarked`).
  `RanBefore` says of the active version, and of each one the selection may return to, that it has run.
- *Worker starts.* Only the completion of the start a restart waits for stamps its entry as back (`StampsTrue`), a hand-over
  takes stamped entries only (`HandTrue`), and an entry is a restart's number and its stamp (`EntriesTyped`).
  That no worker is left over follows the lock (`LockHeld`) and the starts: while none overlapped, one start calls at a
  time, and every worker that runs and is not closing is the plugin's (`Single`). A stop of the Host is told by a worker that found a
  lease left behind, so `LeftTrue` says of whom that lease can be: of an end from outside that was not counted yet, or of a
  worker that exited by itself, and then the span is open and the plugin knows.
- *Schedule.* A save that finds the revision it read finds the row it read (`IsRow`, `HerFresh`, `HandFresh`); the
  delivering thread alone marks a firing as handled, and goes through the log in order (`Logged`, `HandGoes`, `InOrder`).
  A plan due once may be handed over twice, since the event is made before the row is saved. `Again` says when: the firing
  that acted is the next one the row has to pass, and whoever comes to it finds the event made; so `OnceInv`, what acted is
  one firing. That an active plan is armed is `Sound`, what the native records are worth to the plan as long as nothing went
  wrong. Its own record will wake her, is being deleted by her, or the Host has yet to arm it (`Wakes`); beside it at most
  one other waits, left by an arming or a creation that a crash cut, newer than the plan's, made for its version and after
  all that acted (`LooseFits`, `Fit`), so that a start may hang the plan on it (`Mends`). What acted is of the plan's record
  or was before it was made (`Latest`), from which two records do not both act (`Pairs`). `Sound` says nothing once
  the plan has ended or something went wrong (`Clean`), and neither is ever undone. It was found with TLC, as an invariant
  of runs with up to 22 million states, before it was proved.
- *Database lease.* Exclusion is a matter of time (`InTime`): while a Host is not late, the lease is its own and will, at
  its next renewal, have `Length - Renewal` ticks left, or `Length - 2 * Renewal` when the last one was missed, so it cannot
  have run out before; this is where the lease's being longer than two renewals is needed. `MarkIsHolders` says a mark on a lease was set by its holder or by a late Host, and a
  takeover clears it. `CutLeavesLease` says a cut run's lease is there until another deployment takes it, and `FoundCut` that
  what a start found of it stays true between its operations.

**Only model-checked.** Liveness (`TasksSettle`, `LinesSettle`, `InputsSettle`, `HostComesBack`, `ComesUp`,
`ToldInTheEnd`, `IsServed`) is out of the prover's reach. Every
other property of a run that passes is stated by one.

## 7. What is not modelled

`PROJECT.json` lists every component with its reason. *Planned*, since they have a protocol of their own: the audit (`put`, `recover_commits`); the two
locks inside the effects lock; questions, notes and errands; compaction, context delivery and held lines of a session; the QQ
adapter's journal. *Left out for good*: what ranks, words or converts (context, memory, affect, role tools, people and
privacy fences), what moves bytes (media, blobs, files), what each tool does, builds, git and the checks of a publication
(integration, development), assembly and command line, the page, the persona packages, tests and tools. These are most of
the repository's lines, and a model of them would restate them.

Parts of modelled components that are left out: her own initiative, errands and notes as inputs of `_work`; the gate
(`ATTENDING`); continuations and `settle` of a task; a turn's replies in several requests of a stage; the local sink and the
inbound side of a channel; the control port of the Host; rhythms and the suspension of plans. In `TaskHandback` every task is
taken as scheduled at the beginning.

## 8. Running the checks

    tlasany M.tla                          # parse
    tlc -workers 2 -config X.cfg M         # a run: module and configuration as in PROJECT.json "runs"
    tlapm M_proofs.tla                     # the proofs of a module

Each takes a few minutes from nothing.

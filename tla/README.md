# Verification of the harness engine

TLA+ specifications of the engine in `src/src`: a single-process agent runtime on
Bevy ECS. A *frame* is one `app.update()`; systems run in the sets Ingress,
Signal, Transform, Dispatch, Execution, Output, Maintenance, and within a set in
any order the plugins leave open. LLM calls, tools, channels, the timer and the
terminal run on threads outside the world and hand their results to queues that a
frame drains. What goes wrong in such a program is the order of things: of two
systems in a frame, of a command (`Commands` take effect at a sync point) and the
system that does not see it yet, of a late result and the stop that no longer
wants it, of a notification and the thread that is about to sleep, of a write and
the crash that follows it. That is what the models keep; texts, prompts, payloads
and rendering are abstracted.

Contents: [inventory](#inventory) - [modules](#modules) - [runs](#runs) -
[bounds](#bounds) - [fairness](#fairness) - [proofs](#proofs) -
[divergences](#divergences-found) - [not modelled](#not-modelled) - [plan](#plan).

## Inventory

State, operations and hard behaviour of each part (paths below `src/src`).

| Component | State | Operations | Hard part | Correct when | Module |
|---|---|---|---|---|---|
| Doorbell, deadlines (`contracts/wake.rs`) | flags, one-slot channel, deadline index | notify, take, set, remove, take_due | atomic steps of senders against the loop | no lost wakeup, no stale deadline | RunLoop, RuntimeDeadlines |
| Main loop (`app/run_loop.rs`, `systems/demand.rs`) | bootstrap, buffered input, wake reason | poll, decide, update, block | sleeping at the wrong moment; batches of 256 | all work served, deadlines fire | RunLoop |
| Tool bridge (`systems/tools/async_dispatch.rs`, `ingest_tool_results.rs`, `background.rs`, `cancel_monitor.rs`, `effect_commit.rs`, `systems/sweeper.rs`) | parked calls, in-flight marks, cancel tokens, result channel, parked effects | claim, run, background, land, sweep, cancel, commit | results racing timeout, stop and backgrounding; deferred despawns | each call settled, answered once | ToolBridge |
| Background jobs (`systems/loop_control/background.rs`, `control.rs`) | job entities, silent mark, retries | register, stop, retry, retire, clean up | retiring before the notice; a retry swapping the call | jobs track their call | ToolBridge, SubTasks, AgentTurn |
| Inbox (`systems/loop_control/inbox.rs`, `attachment.rs`) | items per task, wake budget | deliver, wake, attach | an item arriving as the turn ends | nothing lost, nothing wakes twice | AgentTurn, Conversation |
| Conversation barrier, routing, commands (`systems/conversation.rs`, `routing.rs`, `command.rs`, `interaction.rs`) | queued inputs, closing tasks | hold, release, continue, steer, create, stop, finish, clear | several inputs in one frame; a task that closes slowly | one user task, inputs in order | Conversation, AgentTurn |
| Task lifecycle (`domain/task.rs`, `systems/transform/task_lifecycle.rs`) | status, retry count, confirmation, generation | retry, terminate, finish, reset | messages of one frame that contradict each other | ends are final, turns end | AgentTurn |
| LLM execution (`systems/execution.rs`, `transform/llm_response.rs`) | in-flight handles, result channel | start, abort, ingest, respond | an aborted call that already answered | one call per task | AgentTurn |
| Tool loop, confirmation (`systems/tools/tool_calling.rs`, `result.rs`, `dispatch.rs`, `confirmation.rs`) | calling state, requests, kept results | open, budget, collect, ask, answer | one confirmation at a time; stops in between | the loop goes on exactly when complete | AgentTurn |
| Sub-tasks (`systems/transform/subtask.rs`, `systems/tools/waiting.rs`) | batches, waits, claims, jobs | create, wait, complete, time out, cancel | parent and children ending together | no result lost, no parent waits for ever | SubTasks |
| Session output (`systems/loop_control/monitor.rs`, `channels/manager.rs`, the queues of `systems/tools/backend/native.rs`) | events, batches, attempts, receipts, send queue | poll, batch, send, receipt, retry, acknowledge, shut down | overflow, late receipts, shutdown | in order, recorded once, settled | SessionOutput |
| Schedules (`systems/schedule.rs`, `triggers/timer_scheduler.rs`, `infrastructure/schedules/store.rs`) | definitions, timer copy, run ledger, file | fire, catch up, account, complete, persist, edit | timer, edits and failed writes against each other; restart | no overlap, once means once, counted once | Schedules |
| Client channel (`channels/client/server.rs`, `store.rs`; `src/clients/harmony`) | event log, cursors, commands, approvals | append, replay, accept, claim, refresh | reconnect across truncation, failed write, restart | no gap, no repeat, current when quiet | ClientSync, Store |
| Push notifications (`channels/client/notifications.rs`) | outbox, quota | queue, claim, send, finish, retry | crash between claim and result | never twice unasked, quota kept | Outbox, Store |
| Watchdog (`systems/watchdog.rs`) | ledger, judgement work items | tick, judge, apply | a decision about a job that has moved on | bounded retries | its decisions only, ToolBridge |
| Supervisor approval, chat rounds, memory, summaries, model fallback, retention, plugins, terminal | | | | | - |

`PROJECT.json` lists every component with its sources and status, and the hazards
at their lines.

## Modules

The modules of the engine share one frame scheme: `todo` (or `phase`) holds the
systems the frame has still to run, `Before` the order the plugins declare, one
action per system; what other threads do is interleaved with them.

**`RunLoop`** (with `RuntimeDeadlines` and the abstract `WorkQueue`) models the
doorbell and the loop at the grain of its atomic operations. `Send`, `RaiseFlag`
and `Ring` are the three steps of `WakeSender::send`; `TakeToken` and `SwapFlags`
the two of `take`; `Poll`, `Check`, `Update`, `Exit` and the four `Woken...`
actions are `run_loop` from the top of the iteration to the end of the blocking
select. `Update` drains at most `Batch` payloads and rings again (`NotifyIf`) when
it leaves some or leaves follow-up work, and re-projects the deadlines.
`RuntimeDeadlines` is the pure index with `Set`, `Remove`, `IsNext`, `AfterDue`.
`WorkQueue` says what producers rely on: each payload handed over is served once,
sooner or later; `RunLoop` implements it under the mapping `WQ` (UI events are
excluded, see [divergences](#divergences-found)). `app_is_idle` is a free choice
at `Exit`; polling of legacy frontends and the heartbeat are not relied on.

**`ToolBridge`** models the life of asynchronous calls over frames: request,
parked entity (`pending`), in-flight mark, worker, cancellation token, result
channel, background mark, job, parked effect. `despawned` and `claims` are the
commands whose delay other systems can observe. Actions are the systems
(`Monitor`, `AutoBackground`, `IngestRecv`, `StopTask`, `AsyncDispatch`,
`SweepOne`, `CancelMonitor`, `CommitOne`, `ClearStop`, `Cleanup`) and the
environment: workers finish or hang, the agent requests, stops jobs, the watchdog
stops or retries, tasks end. Ages stand for the two deadlines of a call.

**`AgentTurn`** models the turn of one root task: routing, the inbox, LLM requests
and results, the tool loop with confirmations, retries, background jobs as far as
they hold back a completion, `/stop`, `/finish`. `status` is
`TaskStatus`/`WaitingReason`; `hint` the `PendingDispatch`;
`queued`/`flights`/`results` the requests queued, in flight and answered; `gen`
the `TurnGeneration` that voids late results; `loop` the `ToolCallingState`;
`call[s]` where the call of a slot is between its request and its result.
`MultiTurn` tells a conversation from a triggered task (no channel, so only its
jobs fill its inbox). A tool call that `AgentTurn` calls "running" is the one
`ToolBridge` models in detail: `EveryCallSettles` justifies that a call of a turn
that was not stopped returns; a stopped turn waits for none.

**`SubTasks`** models batches of sub-tasks under one parent: `create_tasks` opens
a batch that blocks the parent or becomes a background job, `wait_tasks` claims
children until they end or its timeout passes (`Expire`), `task_termination` and
`subtask_completion` report ends, the job of a batch notifies, is stopped by agent
or watchdog, or retires silently when a wait has claimed it. `told` and `excused`
are history: results that came home, and children somebody stopped. What the
parent does with a notification is `AgentTurn`'s; dependencies inside a batch are
`DependsOn`. Nesting is one level.

**`Conversation`** models one channel and the user tasks that own it one after the
other: the `InputSequencer` and the `InputBlocked` barrier behind a command and
behind a closing task, the routing of a text to a new task, a waiting task or the
inbox of a working one, `/finish`, `/stop`, `/clear`, `/btw`, the cards of a
client, and the idle end of `task_retention`. A task is named by the input that
created it. `held[t]` is what still runs for the tree of t (LLM call, tool,
cancelled tool, shell session). Routing takes one text per action although the
code loops over all of them: other systems may come in between, which only adds
behaviours. `/btw`'s `CreateTaskMessage` carries no sequence number, as in the
code. Interactions with a card are not held back by closing.
`ChannelSlot` says what the user of a channel relies on: it is one task's at a
time, each newer than those before it, and a new one's only when nothing is left
of the work of the last, however that ended. `Conversation` implements it under
the mapping `Channel`: the owner is the open task. Its action `Return` is
divergence 1, which the code lets happen to the last task only.

**`SessionOutput`** models the way of a monitored shell session's output to its
user: reader threads fill the backend's queue (with its overflow and give-up),
`monitor_output_system` polls, collects batches, sends, takes receipts, retries
and acknowledges, and the channel manager's sender task works through its own
queue. `monitor_output_system` is one system but several actions, one per batch,
since readers, sender and shutdown run between. `ChannelManager::shutdown` is an
operation the manager offers; only its tests call it.
`OutputLog` says what the user of a session relies on: its lines are shown and
settled (with a record of their delivery or failure) in order, what was shown is
neither shown again nor settled in part. `SessionOutput` implements it under the
mapping `Log`: shown are the confirmed lines, settled the recorded ones.

**`Schedules`** models timed tasks: the timer thread with its copy of the
definitions (`list`, told of changes by `stale`), routing of its triggers
(dropped, overlapping, expired, run), the end and delivery of runs, the accounting
of runs and skips with ledger and file, the removal of finished once definitions,
persistence, edits by tools and clients, and a crash with restart from the file.
Time is what the decisions tell apart: a once schedule is ahead, due or past its
catch-up window. `ver` stands for "which schedule it is" where the code compares
`schedule` values. A failed append, save or context read is a fault; the backoff
between retries is left out.

**`Store`** is how the client channel writes: a change counts when the file was
written, a failed write closes the store until the process is started again. What
is stored is modelled by the two modules that extend it.

**`ClientSync`** models the event log and the ledger in that store, the stream of a client
with its cursor and the log's retention, the ledger that accepts a command once,
the claim of an approval, and the Harmony client's `refresh` with its
`refreshAgain`. A handler holds the store's mutex, so it is one action.

**`Outbox`** models the notifications kept in that store (`saved` is the file's
list of them): one worker claims, sends and finishes; `outcome` is what `deliver` will return and `copies` what the
platform has taken, which the program cannot see. Restart turns a `sending` note
into `unknown`; only the user's `allow_unknown` sends it again.

`MC<Module>` give the models their small instances; `<Module>_proofs` hold the
theorems, `ClientChannel_proofs` those of `ClientSync` and `Outbox`. Operators called a *mutant* in their comment are plausible mistakes in
the definition that follows them; replacing the definition by the mutant must
break the property `PROJECT.json` pairs it with.

## Runs

| Run | Question | Properties |
|---|---|---|
| `MCToolBridgeRetry` | one backgroundable call with a watchdog retry, two results per ingest: is any call orphaned, untracked, answered again after backgrounding, or left unsettled though a worker hangs (a cancelled one that never heeds is left out)? | `Answerable` `JobTracksBackgrounded` `BackgroundAnswersOnce` `EveryCallSettles` |
| `MCToolBridgeTwo` | beside a foreground call: do answers land once and stay final while no call outlives its timeout, and do stop, `stop_background_job` and retirement touch only the call they mean? | `TimelyAnswers` `NotifiedUnlessStopped` `StopSelects` |
| `MCRunLoopWake` | can the loop sleep on announced work, miss a deadline or fire a replaced one, starve follow-up work? Does it implement `WorkQueue`? | `NoLostWakeup` `ServesAll` `DueWorkIsDone` |
| `MCAgentTurnMulti` | two calls, messages, a retry, a job, `/stop`, `/finish`: is a confirmation unanswerable, a second LLM call started, a stop or an end undone, a turn started on the loop of the last? | `ApprovalAnswerable` `OneLlmCall` `CancelIsFinal` `TurnStartsClean` |
| `MCAgentTurnJobs` | a triggered task with two jobs and a retry: does it complete before its jobs are heard, stay deferred, run for ever? | `DeferredIsWoken` `CompletionSeesNotices` `TurnEnds` `MailReachesAgent` |
| `MCSubTasks` | two batches, a wait with timeout, a stop and a finish: does every result come home, does a blocked parent go on, do children outlive their parent? | `ResultsReachParent` `ParentResumes` `ChildrenMoveOn` |
| `MCSessionOutput` | readers, monitor and sender with overflow, bad receipts, an ended task and a shutdown: one attempt at a time, no gap or repetition in the records, all output settled? Does it implement `OutputLog`? | `OneAttemptAtATime` `NoGapNoRepeat` `OutputSettles` `KeepsLog` |
| `MCSchedules` | edits, manual runs, a failed write, a crash: do runs overlap, does a once schedule run twice, is a run counted twice, a definition removed without cause, work left undone? | `NoOverlap` `OnceRunsOnce` `CountedOnce` `RemovedForCause` `EverythingSettles` |
| `MCClientSync` | dropped connections, a failed write, a restart, two answers to one request: does the stream have a gap, is a quiet client behind, is a command run twice? | `ToldIsDurable` `QuietClientIsCurrent` `CommandOnce` `OneAnswer` |
| `MCOutbox` | a full outbox, a daily limit, a failed write, a restart, a changed recipient: is anything sent twice unasked, the quota exceeded, a note left unsettled? | `NoSilentDuplicate` `QuotaKept` `NotesSettle` |
| `MCConversation` | four inputs in eight scripts of texts, commands and cards, with shells that resist and an idle end: inputs out of order, an input never taken? Does it implement `ChannelSlot`, one user task at a time? | `OneOwner` `InOrder` `InputsSettle` |
| `MCAgentTurnTerminal` | "a terminal task is not pulled back": violated, see [divergences](#divergences-found) | `TerminalAbsorbing` |

All but the last hold. Some properties state their own limits. `TimelyAnswers`
speaks of frames before which no call outlived its timeout. `OneTurn`
(`~leftover`) in `AgentTurn` excludes histories in which a stop or finish found a
dispatch of its own frame already under way (the cause of divergences 1 and 3).
`TurnStartsClean` leaves open a message that overtakes the reset in the frame of
the stop (`ResetIsDue`, divergence 15). `EveryCallSettles` leaves out a call that
was cancelled while its worker hangs (`Unheeded`): the cancel monitor removes its
in-flight mark, after which the sweeper no longer covers it, and says itself that
it neither waits for the worker nor guarantees an answer
(`systems/tools/cancel_monitor.rs:15-17`); such a call may stay parked for ever.
`InOrder` leaves out an inversion with a stop in between and what a task reads that
was dispatched after its end (`revived`, divergence 1), and `InputsSettle` tasks that ask the user, and those
whose session could not be stopped or whose cancelled work never ends
(`Unstoppable`).

### Bounds

A bound is a CONSTANT that its comment calls so, or a guard on a counter.

- `ToolBridge`: one or two calls of one task (tasks do not interact here), `Batch`
  2 so that two results of one call meet in one ingest run (256 in the code),
  `MaxRetry` 1 (2 in the code; one retry already swaps the tracked call). Two calls
  suffice for "the right call only". Every call is issued once.
- `RunLoop`: two mail senders so that a batch of one leaves one behind, one input
  sender for the other arm of the select, one deadline key with the clock at 0..2
  (before, at, after), one follow-up frame. UI events are covered by the proofs,
  which hold for any `Kind`.
- `AgentTurn`: `MaxIter` 1, so the budget is passed in the second round and the
  hard limit in the third; two slots for a round with an early and a late result
  and for a second confirmation. `MCAgentTurnMulti`: two inputs, one stop, one
  retry and one job, a command against a message against a notification against
  the end of a backoff; symmetry on slots.
  `MCAgentTurnJobs`: one retry, two jobs, so that one ends while another runs.
- `SubTasks`: a batch of two children, one depending on the other, and a batch of
  one; one wait naming whole batches; one stop. `Crossing` FALSE and whole batches
  exclude divergences 5 to 7.
- `Conversation`: four inputs: one to found a task, one to find it working, a
  command, one for what follows; the eight scripts are the command kinds in the
  places where they matter.
- `SessionOutput`: a platform session of two lines with room for one
  (`MaxBuffered` 1 makes it overflow) and a terminal session of one; two attempts.
- `Schedules`: one id (ids share only the frame and the file), two runs so that
  one could overlap, one change of schedule, two edits, one manual run or cron
  occurrence, one fault, one crash; a once schedule needs no count.
- `ClientSync`: one client, `Retention` 1 and three events, so that a cursor falls
  behind the log; three commands, two of which answer one request; one fault, one
  restart, one dropped connection.
- `Outbox`: three notes with room for two, a limit of one a day and one day that
  passes; two automatic attempts, three altogether; one fault, restart, retry.

Deadlock is checked wherever the system must always be able to go on. `RunLoop`,
`ClientSync`, `Outbox` and `Conversation` stop when the bounded work is used up;
where they state liveness, it says that nothing is left then.

### Fairness

Frames run while there is work (`WF` on the systems and on `Tick`): `RunLoop`
shows that work gets a frame. A producer inside `send` returns. The rest, by
module:

- `ToolBridge`: fair are the frame and the passing of time for a call. Nothing is
  assumed of a worker, cancelled or not: the wrapper around it only catches a panic
  (`systems/tools/async_dispatch.rs:252-271`).
- `AgentTurn`: the provider answers (requests carry a timeout), a tool returns
  (`EveryCallSettles`); strong fairness of `RetryDue` and `Wake` says that the
  clock passes the backoff, the coalescing window and the window of the wake
  budget. Both are enabled once per frame and lost for that frame when not taken,
  hence strong. A wake budget of 0 never wakes and is outside the assumption.
  Background jobs need not end.
- `SubTasks`: strong fairness of `Expire`, the timeout of a wait, which is lost
  when the wait is over. Children need not end.
- `SessionOutput`: the reader threads may stop for ever; fair are the monitor's
  and the sender's steps and every callback (`Resolve`), strongly where a frame in
  between disables them.
- `Schedules`: the frame and the timer thread; every receipt comes back, a run
  need not end.
- `Outbox`: the worker, whose request to the platform has a timeout, the clock of
  the retry backoff and midnight.
- `Conversation`: strong fairness of the LLM's answer and of the return of a tool
  that was not cancelled, since a stop and a new turn disable and enable them
  again. Nothing is assumed of cancelled work or of a session: the property exempts
  a task whose cancelled work or session does not end.

`ClientSync` is checked for safety only: a client may be away for ever.

## Proofs

For every value of the constants, from the ASSUME of each module. Every safety
property of the passing runs is a theorem: the invariants, the action properties,
and the safety part of the three refinements (`WorkQueue`, `OutputLog`,
`ChannelSlot`).
In each module the property itself is not inductive; what is added and why:

- `ToolBridge_proofs`: `TypeOK` is inductive (`TypeCorrect`). `Answerable` is not:
  that a call losing its in-flight mark was cancelled or its result sent must be
  known while the removal is still a queued command. `BridgeInv` adds `Phases`,
  `ClaimsBacked` (a queued removal is justified), `OneEntity`, `IssuedFirst`,
  `RetriesAreJobs`, `ForegroundIsAlone`, `Unanswered`. `NoOrphanedCall`,
  `BackgroundedIsTracked` and `BackgroundedAnswersOnce` follow.

  Its action properties need more. `StopIsSelective` rests on `Swept`: after the
  cancel monitor nothing of the frame can move a call to the background or stop a
  task, so what it left is what the end of the frame finds. `ResultsAreTimely` is
  about behaviours in which no call has outlived its timeout so far: `Coming` says
  that until then one party owes the result (the worker, the parked effect, or one
  message of the channel), `Notifying` that of the attempts of a call in the
  background one may still notify, the one its job tracks, and `Counted` that
  answers and notices are at most one for each attempt that settled; the first and
  the last are false once a call is swept, which is why the theorem carries that
  condition through the behaviour as the property does. `NoSilentRetirement` rests
  on `Retired`: the tracked attempt is silenced only by the agent's stop, and one
  that is gone was notified, stopped, or lost its owner. `StopIsSelective` and
  `NoSilentRetirement` assume that a watchdog retry does not cross a `/stop`
  (`StopMeetsNoRetry`) nor, the latter, the agent's own stop
  (`RetryCrossesNothing`): with such a crossing they are false (divergences 11
  and 12). Retries that meet neither are included, which the run that checks them
  leaves out.
- `RunLoop_proofs`: `NoLostWakeup` speaks only of the moment of blocking. `BellInv`
  says at every step where the announcement is: flag up with a token to come, read
  in this iteration, or the update is running. With `Queued`, `BufferedIsServed`
  and `NoStaleDeadline` it forms `LoopInv`. `DeadlinesNeverStale` rests on lemmas
  about `Set`, `Remove` and `AfterDue`, and from it follows that a frame fires what
  is due by the map, as last set, and nothing else (`DeadlinesFireOnTime`), the
  first part of `DueWorkIsDone`. `LoopImplementsQueue` maps every step to a
  step of `WorkQueue` or a stutter.
- `ClientChannel_proofs`, the streams and commands: `SyncInv` relates file, memory,
  ledger and client: `Told` (a stream is a beginning of the file's log), `Quiet` (a
  waiting client asked for the latest state or got it), `Receipts` (what was
  delivered is in the file's ledger first), `Claims`. `StreamsTellTheLog`,
  `QuietClientsAreCurrent`, `CommandsRunOnce`, `RequestsAnsweredOnce`. The outbox:
  the memory and the file are two lists of notes that differ while a write is under
  way, and a restart takes the file. `List` says of either what it must for both
  (ids used once, copies no more than allowed), `Flight` that the worker's note is
  never unsent in the file, `Counted` that today's attempts are counted in both.
  `NothingSentTwice` and `QuotaHolds` follow.
- `Conversation_proofs`, one task: `SlotExclusive` fails to be inductive at a task
  that was dispatched after its end, and at a task founded in the frame in which
  another closes. `Named` and `Quiet` say who owns the channel in between (a
  continued task, or one with an agent's dispatch), `Frames` what the order of
  systems guarantees, `Slot` that at most one task does. `Exclusive`.

  The channel (`ChannelHasOneOwner`): every step is one of `ChannelSlot` or a
  stutter. `Newest` says that the owner is the newest task and a message that may
  found one newer still, which rests on the barrier (what waits comes after what
  was taken). Only `Create` gives the channel to a task that had not got it
  (`OwnersStay`), and what runs for an ended task ran for it before or as it was
  open (`EndedHeld`); with `Slot` before and after the step that leaves a step of
  `ChannelSlot` for each way in which the owner can change. `SlotExclusive`
  follows from either theorem.

  The order (`InputsInOrder`): `InOrder` speaks of what was read, and the order is
  made long before. `Barrier` is how the channel lets inputs in: the systems run in
  their order (`Systematic`), what was taken came before what waits (`Queue`), the
  marks of the frame leave nothing ahead of a free command and texts only ahead of
  a free text (`Marks`), and each system takes all that is its own (`Emptied`).
  `Doors` is why a command has its effect before the next input is let in: a stop
  is the last input taken until it is carried out (`Stops`), a task may be founded
  only when nothing of an ended one runs (`Settled`, `Newcomers`), a message that
  ends or clears a task keeps the others out (`Finishing`, `Cleared`), so that a
  task named in `ended` is closed or about to be (`Ended`). `Course` is where texts
  are: none at a task that does not exist (`NoneYet`), each taken after its task
  was founded and before any command that ended it (`Since`), and the places in
  which it can be (memory, continuing message, inbox, delivery) each in order and
  following each other, but for a stop in between (`Lines`). That a text cannot
  overtake depends on what the task does meanwhile: an idle task has no request and
  an inbox only from before a stop (`Left`), a delivery finds a task that works and
  arrives before its turn can end (`Deliveries`), a task is continued once in a
  frame and has no request until then (`Continues`). `inbox_ingest`'s sort is
  `InOrderOf`; that it lists every delivered text once and smallest first is
  `InOrderOfIs`, by the ranks of a finite set of numbers.
- `SubTasks_proofs`: `Round` (one round of calls at a time), `BlocksInTime`, `Made`
  and `Home` (who will tell the parent of an ended child). `NoResultLost` assumes
  `WholeTargets`, a wait names all children of a batch or none: without it the
  property is false (divergence 7).
- `SessionOutput_proofs`: `OneAttemptAtATime` counts the attempts on a batch, but
  what keeps them at one is where each of them is. `Attempts` says that the entries
  of both queues and the receipts are the current attempts on batches that await
  one (`Current`), no two of them on one batch (`Apart`), that each awaiting batch
  has one under way and is its session's first (`FirstAwaits`), and that what may
  be tried again has attempts left (`Budget`), so that no attempt number is used
  twice. `NoGapNoRepeat` is a property of neighbours; `Chain` says what follows
  from it over any number of steps: the pending batches are disjoint intervals, and
  with the records they cover every line up to the end of the last. `Forgets`
  relates the backend's queue to the records, including the one batch whose
  acknowledgement was carried out though its answer was lost; `Numbered` and
  `Confirmations` complete `OutputInv`. `OutputInvariant`, `OutputTypeCorrect`,
  `AttemptsFollow`, `OutputRecorded`.

  The refinement of `OutputLog` (`OutputKeepsLog`) needs one more invariant,
  `OnlyFirstShown`: a confirmed line that is not settled belongs to its session's
  first batch, which the monitor knows, or will learn from a receipt, to be
  delivered. It holds because a batch waits for those before it and a confirmed
  one is settled without another attempt.
- `Schedules_proofs`: `OnceRunsOnce` needs to know why nothing starts a once
  schedule again at each moment of its life: its run is active, or recorded and
  about to be removed, or (after a restart) paused with nothing on its way
  (`Started`, `Spent`). `Saved` says the file has the definition in memory or an
  earlier one, so that a restart cannot bring back a run that was forgotten;
  `Untouched` and `Owned` complete the invariant. `RunsDoNotOverlap`, `OnceIsOnce`,
  `HealthIsExact`. The action property `RemovalHasCause` adds `Caused`: the record
  of an expired trigger names the schedule it saw or an earlier one, and a run that
  is remembered as past has its line in the ledger.
- `AgentTurn_proofs`: that a task has one LLM call needs to be known of every
  moment in which another could start: by a dispatch, a continue, a retry, or a
  complete loop. `Turning` ties the status to the calls of the generation (there is
  one exactly when the status is `agent` or `running`) and to the dispatch on its
  way; `Asked` ties the queued requests to the loop that waits for them, and lets
  one of them be put to the user; `Halted` says what a stop leaves; `InFrame` and
  `Ordered` that messages and pending dispatches are used within the frame, in the
  declared order. All but these two hold only of tasks with one turn
  (`~leftover`): divergences 1 and 3 show why. `NoSecondCall`, `ConfirmationsAnswerable`,
  `NoTurnStranded`, `CancelsStay`, `CompletionIsInformed`; `DeferredTasksWake`
  assumes no silent jobs, as the run that checks it does (divergence 4).
  `TurnsStartClean` rests on `Clean`: an idle task has no loop, or the stop that
  made it idle still has its reset to come in this frame; a turn that starts finds
  the one or the other, and no hypothesis is needed beyond that.

The type invariants are part of what is proved: `TypeCorrect`, `LoopTypeCorrect`,
`OutboxTypeCorrect`, `SyncTypeCorrect`, `OutputTypeCorrect`,
`ConversationTypeCorrect`, and as a conjunct in `SubTasksInvariant`,
`SchedulesInvariant` and `AgentTurnInvariant`.

Model-checked only: liveness (the properties under fairness in the table above, and
with them that `RunLoop` serves what `WorkQueue` promises to serve in the end),
since the prover has neither ENABLED nor rules for fairness. The properties of the
[divergences](#divergences-found) are false and have no theorem.

## Divergences found

Of the program against its own comments or promises. The first has a run; for the
others a property of the module states what is broken, and naming it in the .cfg
(with the change of constants given) reproduces it.

1. *Terminal is final* (`MCAgentTurnTerminal`, `TerminalAbsorbing`). A continue or
   retry and a finish in one frame leave a `PendingDispatch` naming an agent, which
   `dispatch_system` carries out on the ended task
   (`systems/dispatch/dispatch_system.rs:67`). `Conversation` shows the same as
   `EndsForGood`; one user task at a time holds nevertheless.
2. *Exactly once* (`AtMostOneAnswer` in `ToolBridge`). Two results of one call
   received in the same ingest run both land: the despawn is a deferred command.
3. *Stop* (`StopStops` in `AgentTurn`). `stop_task` and the orchestrator are
   unordered; a follow-up request queued just before the stop survives it, is
   stamped with the new generation and runs.
4. *Woken when jobs end* (`DeferredIsWoken` with `SilentJobs = TRUE`). A job that
   ends silently puts nothing into the inbox; a completion deferred because of it
   waits for ever.
5. *Two waits* (`ParentResumes` in `SubTasks` with `MaxWaits = 2`). Two
   `wait_tasks` in one round: the second replaces the first, which is never
   answered, and the round never completes.
6. *Stranded parent* (`ParentResumes` with `Crossing = TRUE`). A stop or finish in
   the frame after `create_tasks`, before `sub_task_batch_block_system`, leaves the
   parent blocked by a batch that has been reset.
7. *Partial wait* (`ResultsReachParent` with sets in `Targets` that hold part of a
   batch and children of another). The job of the batch counts as claimed and
   retires silently; the result of the child the wait did not name is lost
   (`systems/loop_control/background.rs:145-148`).
8. *Idle end* (`AcceptedIsRead` in `Conversation`). `task_retention` finishes an
   idle conversation in Maintenance; a text routed to the waiting task in the next
   frame is dropped although the user is told to send a new message
   (`systems/task_retention.rs:257-261`).
9. *Rescheduled once* (`RescheduledSurvives` in `Schedules`).
   `once_schedule_completion_system` removes a once definition by its id alone
   (`systems/schedule.rs:411`); one that was rescheduled while its run was under
   way is removed with it, although `systems/schedule.rs:165` guards the expired
   record against exactly that.
10. *Rescheduled after firing.* Neither update path clears `last_fired_at`
    (`systems/tools/effect_commit.rs:165-167`, `systems/client_schedules.rs:118-120`),
    so a once definition that has fired is not armed again by a new schedule
    (`triggers/timer_scheduler.rs:161`). `Edited` keeps it as it is.
11. `StopSelects` with `MaxRetry = 1`: a stop in the frame of a watchdog retry
    withdraws the request of the background job (`systems/loop_control/stop.rs:99`
    against `systems/tools/cancel_monitor.rs:31`).
12. `NotifiedUnlessStopped` with `MaxRetry = 1`: a job stopped by the agent and
    retried by the watchdog in one frame notifies (`systems/loop_control/control.rs:4`).
13. `UiNotStranded` in `RunLoop` with more UI events than `Batch`: the terminal poll
    takes 256 events and does not ring again (`main.rs:555-560`).
14. `KeptIsAwaited` in `AgentTurn`, two slots and a stop: a result kept beside an
    open confirmation outlives its loop (`systems/tools/result.rs:20`).
15. `TurnStartsClean` in `AgentTurn` without its exception `ResetIsDue`, a message
    and a stop: `inbox_wake` and `continue_task` may run between `stop_task` and the turn reset, and the new turn
    finds the old loop (`systems/transform/task_lifecycle.rs:459`).

Seen in the code while modelling, outside what a module states:

- `/stop` leaves a steer in the inbox, and a later text may be read before it; a
  steer in the inbox of a task that fails is lost; a session whose stop failed when
  its task ended is never tried again and keeps the channel closed.
- A torn last line of the ledger makes `append_run` and `read_runs` fail for ever
  (`infrastructure/schedules/store.rs:198-219`). After a restart "运行未完成" is also
  said of runs that had ended and were not yet recorded.
- The client channel's reject path appends without waking the streams; a refresh
  that fails forgets `refreshAgain` (the 30 s frame heals it); the response of an
  older refresh may overwrite a newer snapshot for a moment.
- The session supervisor: a `SIGKILL` of the service, or a shutdown of more than
  4 s, leaves processes behind though `supervisor.rs:3-4` says all are reclaimed; a
  Cancel that could not be sent leaves its exec running; a Start that timed out
  leaves a session nobody knows.
- QQ keeps one pending approval per recipient, recorded before its message is sent,
  so a "1" may answer a request not yet seen.

## Not modelled

Prompt building, token counts, rendering, logging, hooks and observers that only
read; provider protocols, process and PTY handling, the platforms' protocols, file
formats: data or I/O without control the engine depends on. They are the larger
part of the source, which is why the share of lines the models cover is small. In
particular:

- chat rounds, `ask_user` inside `AgentTurn`, supervisor approval, remembered
  permissions, the watchdog's tick and judgement;
- the model chain with its cooldowns (`systems/execution.rs:214`);
- two clocks: wall clock and monotonic time are one in the models
  (`systems/demand.rs:263`); checked is that an armed deadline fires, not when;
- the coalescing window, the wake budget and passive inbox items are a free delay;
- memory, summaries and the experience library: data around one request;
- in `ClientSync`: files, devices, pairing, TLS, user sessions; texts and approvals
  keep the receipt "queued" as in the code; a question is claimed like a request;
- in `Conversation`: plugin-created tasks, which use a channel of their own;
- Rhai plugins, which are arbitrary code.

Simplifications inside the models:

- `SubTasks` looks at every wait in every frame, the code only at those its
  `WaitingIndex` names (`systems/tools/waiting.rs:59-86`): a new wait, one with a
  target that ended, one that is due. A mistake in the upkeep of the index would
  not be seen.
- `Outbox` assumes of the platform that it has not taken a message it answered with
  429 or a rejection, nor one whose connection failed. A notification is read when
  it is over: `read_at` may be set earlier, but nothing looks at it before.
- `Conversation` sends a text that `user_message_to_task` routes again back as what
  it was. The branch is for plugin entries and is never taken here: a text becomes
  a creation only when no task is open (`Quiet`). No script has two `/btw` under
  way at once, so that the order among them, in the code that of their entities,
  does not matter.
- `RunLoop` lets a frame project any deadline: which one is the business of the
  components that own it (`systems/demand.rs:263-410`).

## Plan

Done: the modules above, and a theorem for every safety property of their runs.
Next, in this order:

1. `Approval` (one decision per supervisor request) and `Watchdog` (a decision about
   a job that has moved on), composed with `ToolBridge`.
2. `ModelChain`: fallback and cooldowns of concurrent requests.

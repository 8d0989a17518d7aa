----------------------------- MODULE ToolBridge -----------------------------
(***************************************************************************)
(* The asynchronous tool bridge: an ECS frame pipeline that parks a tool   *)
(* call as an entity, runs it on a worker outside the world, and lands its *)
(* result in one system fed by a channel.                                  *)
(*                                                                         *)
(* A frame is one `app.update()`.  `todo` holds the systems that have not  *)
(* run yet; a system may run once every system ordered before it has run,  *)
(* so the order of two systems that the plugins leave unordered is chosen  *)
(* by TLC, as the multi-threaded executor chooses it.  Component inserts   *)
(* and removals are Commands: they take effect at a sync point, not where  *)
(* they are issued; `despawned` and `claims` hold the ones whose delay can *)
(* be observed.                                                            *)
(***************************************************************************)
EXTENDS Integers, Sequences, FiniteSets

CONSTANTS
  Tasks,          \* owner tasks
  Calls,          \* tool calls of the model, each issued once
  Owner,          \* [Calls -> Tasks]
  TaskLevel,      \* calls of a task's own turn (no work item)
  Backgroundable, \* calls that get a foreground budget (`background_at`)
  MaxRetry,       \* watchdog retries of one job (2 in the code)
  Batch           \* results taken per ingest run (256 in the code)

ASSUME BridgeAssumption ==
  /\ Owner \in [Calls -> Tasks]
  /\ Backgroundable \subseteq TaskLevel
  /\ TaskLevel \subseteq Calls
  /\ MaxRetry \in Nat
  /\ Batch \in Nat \ {0}

\* A tool_call_id: the call and the attempt (0, or the watchdog retry number).
Ids == Calls \X (0..MaxRetry)

\* Where each call stands against its two deadlines.
Ages == {"fresh", "budget", "lost"}

\* ToolWorkerPayload, with the outcomes that are told apart.
Payloads == {"completed", "timeout", "effect"}

Message == [id : Ids, payload : Payloads]

\* The value of a job that does not exist.
NoJob == -1

Transform == {"control", "monitor", "autobg", "ingest", "ingest_sync", "stop"}
Dispatch == {"dispatch"}
Maintenance == {"sweep", "cancel", "commit", "clear", "cleanup"}
Systems == Transform \cup Dispatch \cup Maintenance

\* The systems that must have run before system s in the same frame.
Before(s) ==
  CASE s = "monitor"     -> {"control"}
    [] s = "ingest"      -> {"autobg"}
    [] s = "ingest_sync" -> {"ingest"}
    [] s = "stop"        -> {"control", "monitor"}
    [] s = "dispatch"    -> Transform
    [] s = "clear"       -> Transform \cup Dispatch \cup {"cancel"}
    [] s \in Maintenance \ {"clear"} -> Transform \cup Dispatch
    [] OTHER             -> {}

VARIABLES
  todo,         \* systems still to run in this frame
  issued,       \* calls the agent loop has requested
  request,      \* ids with a ToolExecutionRequestMessage
  pending,      \* ids with a ToolRequestPending entity
  inFlight,     \* ids whose pending entity carries InFlightToolCall
  age,          \* deadline state of each id
  backgrounded, \* ids carrying BackgroundedToolCall
  silent,       \* backgrounded ids whose result is discarded
  job,          \* per call: attempt its BackgroundJob tracks, or NoJob
  fresh,        \* jobs registered in this frame (no control can name them yet)
  running,      \* ids whose worker has not sent its result
  cancelled,    \* ids whose CancellationToken is cancelled
  channel,      \* worker -> ECS mpsc channel
  taken,        \* results taken by the current ingest run
  despawned,    \* pending entities whose despawn awaits the sync point
  claims,       \* <<id, system>>: InFlightToolCall removals awaiting a sync point
  effects,      \* ids with a ToolEffectPending entity
  ended,        \* tasks in a terminal state
  stopping,     \* tasks carrying StopRequested
  answers,      \* per id: results landed for the agent loop
  notices,      \* per call: job notifications delivered to the owner's inbox
  muted         \* calls whose job the agent stopped

entityVars == <<pending, inFlight, age, backgrounded, silent>>
jobVars == <<job, fresh>>
workerVars == <<running, cancelled, channel>>
deferVars == <<taken, despawned, claims>>
taskVars == <<ended, stopping>>
outVars == <<answers, notices, muted>>
vars == <<todo, issued, request, entityVars, jobVars, workerVars, deferVars,
          effects, taskVars, outVars>>

OwnerOf(i) == Owner[i[1]]

Runnable(s) == s \in todo /\ Before(s) \cap todo = {}

Ran(s) == Runnable(s) /\ todo' = todo \ {s}

\* `tool_call_id` is the one a live job tracks.
Tracked(i) == job[i[1]] = i[2]

Completed(i, p) == [id |-> i, payload |-> p]

Init ==
  /\ todo = Systems
  /\ issued = {} /\ request = {} /\ pending = {} /\ inFlight = {}
  /\ age = [i \in Ids |-> "fresh"]
  /\ backgrounded = {} /\ silent = {}
  /\ job = [c \in Calls |-> NoJob] /\ fresh = {}
  /\ running = {} /\ cancelled = {} /\ channel = <<>>
  /\ taken = 0 /\ despawned = {} /\ claims = {}
  /\ effects = {} /\ ended = {} /\ stopping = {}
  /\ answers = [i \in Ids |-> 0]
  /\ notices = [c \in Calls |-> 0]
  /\ muted = {}

-----------------------------------------------------------------------------
(* Outside the frame: the clock, the workers, the owner task.              *)

\* The clock is sampled once per frame (tick_clock), so deadlines pass
\* between two frames.  The budget is earlier than the timeout.
Later(a, b) ==
  \/ a = "fresh" /\ b \in {"budget", "lost"}
  \/ a = "budget" /\ b = "lost"

\* End of the frame: the remaining deferred removals are applied and the next
\* update starts with a new clock reading.
Tick(late) ==
  /\ todo = {}
  /\ todo' = Systems
  /\ inFlight' = inFlight \ {cl[1] : cl \in claims}
  /\ claims' = {}
  /\ fresh' = {}
  /\ late \subseteq inFlight'
  /\ \E a \in [late -> Ages] :
       /\ \A i \in late : Later(age[i], a[i])
       /\ age' = [i \in Ids |-> IF i \in late THEN a[i]
                              ELSE IF i \in inFlight' THEN age[i] ELSE "fresh"]
  /\ UNCHANGED <<issued, request, pending, backgrounded, silent, job, workerVars,
                 taken, despawned, effects, taskVars, outVars>>

\* run_async returns, or panics (catch_unwind), and sends one result.  Only a
\* tool that is not backgroundable declares a write effect.
WorkerFinish(i, p) ==
  /\ i \in running
  /\ p \in {"completed", "effect"}
  /\ p = "effect" => i[1] \notin Backgroundable
  /\ running' = running \ {i}
  /\ channel' = Append(channel, Completed(i, p))
  /\ UNCHANGED <<todo, issued, request, entityVars, jobVars, cancelled, deferVars,
                 effects, taskVars, outVars>>

\* The agent loop requests a tool (tool_calling.rs), before stop_task runs.
LlmRequests(c) ==
  /\ "stop" \in todo
  /\ c \notin issued
  /\ Owner[c] \notin ended
  /\ issued' = issued \cup {c}
  /\ request' = request \cup {<<c, 0>>}
  /\ UNCHANGED <<todo, entityVars, jobVars, workerVars, deferVars, effects,
                 taskVars, outVars>>

\* The owner reaches Done or Failed, by whichever system sets the status.
TaskEnds(t) ==
  /\ t \in Tasks \ ended
  /\ ended' = ended \cup {t}
  /\ UNCHANGED <<todo, issued, request, entityVars, jobVars, workerVars, deferVars,
                 effects, stopping, outVars>>

-----------------------------------------------------------------------------
(* Transform.                                                              *)

\* Control and monitor act on a job whose tracked call is pending.
Controllable(c) ==
  /\ Runnable("control")
  /\ job[c] # NoJob
  /\ c \notin fresh
  /\ <<c, job[c]>> \in pending \cap backgrounded

CancelToken(i) == cancelled' = cancelled \cup ({i} \cap inFlight)

\* stop_background_job: silence the result and cancel the worker.
AgentStops(c) ==
  /\ Controllable(c)
  /\ silent' = silent \cup {<<c, job[c]>>}
  /\ CancelToken(<<c, job[c]>>)
  /\ muted' = muted \cup {c}
  /\ UNCHANGED <<todo, issued, request, pending, inFlight, age, backgrounded,
                 jobVars, running, channel, deferVars, effects, taskVars,
                 answers, notices>>

\* A watchdog stop cancels the worker; the result is still notified.
WatchdogStops(c) ==
  /\ Controllable(c)
  /\ CancelToken(<<c, job[c]>>)
  /\ UNCHANGED <<todo, issued, request, entityVars, jobVars, running, channel,
                 deferVars, effects, taskVars, outVars>>

\* The watchdog proposes a retry only below its cap.
RetryAllowed(c) == job[c] < MaxRetry

\* A watchdog retry silences and cancels the old attempt and queues a new
\* request that already carries BackgroundedToolCall; the job follows it.
WatchdogRetries(c) ==
  /\ Controllable(c)
  /\ RetryAllowed(c)
  /\ LET old == <<c, job[c]>>
         new == <<c, job[c] + 1>>
     IN  /\ silent' = silent \cup {old}
         /\ CancelToken(old)
         /\ request' = request \cup {new}
         /\ backgrounded' = backgrounded \cup {new}
         /\ job' = [job EXCEPT ![c] = @ + 1]
  /\ UNCHANGED <<todo, issued, pending, inFlight, age, fresh, running, channel,
                 deferVars, effects, taskVars, outVars>>

ControlDone ==
  /\ Ran("control")
  /\ UNCHANGED <<issued, request, entityVars, jobVars, workerVars, deferVars,
                 effects, taskVars, outVars>>

\* Mutant: a retry still queued is taken for finished.
RetiredWhenQueued(c) == job[c] # NoJob => <<c, job[c]>> \in pending

\* Mutant: a call is taken for finished when its in-flight mark goes.
RetiredWhenSwept(c) == job[c] # NoJob => <<c, job[c]>> \in inFlight \cup request

\* background_job_monitor: a ToolCall job is retired, without a notice of its
\* own, once its call is neither pending nor queued.
Monitored(c) == job[c] # NoJob => <<c, job[c]>> \in pending \cup request

Monitor ==
  /\ Ran("monitor")
  /\ job' = [c \in Calls |-> IF Monitored(c) THEN job[c] ELSE NoJob]
  /\ UNCHANGED <<issued, request, entityVars, fresh, workerVars, deferVars,
                 effects, taskVars, outVars>>

\* Mutant: a call already backgrounded is answered again.
OverrunAgain ==
  {i \in inFlight :
     /\ i[1] \in Backgroundable
     /\ age[i] # "fresh"
     /\ OwnerOf(i) \notin ended \cup stopping}

\* tool_auto_background: calls past their budget answer the loop with
\* `running_in_background` and become jobs of their owner.
Overrun ==
  {i \in inFlight \ backgrounded :
     /\ i[1] \in Backgroundable
     /\ age[i] # "fresh"
     /\ OwnerOf(i) \notin ended \cup stopping}

AutoBackground ==
  /\ Ran("autobg")
  /\ backgrounded' = backgrounded \cup Overrun
  /\ job' = [c \in Calls |-> IF <<c, 0>> \in Overrun THEN 0 ELSE job[c]]
  /\ fresh' = fresh \cup {i[1] : i \in Overrun}
  /\ answers' = [i \in Ids |-> answers[i] + IF i \in Overrun THEN 1 ELSE 0]
  /\ UNCHANGED <<issued, request, pending, inFlight, age, silent, workerVars,
                 deferVars, effects, taskVars, notices, muted>>

\* Mutant: the entity of a backgrounded call is kept.
LandKept(i) ==
  /\ despawned' = despawned \cup ({i} \ backgrounded)
  /\ UNCHANGED <<answers, notices, effects>>

\* Mutant: a backgrounded call answers the loop.
LandTwice(i) ==
  /\ despawned' = despawned \cup {i}
  /\ answers' = [answers EXCEPT ![i] = @ + 1]
  /\ UNCHANGED <<notices, effects>>

\* ingest_tool_results, one received message.  The pending query is a
\* snapshot: an entity despawned earlier in this run is still found.
Land(i) ==
  /\ despawned' = despawned \cup {i}
  /\ IF i \in backgrounded
       THEN /\ notices' = [notices EXCEPT ![i[1]] = @ + IF i \in silent THEN 0 ELSE 1]
            /\ answers' = answers
       ELSE /\ answers' = [answers EXCEPT ![i] = @ + 1]
            /\ notices' = notices
  /\ UNCHANGED effects

ParkEffect(i) ==
  /\ effects' = effects \cup {i}
  /\ UNCHANGED <<despawned, answers, notices>>

DropResult == UNCHANGED <<despawned, answers, notices, effects>>

IngestRecv ==
  /\ Runnable("ingest")
  /\ channel # <<>> /\ taken < Batch
  /\ LET m == Head(channel)
     IN  \/ m.id \notin pending /\ DropResult
         \/ m.id \in pending /\ m.payload = "effect" /\ ParkEffect(m.id)
         \/ m.id \in pending /\ m.payload # "effect" /\ Land(m.id)
  /\ channel' = Tail(channel)
  /\ taken' = taken + 1
  /\ UNCHANGED <<todo, issued, request, entityVars, jobVars, running, cancelled,
                 claims, taskVars, muted>>

IngestDone ==
  /\ Ran("ingest")
  /\ channel = <<>> \/ taken = Batch
  /\ taken' = 0
  /\ UNCHANGED <<issued, request, entityVars, jobVars, workerVars, despawned,
                 claims, effects, taskVars, outVars>>

\* The sync point after ingest applies its despawns.
IngestSync ==
  /\ Ran("ingest_sync")
  /\ pending' = pending \ despawned
  /\ inFlight' = inFlight \ despawned
  /\ backgrounded' = backgrounded \ despawned
  /\ silent' = silent \ despawned
  /\ despawned' = {}
  /\ UNCHANGED <<issued, request, age, jobVars, workerVars, taken, claims,
                 effects, taskVars, outVars>>

\* stop_task for the tasks in ts: StopRequested is set and every queued
\* request of the task's own turn is withdrawn.
Withdrawn(ts) == {i \in request : OwnerOf(i) \in ts /\ i[1] \in TaskLevel}

StopTask(ts) ==
  /\ Ran("stop")
  /\ ts \subseteq Tasks \ ended
  /\ stopping' = stopping \cup ts
  /\ request' = request \ Withdrawn(ts)
  /\ backgrounded' = backgrounded \ Withdrawn(ts)
  /\ UNCHANGED <<issued, pending, inFlight, age, silent, jobVars, workerVars,
                 deferVars, effects, ended, outVars>>

-----------------------------------------------------------------------------
(* Dispatch and Maintenance.                                               *)

\* async_tool_dispatch: drop the requests of ended tasks, leave those held for
\* confirmation, park the others and spawn their workers.  A retry is
\* `confirmed_once`, so it is never held.
AsyncDispatch(held) ==
  /\ Ran("dispatch")
  /\ LET dead   == {i \in request : OwnerOf(i) \in ended}
         parked == request \ (dead \cup held)
     IN  /\ held \subseteq {i \in request \ dead : i[2] = 0}
         /\ request' = held
         /\ pending' = pending \cup parked
         /\ inFlight' = inFlight \cup parked
         /\ running' = running \cup parked
         /\ backgrounded' = backgrounded \ dead
         /\ age' = [i \in Ids |-> IF i \in parked THEN "fresh" ELSE age[i]]
  /\ UNCHANGED <<issued, silent, jobVars, cancelled, channel, deferVars, effects,
                 taskVars, outVars>>

\* sweep_inflight_tool_calls: a call past its timeout gets a timeout result
\* through the channel and loses its in-flight mark.
SweepOne(i) ==
  /\ Runnable("sweep")
  /\ i \in inFlight /\ age[i] = "lost"
  /\ <<i, "sweep">> \notin claims
  /\ channel' = Append(channel, Completed(i, "timeout"))
  /\ claims' = claims \cup {<<i, "sweep">>}
  /\ UNCHANGED <<todo, issued, request, entityVars, jobVars, running, cancelled,
                 taken, despawned, effects, taskVars, outVars>>

SweepDone ==
  /\ Ran("sweep")
  /\ \A i \in inFlight : age[i] = "lost" => <<i, "sweep">> \in claims
  /\ UNCHANGED <<issued, request, entityVars, jobVars, workerVars, deferVars,
                 effects, taskVars, outVars>>

\* Mutant: /stop cancels the background jobs too.
AbandonedAll == {i \in inFlight : OwnerOf(i) \in ended \cup stopping}

\* cancel_monitor: calls of an ended owner, and the foreground calls of a
\* stopping one, are cancelled and lose their in-flight mark.
Abandoned ==
  {i \in inFlight : \/ OwnerOf(i) \in ended
                    \/ OwnerOf(i) \in stopping /\ i \notin backgrounded}

CancelMonitor ==
  /\ Ran("cancel")
  /\ cancelled' = cancelled \cup Abandoned
  /\ claims' = claims \cup (Abandoned \X {"cancel"})
  /\ UNCHANGED <<issued, request, entityVars, jobVars, running, channel, taken,
                 despawned, effects, taskVars, outVars>>

\* commit_tool_effects: apply the effect, send its outcome, drop the entity.
CommitOne(i) ==
  /\ Runnable("commit")
  /\ i \in effects
  /\ channel' = Append(channel, Completed(i, "completed"))
  /\ effects' = effects \ {i}
  /\ UNCHANGED <<todo, issued, request, entityVars, jobVars, running, cancelled,
                 deferVars, taskVars, outVars>>

CommitDone ==
  /\ Ran("commit")
  /\ effects = {}
  /\ UNCHANGED <<issued, request, entityVars, jobVars, workerVars, deferVars,
                 effects, taskVars, outVars>>

\* clear_stop_requested; the sync point it needs applies the claims so far.
ClearStop ==
  /\ Ran("clear")
  /\ stopping' = {}
  /\ inFlight' = inFlight \ {cl[1] : cl \in claims}
  /\ claims' = {}
  /\ UNCHANGED <<issued, request, pending, age, backgrounded, silent, jobVars,
                 workerVars, taken, despawned, effects, ended, outVars>>

\* background_job_cleanup: no job outlives its owner.
Cleanup ==
  /\ Ran("cleanup")
  /\ job' = [c \in Calls |-> IF Owner[c] \in ended THEN NoJob ELSE job[c]]
  /\ UNCHANGED <<issued, request, entityVars, fresh, workerVars, deferVars,
                 effects, taskVars, outVars>>

-----------------------------------------------------------------------------
Frame ==
  \/ \E c \in Calls : AgentStops(c) \/ WatchdogStops(c) \/ WatchdogRetries(c)
  \/ ControlDone \/ Monitor \/ AutoBackground
  \/ IngestRecv \/ IngestDone \/ IngestSync
  \/ \E ts \in SUBSET Tasks : StopTask(ts)
  \/ \E held \in SUBSET request : AsyncDispatch(held)
  \/ \E i \in Ids : SweepOne(i) \/ CommitOne(i)
  \/ SweepDone \/ CancelMonitor \/ CommitDone \/ ClearStop \/ Cleanup

Environment ==
  \/ \E i \in Ids, p \in {"completed", "effect"} : WorkerFinish(i, p)
  \/ \E c \in Calls : LlmRequests(c)
  \/ \E t \in Tasks : TaskEnds(t)

Next ==
  \/ Frame
  \/ Environment
  \/ \E late \in SUBSET Ids : Tick(late)

Spec == Init /\ [][Next]_vars

-----------------------------------------------------------------------------
(* Fairness.  The run loop keeps calling app.update() while work is due and *)
(* a system that can run does run.  Deadlines are due work, so the clock    *)
(* passes them.  Nothing is assumed of a worker: cancelled or not, it may   *)
(* hang for ever (cancel_monitor.rs:15-17: cancellation is cooperative, the *)
(* system neither waits for the worker nor guarantees a result of it).      *)

FrameStep == Frame /\ todo' # todo

FrameWork == FrameStep \/ IngestRecv \/ (\E i \in Ids : SweepOne(i) \/ CommitOne(i))

Advance(i) == \E late \in SUBSET Ids : i \in late /\ Tick(late)

Fairness ==
  /\ WF_vars(FrameWork \/ \E late \in SUBSET Ids : Tick(late))
  /\ SF_vars(\E i \in Ids : Advance(i))

FairSpec == Spec /\ Fairness

-----------------------------------------------------------------------------
(* Properties.                                                             *)

\* Every variable keeps its type.
TypeOK ==
  /\ todo \subseteq Systems
  /\ issued \subseteq Calls
  /\ request \subseteq Ids
  /\ pending \subseteq Ids
  /\ inFlight \subseteq pending
  /\ age \in [Ids -> Ages]
  /\ backgrounded \subseteq Ids
  /\ silent \subseteq Ids
  /\ job \in [Calls -> {NoJob} \cup (0..MaxRetry)]
  /\ fresh \subseteq Calls
  /\ running \subseteq Ids
  /\ cancelled \subseteq Ids
  /\ channel \in Seq(Message)
  /\ taken \in 0..Batch
  /\ despawned \subseteq pending
  /\ claims \subseteq Ids \X {"sweep", "cancel"}
  /\ effects \subseteq Ids
  /\ ended \subseteq Tasks
  /\ stopping \subseteq Tasks
  /\ answers \in [Ids -> Nat]
  /\ notices \in [Calls -> Nat]
  /\ muted \subseteq Calls

Settling == pending \ despawned

\* A result that ends call i is on its way to ingest.
ResultSent(i) ==
  \E n \in DOMAIN channel : channel[n].id = i /\ channel[n].payload # "effect"

EffectSent(i) == \E n \in DOMAIN channel : channel[n] = Completed(i, "effect")

\* No parked call is orphaned: until ingest lands its result, some party still
\* owes it one (its worker, a message in the channel, or an effect waiting for
\* commit), and once it has lost its in-flight mark, so that the sweeper no
\* longer watches it, its worker has been told to stop or the result that ends
\* it has been sent.
Answerable ==
  \A i \in Settling :
    /\ i \in running \/ i \in effects \/ EffectSent(i) \/ ResultSent(i)
    /\ i \in inFlight \/ i \in cancelled \/ ResultSent(i)

\* A backgrounded call that will still be notified is the one its owner's job
\* tracks, whether parked or (a retry) still queued, so stop_background_job and
\* the completion deferral can find it until the owner ends.
JobTracksBackgrounded ==
  \A i \in (backgrounded \cap (Settling \cup request)) \ silent :
    Tracked(i) \/ OwnerOf(i) \in ended

\* While no call outlives its timeout, a call answers the loop at most once and
\* a job is notified at most once per attempt (results land exactly once).
OneResult ==
  /\ \A i \in Ids : answers[i] <= 1
  /\ \A c \in Calls : notices[c] <= MaxRetry + 1

\* The documented rule, whatever the timing: "exactly-once".
AtMostOneAnswer == \A i \in Ids : answers[i] <= 1

\* A call moved to the background has answered the loop with the synthetic
\* `running_in_background` result and never answers it again, even when its
\* real result arrives in the frame that moves it.
BackgroundAnswersOnce ==
  \A i \in backgrounded : answers[i] = IF i[2] = 0 THEN 1 ELSE 0

\* While no call outlives its timeout, an answer to the loop is final: when a
\* foreground call has been answered its worker is gone and no write effect of
\* it is still to be applied.
AnswerIsFinal ==
  \A i \in Ids \ backgrounded :
    answers[i] > 0 /\ i[1] \notin Backgroundable =>
      i \notin running \cup effects /\ ~EffectSent(i)

\* What the bridge promises of results it promises until the sweeper has to
\* give up on a worker: as long as no call outlives its timeout, results land
\* exactly once (ingest_tool_results.rs:49-97), and an answer to the tool loop
\* is final, no worker and no uncommitted write effect of the call left behind
\* it.
TimelyAnswers ==
  [](\A i \in Ids : age[i] # "lost") => [](OneResult /\ AnswerIsFinal)

\* A job the agent did not stop retires only after its owner was notified of
\* the result or ended, and one the agent stopped is never notified afterwards.
NotifiedUnlessStopped ==
  [][\A c \in Calls :
       /\ job[c] # NoJob /\ job'[c] = NoJob /\ c \notin muted /\ Owner[c] \notin ended
            => notices[c] > 0
       /\ c \in muted => notices'[c] = notices[c]]_vars

\* "/stop interrupts the current turn only".  Unless its owner has ended or a
\* control named its job, a backgrounded call is neither cancelled nor
\* withdrawn; and by the end of the frame in which the stop takes effect every
\* foreground call of the task has been cancelled.
StopSelects ==
  [][/\ \A i \in backgrounded \ silent :
          (OwnerOf(i) \notin ended /\ "control" \notin todo) =>
            /\ i \in cancelled' => i \in cancelled
            /\ i \in request => i \in request' \cup pending'
     /\ \A i \in inFlight' : (OwnerOf(i) \in stopping \ stopping') =>
          i \in cancelled \/ i \in backgrounded]_vars

\* A worker that has not reacted to the cancellation of its call.  The claim of
\* cancel_monitor has taken the call out of the sweeper's sight.
Unheeded(i) == i \in (running \cap cancelled \cap Settling) \ inFlight /\ ~ResultSent(i)

\* Every parked call is settled, its entity gone, whether its worker returns,
\* hangs, or is stopped as a job and hangs: the sweeper answers for it.  The one
\* call nobody answers for is one whose turn or owner is gone and whose worker
\* never heeds the cancellation; once it does, that call is settled too.
EveryCallSettles == \A i \in Ids : i \in pending ~> (i \notin pending \/ Unheeded(i))

-----------------------------------------------------------------------------
(* The inductive invariant behind Answerable, JobTracksBackgrounded and    *)
(* BackgroundAnswersOnce (proved in ToolBridge_proofs).                    *)

\* Deferred commands are pending only in the part of the frame that issues
\* them.
Phases ==
  /\ "ingest" \in todo => "ingest_sync" \in todo
  /\ "dispatch" \in todo => claims = {}
  /\ despawned # {} => "ingest_sync" \in todo /\ "autobg" \notin todo

\* A call whose in-flight mark is about to go has been cancelled, or the
\* result that ends it is sent, or it has been landed meanwhile.
ClaimsBacked ==
  \A cl \in claims : cl[1] \in Settling => cl[1] \in cancelled \/ ResultSent(cl[1])

\* An entity is either a request or parked; the background mark sits on one
\* of the two.
OneEntity ==
  /\ request \cap pending = {}
  /\ backgrounded \subseteq request \cup pending

\* Nothing exists of a call before it is issued.
IssuedFirst ==
  \A c \in Calls \ issued :
    /\ job[c] = NoJob
    /\ \A k \in 0..MaxRetry : <<c, k>> \notin request \cup pending

\* Retries exist only as backgrounded attempts, numbered up to the tracked one.
RetriesAreJobs ==
  \A i \in request \cup pending :
    i[2] > 0 => i \in backgrounded /\ (job[i[1]] # NoJob => i[2] <= job[i[1]])

\* While the first attempt is in the foreground there is no job and no retry.
ForegroundIsAlone ==
  \A c \in Calls :
    <<c, 0>> \in (request \cup pending) \ backgrounded =>
      /\ job[c] = NoJob
      /\ \A k \in 1..MaxRetry : <<c, k>> \notin request \cup pending

\* Only a first attempt answers the loop, and not before it is landed or
\* backgrounded.
Unanswered ==
  \A i \in Ids :
    /\ i[2] > 0 => answers[i] = 0
    /\ i[2] = 0 /\ i \notin backgrounded
         /\ (i[1] \notin issued \/ i \in request \cup Settling) => answers[i] = 0

BridgeInv ==
  /\ TypeOK
  /\ Phases
  /\ Answerable
  /\ ClaimsBacked
  /\ OneEntity
  /\ IssuedFirst
  /\ RetriesAreJobs
  /\ ForegroundIsAlone
  /\ JobTracksBackgrounded
  /\ Unanswered
  /\ BackgroundAnswersOnce
=============================================================================

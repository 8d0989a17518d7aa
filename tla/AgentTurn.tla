------------------------------ MODULE AgentTurn ------------------------------
(***************************************************************************)
(* The turn of one root user task: input routing, the inbox of steers, LLM *)
(* requests and their results, the tool-calling loop with confirmations,   *)
(* retries, /stop and /finish.                                             *)
(*                                                                         *)
(* A frame is one app.update(); `todo` holds the systems still to run and  *)
(* Before(s) the systems ordered before s, as the plugins declare them.    *)
(* Systems the plugins leave unordered run in either order.  Sub-tasks,    *)
(* chat rounds, ask_user and supervisor approval are left out; ToolBridge  *)
(* models what happens to a parked call and its background job.            *)
(***************************************************************************)
EXTENDS Integers, FiniteSets

CONSTANTS
  Slots,      \* tool_call_ids; one is reused once nothing of its call is left
  NoCall,     \* no call
  MultiTurn,  \* a conversation of a channel, or a triggered task without one
  MaxIter,    \* max_tool_iterations
  MaxRetries, \* the task's max_retries
  Commands,   \* the commands the user may send, of "stop" and "finish"
  SilentJobs, \* the task may own jobs that end without a notification
  MaxInputs,  \* bound: messages and commands the user sends
  MaxJobs,    \* bound: background jobs at once
  MaxStops    \* bound: /stop commands that take effect

ASSUME TurnAssumption ==
  /\ IsFiniteSet(Slots) /\ NoCall \notin Slots
  /\ MultiTurn \in BOOLEAN /\ SilentJobs \in BOOLEAN
  /\ Commands \subseteq {"stop", "finish"} /\ (~MultiTurn => Commands = {})
  /\ MaxIter \in Nat \ {0} /\ MaxRetries \in Nat
  /\ MaxInputs \in Nat /\ MaxJobs \in Nat /\ MaxStops \in Nat

\* TaskStatus: Waiting(Agent), Running, Waiting(ToolExecution), Waiting(User),
\* Waiting(RetryBackoff), Waiting(BackgroundJobs) and the terminal two.
Terminal == {"done", "failed"}
Statuses == Terminal \cup
  {"ready", "agent", "running", "tools", "user", "backoff", "jobs"}

\* A tool call: nothing of it exists; its request is queued, waits for the
\* user, or was allowed once; its executor runs; its result is unprocessed, or
\* processed and kept for the loop.
CallStates ==
  {"none", "requested", "asking", "confirmed", "running", "returned", "kept"}

\* A ToolCallingState; iteration 0 stands for none.
NoLoop == [pending |-> {}, iteration |-> 0]

NoAnswer == [call |-> NoCall, allow |-> FALSE]

\* Items for the task: the user's messages and the notifications of its jobs.
Kinds == {"steer", "notice"}
NoMail == [k \in Kinds |-> 0]
Plus(box, k, n) == [box EXCEPT ![k] = @ + n]
HasMail(box) == \E k \in Kinds : box[k] > 0
Count(box) == box["steer"] + box["notice"]

Transform == {"route", "jobs", "finish", "deliver", "llm", "wake", "continue",
              "stop", "reset", "terminate", "retry", "collect"}
Dispatching == {"claim", "confirm", "dispatch"}
Systems == Transform \cup Dispatching \cup {"execute", "cleanup"}

\* Mutant: the job monitor is not ordered before the inbox.
BeforeUnordered(s) ==
  CASE s \in {"finish", "deliver"}  -> {"route"}
    [] s = "llm"                    -> {"deliver"}
    [] s \in {"wake", "terminate", "stop"} -> {"llm"}
    [] s = "continue"               -> {"wake"}
    [] s = "reset"                  -> {"stop"}
    [] s \in {"claim", "dispatch"}  -> Transform
    [] s = "confirm"                -> Transform \cup {"claim"}
    [] s = "execute"                -> Transform \cup Dispatching
    [] s = "cleanup"                -> Systems \ {"cleanup"}
    [] OTHER                        -> {}

\* The systems that must have run before system s in the same frame.
Before(s) ==
  CASE s = "finish"                 -> {"route"}
    [] s = "deliver"                -> {"route", "jobs"}
    [] s = "llm"                    -> {"deliver"}
    [] s \in {"wake", "terminate", "stop"} -> {"llm"}
    [] s = "continue"               -> {"wake"}
    [] s = "reset"                  -> {"stop"}
    [] s \in {"claim", "dispatch"}  -> Transform
    [] s = "confirm"                -> Transform \cup {"claim"}
    [] s = "execute"                -> Transform \cup Dispatching
    [] s = "cleanup"                -> Systems \ {"cleanup"}
    [] OTHER                        -> {}

VARIABLES
  todo,        \* systems still to run in this frame
  inputs,      \* messages and commands the user may still send
  command,     \* StopTaskMessage or FinishTaskMessage of this frame
  status,      \* Task.status
  delegate,    \* Task.delegate is set
  asking,      \* call Task.pending_confirmation_id refers to
  answer,      \* ToolConfirmationResponseMessage
  continues,   \* ContinueTaskMessages, of the user and of background reports
  deliveries,  \* InboxDeliveryMessages
  inbox,       \* TaskInbox
  report,      \* BackgroundReportTurn is set
  jobs,        \* background jobs that will notify the task
  silent,      \* background jobs that will not
  retries,     \* Task.retry_count
  ticket,      \* retry_count of the RetryReadyMessage, 0 for none
  hint,        \* PendingDispatch: "none", "agent" (a named one), "main"
  queued,      \* AgentExecutionRequestMessages of the task
  flights,     \* LLM futures in flight
  results,     \* generations of the LLM results waiting to be ingested
  gen,         \* TurnGeneration
  loop,        \* ToolCallingState of the task
  call,        \* per slot: state of the tool call
  wasTerminal, \* PreviousTaskStatus is terminal
  interrupted, \* history: stopped, and nothing has continued the task since
  leftover     \* history: a stop or finish left a dispatch of its turn behind

inputVars == <<inputs, command, answer>>
taskVars == <<status, delegate, asking>>
mailVars == <<continues, deliveries, inbox, report>>
jobVars == <<jobs, silent>>
retryVars == <<retries, ticket>>
llmVars == <<queued, flights, results>>
loopVars == <<loop, call>>
history == <<interrupted, leftover>>
vars == <<todo, inputVars, taskVars, mailVars, jobVars, retryVars, hint,
          llmVars, gen, loopVars, wasTerminal, history>>

Runnable(s) == s \in todo /\ Before(s) \cap todo = {}

Ran(s) == Runnable(s) /\ todo' = todo \ {s}

Ended == status \in Terminal

\* A task waiting for its user, with no confirmation open.
Idle == status = "user" /\ asking = NoCall

\* Requests queued for the dispatch systems, whatever they wait for.
Requests == {s \in Slots : call[s] \in {"requested", "asking", "confirmed"}}

Init ==
  /\ todo = Systems
  /\ inputs = MaxInputs /\ command = "none" /\ answer = NoAnswer
  /\ status = "ready" /\ delegate = FALSE /\ asking = NoCall
  /\ continues = NoMail /\ deliveries = NoMail /\ inbox = NoMail
  /\ report = FALSE /\ jobs = 0 /\ silent = 0
  /\ retries = 0 /\ ticket = 0
  /\ hint = "main"
  /\ queued = 0 /\ flights = 0 /\ results = {} /\ gen = 0
  /\ loop = NoLoop /\ call = [s \in Slots |-> "none"]
  /\ wasTerminal = FALSE /\ interrupted = FALSE /\ leftover = FALSE

-----------------------------------------------------------------------------
(* Outside the frame: the provider, the executors, the retry clock.        *)

\* End of the frame.
Tick ==
  /\ todo = {}
  /\ todo' = Systems
  /\ UNCHANGED <<inputVars, taskVars, mailVars, jobVars, retryVars, hint,
                 llmVars, gen, loopVars, wasTerminal, history>>

\* The future ends, in an answer or an error, and sends its result.  Two
\* results of one generation are taken in different frames.
LlmAnswers ==
  /\ flights > 0 /\ gen \notin results
  /\ flights' = flights - 1
  /\ results' = results \cup {gen}
  /\ UNCHANGED <<todo, inputVars, taskVars, mailVars, jobVars, retryVars,
                 hint, queued, gen, loopVars, wasTerminal, history>>

\* A call may leave a background job behind, which notifies the task when it
\* ends unless it was started with notify_on_exit = FALSE.
JobStarts ==
  /\ ~Ended /\ jobs + silent < MaxJobs
  /\ \/ jobs' = jobs + 1 /\ silent' = silent
     \/ SilentJobs /\ silent' = silent + 1 /\ jobs' = jobs

\* One that stops a job of the task: it will end without a notification.
JobSilenced ==
  SilentJobs /\ jobs > 0 /\ jobs' = jobs - 1 /\ silent' = silent + 1

ToolReturns(s) ==
  /\ call[s] = "running"
  /\ call' = [call EXCEPT ![s] = "returned"]
  /\ JobStarts \/ JobSilenced \/ UNCHANGED jobVars
  /\ UNCHANGED <<todo, inputVars, taskVars, mailVars, retryVars, hint,
                 llmVars, gen, loop, wasTerminal, history>>

\* retry_wakeup, in the Signal set: one message for each backoff that is due.
RetryDue ==
  /\ todo = Systems
  /\ status = "backoff" /\ ticket = 0
  /\ ticket' = retries
  /\ UNCHANGED <<todo, inputVars, taskVars, mailVars, jobVars, retries, hint,
                 llmVars, gen, loopVars, wasTerminal, history>>

-----------------------------------------------------------------------------
(* Transform.                                                              *)

\* user_input_routing and command_parse.  A frame routes several messages or
\* one command.  The first message continues an idle task; the others, and all
\* messages to a busy one, are steers.
RouteMessages(n) ==
  /\ Ran("route")
  /\ MultiTurn /\ n <= inputs
  /\ ~Ended /\ (status = "user" => asking = NoCall)
  /\ inputs' = inputs - n
  /\ IF Idle
       THEN /\ status' = "ready"
            /\ continues' = Plus(continues, "steer", 1)
            /\ deliveries' = Plus(deliveries, "steer", n - 1)
       ELSE /\ deliveries' = Plus(deliveries, "steer", n)
            /\ UNCHANGED <<status, continues>>
  /\ UNCHANGED <<command, answer, delegate, asking, inbox, report, jobVars,
                 retryVars, hint, llmVars, gen, loopVars, wasTerminal,
                 history>>

\* A reply to the open confirmation.
RouteAnswer(allow) ==
  /\ Ran("route")
  /\ status = "user" /\ asking # NoCall
  /\ answer' = [call |-> asking, allow |-> allow]
  /\ UNCHANGED <<inputs, command, taskVars, mailVars, jobVars, retryVars,
                 hint, llmVars, gen, loopVars, wasTerminal, history>>

RouteCommand(c) ==
  /\ Ran("route")
  /\ inputs > 0 /\ ~Ended
  /\ c = "stop" => gen < MaxStops
  /\ inputs' = inputs - 1
  /\ command' = c
  /\ UNCHANGED <<answer, taskVars, mailVars, jobVars, retryVars, hint,
                 llmVars, gen, loopVars, wasTerminal, history>>

RouteNothing ==
  /\ Ran("route")
  /\ UNCHANGED <<inputVars, taskVars, mailVars, jobVars, retryVars, hint,
                 llmVars, gen, loopVars, wasTerminal, history>>

\* background_job_monitor: n jobs have ended and notify the task, m say nothing.
RetireJobs(n, m) ==
  /\ Ran("jobs")
  /\ n <= jobs /\ m <= silent
  /\ jobs' = jobs - n /\ silent' = silent - m
  /\ deliveries' = Plus(deliveries, "notice", n)
  /\ UNCHANGED <<inputVars, taskVars, continues, inbox, report, retryVars,
                 hint, llmVars, gen, loopVars, wasTerminal, history>>

\* inbox_ingest: the only writer of the inbox.
Deliver ==
  /\ Ran("deliver")
  /\ inbox' =
       IF Ended THEN inbox ELSE [k \in Kinds |-> inbox[k] + deliveries[k]]
  /\ deliveries' = NoMail
  /\ UNCHANGED <<inputVars, taskVars, continues, report, jobVars, retryVars,
                 hint, llmVars, gen, loopVars, wasTerminal, history>>

\* abort_task: a future that has just ended sends its result all the same.
Abort ==
  /\ flights' = 0
  /\ \/ UNCHANGED results
     \/ flights > 0 /\ results' = results \cup {gen}

\* ingest_execution_results and llm_response.  Results of an older generation
\* are dropped; a terminal task drops its result and its loop.
LlmNothing ==
  /\ Ran("llm")
  /\ gen \notin results \/ Ended
  /\ results' = {}
  /\ loop' = IF gen \in results THEN NoLoop ELSE loop
  /\ UNCHANGED <<inputVars, taskVars, mailVars, jobVars, retryVars, hint,
                 queued, flights, gen, call, wasTerminal, history>>

LlmResult ==
  /\ Ran("llm")
  /\ gen \in results /\ ~Ended
  /\ results' = {}
  /\ UNCHANGED <<inputVars, delegate, asking, mailVars, jobVars, ticket, hint,
                 queued, flights, gen, wasTerminal, history>>

\* Mutant: the ToolCallingState is not despawned.
LoopForgotten == UNCHANGED loop

\* Text and errors end the loop.
EndLoop == loop' = NoLoop

\* Mutant: notifications that have just arrived are not looked at.
AfterTextDone ==
  IF MultiTurn THEN "user" ELSE IF jobs + silent > 0 THEN "jobs" ELSE "done"

\* Text: a multi-turn task waits for its user, another one is done unless jobs
\* or notifications it has not seen keep it from completing.
AfterText ==
  IF MultiTurn THEN "user"
  ELSE IF jobs + silent > 0 \/ HasMail(inbox) THEN "jobs" ELSE "done"

LlmText ==
  /\ LlmResult
  /\ EndLoop
  /\ status' = AfterText
  /\ UNCHANGED <<retries, call>>

HardLimit(n) == n > 2 * MaxIter

\* Tool calls open or continue the loop.  Past the budget they are answered with
\* synthetic results, past the hard limit the task fails.
LlmToolCalls(calls) ==
  /\ LlmResult
  /\ calls # {}
  /\ \A s \in calls : call[s] = "none" /\ s \notin loop.pending
  /\ LET n == loop.iteration + 1
     IN  IF n > 1 /\ HardLimit(n)
           THEN loop' = NoLoop /\ status' = "failed" /\ UNCHANGED call
           ELSE /\ loop' = [pending |-> calls, iteration |-> n]
                /\ status' = "tools"
                /\ call' = [s \in Slots |->
                     IF s \notin calls THEN call[s]
                     ELSE IF n > 1 /\ n > MaxIter THEN "returned"
                     ELSE "requested"]
  /\ UNCHANGED retries

\* A retryable error backs off while retries are left; any other fails the task,
\* but for a background report while jobs are still running.
LlmError(retryable) ==
  /\ LlmResult
  /\ EndLoop
  /\ IF retryable /\ retries < MaxRetries
       THEN status' = "backoff" /\ retries' = retries + 1
       ELSE /\ status' =
                 IF report /\ jobs + silent > 0 THEN "jobs" ELSE "failed"
            /\ UNCHANGED retries
  /\ UNCHANGED call

\* Mutant: only a task waiting for its user is woken.
WakesIdle == HasMail(inbox) /\ Idle

\* inbox_wake: an idle task with items in its inbox is continued with them.
Wakes == HasMail(inbox) /\ (Idle \/ status = "jobs")

Wake ==
  /\ Ran("wake")
  /\ Wakes
  /\ inbox' = NoMail
  /\ continues' =
       Plus(continues, IF inbox["steer"] > 0 THEN "steer" ELSE "notice", 1)
  /\ UNCHANGED <<inputVars, taskVars, deliveries, report, jobVars, retryVars,
                 hint, llmVars, gen, loopVars, wasTerminal, history>>

\* Notifications alone wait for the coalescing window and the wake budget.
WakeNothing ==
  /\ Ran("wake")
  /\ ~Wakes \/ inbox["steer"] = 0
  /\ UNCHANGED <<inputVars, taskVars, mailVars, jobVars, retryVars, hint,
                 llmVars, gen, loopVars, wasTerminal, history>>

\* continue_task: ready again, to be dispatched to the agent it had.  A second
\* message of the frame finds the delegate gone.
ContinueTask ==
  /\ Ran("continue")
  /\ continues' = NoMail
  /\ IF ~HasMail(continues) \/ Ended
       THEN UNCHANGED <<status, delegate, hint, report, interrupted>>
       ELSE /\ status' = "ready"
            /\ delegate' = FALSE
            /\ hint' =
                 IF delegate /\ Count(continues) = 1 THEN "agent" ELSE "main"
            /\ \E k \in Kinds : continues[k] > 0 /\ report' = (k = "notice")
            /\ interrupted' = FALSE
  /\ UNCHANGED <<inputVars, asking, deliveries, inbox, jobVars, retryVars,
                 llmVars, gen, loopVars, wasTerminal, leftover>>

\* finish_task: abort the LLM call; done, whatever the status was.
FinishTask ==
  /\ Ran("finish")
  /\ IF command = "finish"
       THEN /\ Abort
            /\ status' = "done"
            /\ command' = "none"
            /\ leftover' = (leftover \/ hint = "agent")
       ELSE UNCHANGED <<status, command, flights, results, leftover>>
  /\ UNCHANGED <<inputs, answer, delegate, asking, mailVars, jobVars,
                 retryVars, hint, queued, gen, loopVars, wasTerminal,
                 interrupted>>

\* stop_task: nothing to do for an ended or idle task; otherwise abort, open a
\* new generation, withdraw the queued tool requests and wait for the user.
Stoppable == ~Ended /\ ~Idle

StopTask ==
  /\ Ran("stop")
  /\ command' = IF command = "stop" THEN "none" ELSE command
  /\ IF command = "stop" /\ Stoppable
       THEN /\ Abort
            /\ gen' = gen + 1
            /\ call' =
                 [s \in Slots |-> IF s \in Requests THEN "none" ELSE call[s]]
            /\ asking' = NoCall
            /\ status' = "user"
            /\ interrupted' = TRUE
            /\ leftover' = (leftover \/ queued > 0 \/ hint = "agent")
       ELSE UNCHANGED <<flights, results, gen, call, asking, status, history>>
  /\ UNCHANGED <<inputs, answer, delegate, mailVars, jobVars, retryVars, hint,
                 queued, loop, wasTerminal>>

\* tool_calling_turn_reset: an idle task without a queued request has no loop.
TurnReset ==
  /\ Ran("reset")
  /\ loop' = IF Idle /\ Requests = {} THEN NoLoop ELSE loop
  /\ UNCHANGED <<inputVars, taskVars, mailVars, jobVars, retryVars, hint,
                 llmVars, gen, call, wasTerminal, history>>

\* task_termination, once for each change to a terminal status.
Terminate ==
  /\ Ran("terminate")
  /\ wasTerminal' = Ended
  /\ IF Ended /\ ~wasTerminal
       THEN Abort /\ loop' = NoLoop
       ELSE UNCHANGED <<flights, results, loop>>
  /\ UNCHANGED <<inputVars, taskVars, mailVars, jobVars, retryVars, hint,
                 queued, gen, call, history>>

\* Mutant: the message is compared with the retry to come.
TicketOff == ticket > 0 /\ status = "backoff" /\ ticket = retries + 1

\* retry_ready: only the message of the current backoff counts.
TicketValid == ticket > 0 /\ status = "backoff" /\ ticket = retries

RetryReady ==
  /\ Ran("retry")
  /\ ticket' = 0
  /\ status' = IF TicketValid THEN "ready" ELSE status
  /\ hint' = IF TicketValid THEN IF delegate THEN "agent" ELSE "main" ELSE hint
  /\ UNCHANGED <<inputVars, delegate, asking, mailVars, jobVars, retries,
                 llmVars, gen, loopVars, wasTerminal, history>>

\* tool_result: a result is kept while a loop waits for it.
Processed(s) ==
  IF call[s] # "returned" THEN call[s]
  ELSE IF s \in loop.pending THEN "kept" ELSE "none"

\* Mutant: the task's status is not looked at.
LoopCompleteAnyStatus ==
  loop.pending # {} /\ \A s \in loop.pending : Processed(s) = "kept"

\* tool_calling_orchestrator: the loop goes on once every pending call has its
\* result.
LoopComplete ==
  /\ status = "tools" /\ loop.pending # {}
  /\ \A s \in loop.pending : Processed(s) = "kept"

Collect ==
  /\ Ran("collect")
  /\ call' = [s \in Slots |->
       IF LoopComplete /\ s \in loop.pending THEN "none" ELSE Processed(s)]
  /\ IF ~LoopComplete
       THEN UNCHANGED <<loop, status, queued>>
       ELSE IF HardLimit(loop.iteration)
         THEN loop' = NoLoop /\ status' = "failed" /\ UNCHANGED queued
         ELSE /\ loop' = [loop EXCEPT !.pending = {}]
              /\ status' = "agent"
              /\ queued' = queued + 1
  /\ UNCHANGED <<inputVars, delegate, asking, mailVars, jobVars, retryVars,
                 hint, flights, results, gen, wasTerminal, history>>

-----------------------------------------------------------------------------
(* Dispatch and Execution.                                                 *)

\* restore_task_after_tool: back to the loop, or ready where there is none.
Restored(st) == IF st = "tools" /\ loop = NoLoop THEN "ready" ELSE st

\* What a queued request becomes: an asking one waits for its answer, an allowed
\* one runs, any other is run, answered at once, asks or stays queued.
Fates(from) ==
  CASE from = "asking"    -> {"asking"}
    [] from = "confirmed" -> {"running"}
    [] from = "requested" -> {"running", "returned", "asking", "requested"}

\* Mutant: the confirmation already open is not looked at.
MayAskAgain == TRUE

\* One confirmation of the task at a time.
MayAsk == asking = NoCall

\* async_tool_dispatch, then tool_dispatch.  One request asks the user at a
\* time: while it does, others that need the user stay queued.
Claim ==
  /\ Ran("claim")
  /\ ~Ended
  /\ \E to \in [Requests -> CallStates] :
       LET asks == {s \in Requests : to[s] = "asking" /\ call[s] = "requested"}
           now  == {s \in Requests : to[s] = "returned"}
       IN  /\ \A s \in Requests : to[s] \in Fates(call[s])
           /\ Cardinality(asks) <= 1
           /\ asks # {} => MayAsk
           /\ MayAsk /\ asks = {} => \A s \in Requests : to[s] # "requested"
           /\ call' =
                [s \in Slots |-> IF s \in Requests THEN to[s] ELSE call[s]]
           /\ IF asks = {}
                THEN /\ \/ UNCHANGED status
                        \/ now # {} /\ status' = Restored(status)
                     /\ UNCHANGED asking
                ELSE status' = "user" /\ asking' \in asks
  /\ UNCHANGED <<inputVars, delegate, mailVars, jobVars, retryVars, hint,
                 llmVars, gen, loop, wasTerminal, history>>

\* A terminal task's requests are dropped.
ClaimEnded ==
  /\ Ran("claim")
  /\ Ended
  /\ call' = [s \in Slots |-> IF s \in Requests THEN "none" ELSE call[s]]
  /\ UNCHANGED <<inputVars, taskVars, mailVars, jobVars, retryVars, hint,
                 llmVars, gen, loop, wasTerminal, history>>

\* tool_confirmation_result: a response whose request is gone is dropped.  A
\* denied or synchronous call has its result at once; an asynchronous one is
\* claimed in the next frame.
AfterAnswer(allow) == IF allow THEN {"returned", "confirmed"} ELSE {"returned"}

Confirm ==
  /\ Ran("confirm")
  /\ answer' = NoAnswer
  /\ IF answer.call # NoCall /\ call[answer.call] = "asking"
       THEN /\ \E to \in AfterAnswer(answer.allow) :
                 call' = [call EXCEPT ![answer.call] = to]
            /\ status' = Restored(IF status = "user" THEN "tools" ELSE status)
            /\ asking' = NoCall
       ELSE UNCHANGED <<call, status, asking>>
  /\ UNCHANGED <<inputs, command, delegate, mailVars, jobVars, retryVars,
                 hint, llmVars, gen, loop, wasTerminal, history>>

\* dispatch_system: a request for the main agent is dropped unless the task is
\* ready and unassigned; one for a named agent is not.  A task whose agent is not
\* there fails.
Dispatches == hint = "agent" \/ (hint = "main" /\ status = "ready" /\ ~delegate)

DispatchTask ==
  /\ Ran("dispatch")
  /\ hint' = "none"
  /\ \/ Dispatches /\ status' = "agent" /\ delegate' = TRUE /\ queued' = queued + 1
     \/ Dispatches /\ status' = "failed" /\ UNCHANGED <<delegate, queued>>
     \/ ~Dispatches /\ UNCHANGED <<status, delegate, queued>>
  /\ UNCHANGED <<inputVars, asking, mailVars, jobVars, retryVars, flights,
                 results, gen, loopVars, wasTerminal, history>>

\* context_attachment stamps the requests and hands the inbox to them; then
\* agent_execution starts them, or drops those of an ended task.
Execute ==
  /\ Ran("execute")
  /\ inbox' = IF queued > 0 THEN NoMail ELSE inbox
  /\ report' = (report /\ ~(queued > 0 /\ inbox["steer"] > 0))
  /\ flights' = IF Ended THEN flights ELSE flights + queued
  /\ status' = IF queued > 0 /\ ~Ended THEN "running" ELSE status
  /\ queued' = 0
  /\ UNCHANGED <<inputVars, delegate, asking, continues, deliveries, jobVars,
                 retryVars, hint, results, gen, loopVars, wasTerminal,
                 history>>

\* background_job_cleanup: an ended task keeps no job.
Cleanup ==
  /\ Ran("cleanup")
  /\ jobs' = IF Ended THEN 0 ELSE jobs
  /\ silent' = IF Ended THEN 0 ELSE silent
  /\ UNCHANGED <<inputVars, taskVars, mailVars, retryVars, hint, llmVars, gen,
                 loopVars, wasTerminal, history>>

-----------------------------------------------------------------------------
Frame ==
  \/ \E n \in 1..2 : RouteMessages(n)
  \/ \E allow \in BOOLEAN : RouteAnswer(allow)
  \/ \E c \in Commands : RouteCommand(c)
  \/ \E n \in 0..MaxJobs, m \in 0..MaxJobs : RetireJobs(n, m)
  \/ RouteNothing \/ Deliver
  \/ LlmNothing \/ LlmText
  \/ \E calls \in SUBSET Slots : LlmToolCalls(calls)
  \/ \E retryable \in BOOLEAN : LlmError(retryable)
  \/ Wake \/ WakeNothing \/ ContinueTask \/ FinishTask \/ StopTask
  \/ TurnReset \/ Terminate \/ RetryReady \/ Collect
  \/ Claim \/ ClaimEnded \/ Confirm \/ DispatchTask \/ Execute \/ Cleanup

Next ==
  \/ Frame \/ Tick
  \/ LlmAnswers \/ RetryDue
  \/ \E s \in Slots : ToolReturns(s)

Spec == Init /\ [][Next]_vars

\* Every system of a frame runs and frames follow one another while there is
\* work; the provider answers, an executor returns (or is swept, see
\* ToolBridge), the clock passes the backoff, the coalescing window and the
\* window of the wake budget.  A background job need never end.
Fairness ==
  /\ WF_vars(Frame) /\ WF_vars(Tick)
  /\ WF_vars(LlmAnswers)
  /\ SF_vars(RetryDue) /\ SF_vars(Wake)
  /\ \A s \in Slots : WF_vars(ToolReturns(s))

FairSpec == Spec /\ Fairness

-----------------------------------------------------------------------------
(* Properties.                                                             *)

\* Every variable keeps its type.
TypeOK ==
  /\ todo \subseteq Systems
  /\ inputs \in 0..MaxInputs /\ command \in {"none", "stop", "finish"}
  /\ answer \in [call : Slots \cup {NoCall}, allow : BOOLEAN]
  /\ status \in Statuses /\ delegate \in BOOLEAN
  /\ asking \in Slots \cup {NoCall}
  /\ {continues, deliveries, inbox} \subseteq [Kinds -> Nat]
  /\ report \in BOOLEAN /\ jobs \in 0..MaxJobs /\ silent \in 0..MaxJobs
  /\ retries \in 0..MaxRetries /\ ticket \in 0..MaxRetries
  /\ hint \in {"none", "agent", "main"}
  /\ queued \in Nat /\ flights \in Nat /\ results \subseteq 0..MaxStops
  /\ gen \in 0..MaxStops
  /\ loop \in [pending : SUBSET Slots, iteration : 0..(2 * MaxIter)]
  /\ call \in [Slots -> CallStates]
  /\ wasTerminal \in BOOLEAN /\ interrupted \in BOOLEAN /\ leftover \in BOOLEAN

FrameEnd == todo = {}

\* A dispatch that a stop or finish left behind runs beside the turn that
\* follows: what is said of one turn is said of tasks that have none.
OneTurn == ~leftover

\* No turn is stranded: at the end of every frame whoever the task waits for
\* exists.  An LLM call or its result for a running task; each pending call of
\* the loop somewhere between its request and its result; the request the user
\* is asked about.
Backed ==
  FrameEnd /\ OneTurn =>
    /\ status # "ready"
    /\ status \in {"agent", "running"} => flights > 0 \/ gen \in results
    /\ status = "tools" =>
         loop.pending # {} /\ \A s \in loop.pending : call[s] # "none"
    /\ status = "user" /\ asking # NoCall => call[asking] = "asking"

\* A confirmation can be answered: the request that waits for it is the one its
\* task names, and the task routes the user's reply to it.
ApprovalAnswerable ==
  FrameEnd /\ OneTurn /\ ~Ended =>
    \A s \in Slots : call[s] = "asking" => asking = s /\ status = "user"

\* A task never has two LLM calls at once.
OneLlmCall ==
  OneTurn => queued + flights + (IF gen \in results THEN 1 ELSE 0) <= 1

\* A stop that finds no dispatch to leave behind stops the turn: until a message
\* continues the task, no LLM call is made for it and none is answered.
StopIsFinal ==
  FrameEnd /\ OneTurn /\ interrupted =>
    flights = 0 /\ queued = 0 /\ gen \notin results

\* The agent completes a task only when none of its jobs runs and it has been
\* given every notification, one that arrives with its last answer included.
CompletionSeesNotices ==
  [][("llm" \in todo \ todo' /\ ~Ended /\ status' = "done")
        => jobs + silent = 0 /\ ~HasMail(inbox) /\ ~HasMail(deliveries)]_vars

\* An ended task is quiet: no LLM call runs for it and it has no loop.
EndedIsQuiet ==
  FrameEnd /\ OneTurn /\ Ended /\ wasTerminal => flights = 0 /\ loop = NoLoop

\* A task that ended with no dispatch left behind stays ended.
EndIsFinal == [][OneTurn /\ Ended => status' \in Terminal]_vars

\* What the user cancels stays so: a stop until the next message, an end for
\* good.
CancelIsFinal == []StopIsFinal /\ EndIsFinal

\* Every turn ends, in the user's hands, deferred until the jobs end, or with
\* the task, unless it waits for a confirmation: the tool budget and the retry
\* limit leave no endless turn.
TurnEnds ==
  ~Idle ~> (Idle \/ status = "jobs" \/ Ended \/ asking # NoCall \/ leftover)

\* What is put into the inbox, a steer or a notification, is handed to the
\* agent, or the task ends.
MailReachesAgent ==
  \A k \in Kinds :
    inbox[k] > 0 ~> (inbox[k] = 0 \/ Ended \/ asking # NoCall \/ leftover)

\* "/stop interrupts the current turn": no LLM call runs after it until a
\* message continues the task.
StopStops == FrameEnd /\ interrupted => flights = 0

\* A terminal status is final ("终态不变量", llm_response.rs).
TerminalAbsorbing == [][Ended => status' \in Terminal]_vars

\* A result is kept only for a loop that waits for it, whose orchestrator
\* removes it.
KeptIsAwaited ==
  FrameEnd => \A s \in Slots : call[s] = "kept" => s \in loop.pending

\* A continue or a retry makes a task ready for its next turn.
StartsTurn ==
  \/ "continue" \in todo \ todo' /\ HasMail(continues) /\ ~Ended
  \/ "retry" \in todo \ todo' /\ TicketValid

\* A stop took effect and the reset that follows it is still to run.
ResetIsDue == interrupted /\ "stop" \notin todo /\ "reset" \in todo

\* No turn inherits the loop, and with it the spent budget, of the turn before,
\* whether that one ended in text, an error or a stop, and whoever continues the
\* task: a message, its inbox or a retry.  Left open is a message that overtakes
\* the reset in the frame of the stop itself; a task that is idle at the end of
\* a frame has no loop.
TurnStartsClean ==
  /\ [](FrameEnd /\ OneTurn /\ Idle => loop = NoLoop)
  /\ [][OneTurn /\ StartsTurn => loop = NoLoop \/ ResetIsDue]_vars

\* A task that waits for its background jobs is woken once they have all ended
\* ("全部结束后由收件箱唤醒续一轮", WaitingReason::BackgroundJobs).
DeferredIsWoken ==
  FrameEnd /\ status = "jobs" => jobs + silent > 0 \/ HasMail(inbox)

=============================================================================

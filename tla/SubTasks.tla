------------------------------ MODULE SubTasks ------------------------------
(***************************************************************************)
(* Batches of sub-tasks: a parent task creates batches with create_tasks,  *)
(* may wait for some of the children with wait_tasks, and hears of the     *)
(* rest by a notification of the batch's background job.                   *)
(*                                                                         *)
(* A frame is one `app.update()`; `todo` holds the systems that have not   *)
(* run yet and `Before` the order the plugins declare, as in AgentTurn.    *)
(* The LLM of parent and children is a free choice; what the parent does   *)
(* with a notification is AgentTurn's concern.                             *)
(***************************************************************************)
EXTENDS Naturals, FiniteSets

CONSTANTS
  Batches,    \* batch ids; each is created at most once
  Children,   \* sub-tasks
  BatchOf,    \* [Children -> Batches]
  DependsOn,  \* [Children -> SUBSET Children], within a batch
  Waits,      \* tool_call_ids of wait_tasks calls
  Targets,    \* sets of children a wait may name
  MaxWaits,   \* wait_tasks calls in one round of tool calls
  MaxStops,   \* /stop commands
  Crossing    \* a stop or finish may come in the frame after a create_tasks

ASSUME SubTasksAssumption ==
  /\ Batches \cap Waits = {}
  /\ Batches \cap {"thinking", "tools", "idle", "deferred", "ready", "ended"} = {}
  /\ BatchOf \in [Children -> Batches]
  /\ DependsOn \in [Children -> SUBSET Children]
  /\ \A c \in Children : \A d \in DependsOn[c] : BatchOf[d] = BatchOf[c]
  /\ Targets \subseteq SUBSET Children
  /\ MaxWaits \in Nat /\ MaxStops \in Nat /\ Crossing \in BOOLEAN

CONSTANT NoWait
ASSUME NoWaitAssumption == NoWait \notin Waits

\* The calls of a round: create_tasks (named by its batch) and wait_tasks.
Calls == Batches \cup Waits

ChildrenOf(b) == {c \in Children : BatchOf[c] = b}

\* Statuses of the parent; a batch id stands for Waiting(SubTaskBatch).
\* "thinking" is any status in which its next LLM answer is under way.
Statuses == {"thinking", "tools", "idle", "deferred", "ready", "ended"} \cup Batches
Blocked == {"tools"} \cup Batches

Transform == {"control", "monitor", "llm", "stop", "finish", "term", "comp",
              "block", "orch", "reset", "wait"}
Dispatch == {"prep", "tools"}
Systems == Transform \cup Dispatch \cup {"cleanup"}

\* The systems that must have run before system s in the same frame.  Children
\* that "tools" spawns appear with the sync point after it.
Before(s) ==
  CASE s = "monitor" -> {"control"}
    [] s = "llm"     -> {"monitor"}
    [] s = "stop"    -> {"llm"}
    [] s = "term"    -> {"llm"}
    [] s = "comp"    -> {"term"}
    [] s = "wait"    -> {"comp"}
    [] s = "orch"    -> {"block"}
    [] s = "reset"   -> {"stop"}
    [] s = "prep"    -> Transform
    [] s = "tools"   -> Transform \cup {"prep"}
    [] s = "cleanup" -> Transform \cup Dispatch
    [] OTHER         -> {}

VARIABLES
  todo,      \* systems still to run in this frame
  parent,    \* status of the parent task
  pending,   \* calls its ToolCallingState waits for
  requests,  \* calls with a queued ToolExecutionRequestMessage
  results,   \* calls with a ToolExecutionResultMessage
  issued,    \* calls made so far
  target,    \* per wait: the children it names
  waiting,   \* the wait of the parent's WaitingForTasksInfo, or NoWait
  expired,   \* its timeout has passed
  child,     \* per child: "none", "pending", "running" or "ended"
  reported,  \* children whose end task_termination_system has seen
  ends,      \* children with a SubTaskCompletedMessage
  live,      \* batches with a SubTaskBatchState
  counted,   \* children that state counts as done or failed
  blocks,    \* batches with a SubTaskBatchCreatedMessage
  job,       \* batches with a BackgroundJob
  stops,     \* /stop commands so far
  told,      \* history: children whose end was returned or notified
  excused    \* history: children the agent or the user stopped

parentVars == <<parent, pending, requests, results, issued>>
waitVars == <<target, waiting, expired>>
childVars == <<child, reported, ends>>
batchVars == <<live, counted, blocks, job>>
history == <<told, excused>>
vars == <<todo, parentVars, waitVars, childVars, batchVars, stops, history>>

Runnable(s) == s \in todo /\ Before(s) \cap todo = {}
Ran(s) == Runnable(s) /\ todo' = todo \ {s}

Ended(c) == child[c] = "ended"
Existing == {c \in Children : child[c] # "none"}
Open == {c \in Children : child[c] \in {"pending", "running"}}

\* mark_failed_reason (or mark_done) on the open tasks among cs.
EndChildren(cs) ==
  child' = [c \in Children |-> IF c \in cs \cap Open THEN "ended" ELSE child[c]]

\* The systems whose queries may find something in a frame with these commands.
Due(cmds) ==
  {"llm", "term", "prep", "tools", "cleanup"} \cup cmds
    \cup (IF job = {} THEN {} ELSE {"monitor"})
    \cup (IF blocks = {} THEN {} ELSE {"block"})
    \cup (IF pending = {} THEN {} ELSE {"orch"})
    \cup (IF pending = {} /\ "stop" \notin cmds THEN {} ELSE {"reset"})
    \cup (IF waiting = NoWait THEN {} ELSE {"wait"})
    \cup (IF live = {} THEN {} ELSE {"comp"})

Init ==
  /\ todo = {}
  /\ parent = "thinking"
  /\ pending = {} /\ requests = {} /\ results = {} /\ issued = {}
  /\ target = [w \in Waits |-> {}] /\ waiting = NoWait /\ expired = FALSE
  /\ child = [c \in Children |-> "none"] /\ reported = {} /\ ends = {}
  /\ live = {} /\ counted = {} /\ blocks = {} /\ job = {}
  /\ stops = 0
  /\ told = {} /\ excused = {}

-----------------------------------------------------------------------------
(* Transform: control and notification.                                    *)

\* background_job_control_system: the watchdog keeps the job, whose
\* notification then says what failed; the agent's own stop removes it.
StopBatch(b, byAgent) ==
  /\ Ran("control") /\ b \in job
  /\ byAgent => parent # "ended"
  /\ EndChildren(ChildrenOf(b))
  /\ job' = IF byAgent THEN job \ {b} ELSE job
  /\ excused' = IF byAgent THEN excused \cup ChildrenOf(b) ELSE excused
  /\ UNCHANGED <<parentVars, waitVars, reported, ends, live, counted, blocks,
                 stops, told>>

\* Mutant: a claim, once made, stays.
ClaimedForever(b) == \E w \in Waits : target[w] \cap ChildrenOf(b) # {}

\* A batch is claimed while the parent waits for one of its children: its
\* completion is then left to the answer of wait_tasks.
Claimed(b) == waiting # NoWait /\ target[waiting] \cap ChildrenOf(b) # {}

AllEnded(cs) == \A c \in cs : Ended(c)

\* background_job_monitor_system.
Monitor ==
  /\ Ran("monitor")
  /\ LET over == {b \in job : AllEnded(ChildrenOf(b))}
         loud == {b \in over : ~Claimed(b)}
     IN  /\ job' = job \ over
         /\ told' = told \cup UNION {ChildrenOf(b) : b \in loud}
  /\ UNCHANGED <<parentVars, waitVars, childVars, live, counted, blocks, stops,
                 excused>>

-----------------------------------------------------------------------------
(* Transform: LLM answers.                                                 *)

\* Running children that answer for the last time in this frame.
Answers(cs) == cs \subseteq {c \in Children : child[c] = "running"} /\ EndChildren(cs)

LlmQuiet(cs) ==
  /\ Ran("llm") /\ Answers(cs)
  /\ UNCHANGED <<parentVars, waitVars, reported, ends, batchVars, stops, history>>

\* The job is gone: the control is answered with an error.
StopNothing ==
  /\ Ran("control")
  /\ UNCHANGED <<parentVars, waitVars, childVars, batchVars, stops, history>>

\* validate_task_ownership: a wait names children that exist.
Owned(cs) == cs # {} /\ cs \subseteq Existing

\* The parent's answer is a round of tool calls.
LlmCalls(bs, ws, f) ==
  /\ Ran("llm") /\ parent = "thinking"
  /\ bs \cup ws # {} /\ (bs \cup ws) \cap issued = {}
  /\ Cardinality(ws) <= MaxWaits
  /\ \A w \in ws : Owned(f[w])
  /\ issued' = issued \cup bs \cup ws
  /\ requests' = requests \cup bs \cup ws
  /\ pending' = bs \cup ws
  /\ target' = [w \in Waits |-> IF w \in ws THEN f[w] ELSE target[w]]
  /\ parent' = "tools"
  /\ UNCHANGED <<results, waiting, expired, childVars, batchVars, stops, history>>

\* The parent's answer is a text: a conversation is idle, a triggered task is
\* deferred while it has jobs and otherwise done.  "ended" also stands for an
\* answer that fails for good.
LlmEnds(s) ==
  /\ Ran("llm") /\ parent = "thinking"
  /\ s \in {"idle", "ended"} \cup (IF job = {} THEN {} ELSE {"deferred"})
  /\ parent' = s
  /\ UNCHANGED <<pending, requests, results, issued, waitVars, childVars,
                 batchVars, stops, history>>

-----------------------------------------------------------------------------
(* Transform: the end of children, waits, batches.                         *)

\* task_termination_system: an end is reported once; an ended parent loses its
\* ToolCallingState.
Terminate ==
  /\ Ran("term")
  /\ ends' = ends \cup ({c \in Children : Ended(c)} \ reported)
  /\ reported' = reported \cup {c \in Children : Ended(c)}
  /\ pending' = IF parent = "ended" THEN {} ELSE pending
  /\ UNCHANGED <<parent, requests, results, issued, waitVars, child, batchVars,
                 stops, history>>

\* What the states of the batches count once they have the ends of this frame;
\* an end of a batch without state is dropped.
Counted == counted \cup {c \in ends : BatchOf[c] \in live}

\* sub_task_completion_system.
Complete ==
  /\ Ran("comp")
  /\ LET over == {b \in live : ChildrenOf(b) \cap ends # {} /\ ChildrenOf(b) \subseteq Counted}
     IN  /\ counted' = Counted
         /\ live' = live \ over
         /\ parent' = IF parent \in over
                        THEN IF pending # {} THEN "tools" ELSE "ready"
                        ELSE parent
  /\ ends' = {}
  /\ UNCHANGED <<pending, requests, results, issued, waitVars, child, reported,
                 blocks, job, stops, history>>

\* A batch whose results a wait has just returned in full.
Covered(b) == ChildrenOf(b) \subseteq target[waiting]

\* Mutant: a wait has no timeout.
OverWhenEnded == AllEnded(target[waiting])

Over == expired \/ AllEnded(target[waiting])

\* The answer of a wait carries the results of the targets that have ended.
WaitReturns ==
  /\ results' = results \cup {waiting}
  /\ told' = told \cup {c \in target[waiting] : Ended(c)}

\* check_waiting_tasks_system: all targets ended, or the timeout has passed.
\* Jobs the answer covers retire with it, unless children still run.  The code
\* looks only at waits that are new, have a target that just ended, or are due;
\* here every wait is looked at in every frame, so that the upkeep of
\* WaitingIndex is outside the model.
CheckWaiting ==
  /\ Ran("wait")
  /\ IF waiting # NoWait /\ Over
       THEN /\ WaitReturns
            /\ job' = IF AllEnded(target[waiting]) THEN {b \in job : ~Covered(b)} ELSE job
            /\ waiting' = NoWait /\ expired' = FALSE
       ELSE UNCHANGED <<results, told, job, waiting, expired>>
  /\ UNCHANGED <<parent, pending, requests, issued, target, childVars, live,
                 counted, blocks, stops, excused>>

\* sub_task_batch_block_system: the parent waits for the batch, whatever its
\* status is by now.
Block ==
  /\ Ran("block")
  /\ \/ blocks = {} /\ UNCHANGED parent
     \/ parent' \in blocks
  /\ blocks' = {}
  /\ UNCHANGED <<pending, requests, results, issued, waitVars, childVars, live,
                 counted, job, stops, history>>

\* tool_calling_orchestrator_system: with all results there, the loop goes on.
Collect ==
  /\ Ran("orch")
  /\ IF parent \in Blocked /\ pending # {} /\ pending \subseteq results
       THEN parent' = "thinking" /\ results' = results \ pending /\ pending' = {}
       ELSE UNCHANGED <<parent, results, pending>>
  /\ UNCHANGED <<requests, issued, waitVars, childVars, batchVars, stops, history>>

-----------------------------------------------------------------------------
(* Transform: stop and finish.                                             *)

\* stop_task_system: withdraws queued calls and the wait, removes the state of
\* every batch with an open child, fails the open children.
Stop ==
  /\ Ran("stop") /\ parent \notin {"ended", "idle"}
  /\ parent' = "idle"
  /\ requests' = {} /\ waiting' = NoWait /\ expired' = FALSE
  /\ live' = live \ {BatchOf[c] : c \in Open}
  /\ EndChildren(Children)
  /\ excused' = excused \cup Existing
  /\ UNCHANGED <<pending, results, issued, target, reported, ends, counted,
                 blocks, job, stops, told>>

\* An ended task is not stopped, an idle one has no turn to stop.
StopIdle ==
  /\ Ran("stop") /\ parent \in {"ended", "idle"}
  /\ UNCHANGED <<parentVars, waitVars, childVars, batchVars, stops, history>>

\* finish_task_system: the whole tree ends.
Finish ==
  /\ Ran("finish")
  /\ parent' = "ended"
  /\ EndChildren(Children)
  /\ UNCHANGED <<pending, requests, results, issued, waitVars, reported, ends,
                 batchVars, stops, history>>

\* tool_calling_turn_reset_system.
TurnReset ==
  /\ Ran("reset")
  /\ pending' = IF parent = "idle" /\ requests = {} THEN {} ELSE pending
  /\ UNCHANGED <<parent, requests, results, issued, waitVars, childVars,
                 batchVars, stops, history>>

-----------------------------------------------------------------------------
(* Dispatch and Maintenance.                                               *)

\* Every dependency is done or failed in the state of the batch.
DepsSatisfied(c) ==
  DependsOn[c] = {} \/ (BatchOf[c] \in live /\ DependsOn[c] \subseteq counted)

Dispatchable == {"pending"}

\* subtask_dispatch_preparation_system and the dispatch of what it prepares.
Prepare ==
  /\ Ran("prep")
  /\ child' = [c \in Children |->
                 IF child[c] \in Dispatchable /\ DepsSatisfied(c) THEN "running" ELSE child[c]]
  /\ UNCHANGED <<parentVars, waitVars, reported, ends, batchVars, stops, history>>

\* The children of batches bs, their states and jobs, the message that blocks
\* the parent, and the answer of create_tasks.
CreateTasks(bs) ==
  /\ child' = [c \in Children |-> IF BatchOf[c] \in bs THEN "pending" ELSE child[c]]
  /\ live' = live \cup bs /\ blocks' = blocks \cup bs
  /\ job' = job \cup bs
  /\ results' = results \cup bs

\* The component of a wait replaces the one of another wait of the same round.
WaitForTasks(ws) ==
  \/ ws = {} /\ UNCHANGED <<waiting, expired>>
  \/ waiting' \in ws /\ expired' = FALSE

\* tool_dispatch_system on create_tasks and wait_tasks.
DispatchTools ==
  /\ Ran("tools")
  /\ requests' = {}
  /\ IF parent = "ended"
       THEN UNCHANGED <<results, child, live, blocks, job, waiting, expired>>
       ELSE CreateTasks(requests \cap Batches) /\ WaitForTasks(requests \cap Waits)
  /\ UNCHANGED <<parent, pending, issued, target, reported, ends, counted,
                 stops, history>>

\* Mutant: an ended owner only loses its jobs.
ForceNone == {}

\* Children a job cleanup ends.
Forced == UNION {ChildrenOf(b) : b \in job}

\* background_job_cleanup_system.
Cleanup ==
  /\ Ran("cleanup")
  /\ IF parent = "ended"
       THEN EndChildren(Forced) /\ job' = {}
       ELSE UNCHANGED <<child, job>>
  /\ UNCHANGED <<parentVars, waitVars, reported, ends, live, counted, blocks,
                 stops, history>>

-----------------------------------------------------------------------------
(* Between frames.                                                         *)

\* The next frame, with the commands that have arrived.
Tick(cmds) ==
  /\ todo = {} /\ todo' = Due(cmds)
  /\ "stop" \in cmds => stops < MaxStops
  /\ stops' = IF "stop" \in cmds THEN stops + 1 ELSE stops
  /\ "control" \in cmds => job # {}
  /\ "finish" \in cmds => parent # "ended"
  /\ blocks # {} /\ ~Crossing => cmds \cap {"stop", "finish"} = {}
  /\ UNCHANGED <<parentVars, waitVars, childVars, batchVars, history>>

\* The deadline of the wait passes (it is registered with the main loop).
Expire ==
  /\ todo = {} /\ waiting # NoWait /\ ~expired
  /\ expired' = TRUE
  /\ UNCHANGED <<todo, parentVars, target, waiting, childVars, batchVars, stops,
                 history>>

\* A message or a notification continues an idle parent.
Resume ==
  /\ todo = {} /\ parent \in {"idle", "deferred"}
  /\ parent' = "thinking"
  /\ UNCHANGED <<todo, pending, requests, results, issued, waitVars, childVars,
                 batchVars, stops, history>>

Frame ==
  \/ \E b \in Batches, byAgent \in BOOLEAN : StopBatch(b, byAgent)
  \/ StopNothing
  \/ \E cs \in SUBSET Children : LlmQuiet(cs)
  \/ \E bs \in SUBSET Batches, ws \in SUBSET Waits : \E f \in [ws -> Targets] : LlmCalls(bs, ws, f)
  \/ \E s \in Statuses : LlmEnds(s)
  \/ Monitor \/ Terminate \/ Complete \/ CheckWaiting \/ Block \/ Collect
  \/ Stop \/ StopIdle \/ Finish \/ TurnReset
  \/ Prepare \/ DispatchTools \/ Cleanup

Next ==
  \/ Frame \/ Expire \/ Resume
  \/ \E cmds \in SUBSET {"control", "stop", "finish"} : Tick(cmds)

Spec == Init /\ [][Next]_vars

\* Frames run while there is work, and a wait's deadline passes.  Children may
\* run for ever, and nobody need resume an idle parent.
Fairness ==
  /\ WF_vars(Frame) /\ SF_vars(Expire)
  /\ WF_vars(\E cmds \in SUBSET {"control", "stop", "finish"} : Tick(cmds))

FairSpec == Spec /\ Fairness

-----------------------------------------------------------------------------
(* Properties.                                                             *)

\* Every variable keeps its type.
TypeOK ==
  /\ todo \subseteq Systems /\ parent \in Statuses
  /\ requests \subseteq issued /\ pending \subseteq issued /\ results \subseteq issued
  /\ issued \subseteq Calls
  /\ target \in [Waits -> SUBSET Children] /\ waiting \in Waits \cup {NoWait}
  /\ expired \in BOOLEAN
  /\ child \in [Children -> {"none", "pending", "running", "ended"}]
  /\ ends \subseteq reported /\ reported \subseteq {c \in Children : Ended(c)}
  /\ live \subseteq Batches /\ counted \subseteq reported
  /\ blocks \subseteq Batches /\ job \subseteq Batches
  /\ stops \in 0..MaxStops
  /\ told \cup excused \subseteq Children

FrameEnd == todo = {}

\* No result is lost between the two ways home: once the job of a batch is
\* gone, every child's end was notified or returned by wait_tasks, or the wait
\* that claims it still stands (claims are recomputed on each frame, so that a
\* batch converted by a timeout is notified again).
ResultsReachParent ==
  FrameEnd /\ parent # "ended" =>
    \A c \in Existing \ excused :
      BatchOf[c] \in job \/ c \in told \/ (waiting # NoWait /\ c \in target[waiting])

\* A parent blocked by a batch, a wait or another call of the round goes on.
ParentResumes == parent \in Blocked ~> parent \notin Blocked

\* Children whose dependencies have all ended.
Startable == {c \in Children : child[c] = "pending" /\ AllEnded(DependsOn[c])}

\* Children never outlive their parent, and a child whose dependencies have
\* ended is started (or ended) whatever became of its batch.
ChildrenMoveOn ==
  /\ (parent = "ended" /\ Open # {}) ~> Open = {}
  /\ Startable # {} ~> Startable = {}
=============================================================================

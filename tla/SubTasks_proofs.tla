--------------------------- MODULE SubTasks_proofs ---------------------------
(***************************************************************************)
(* No result of a sub-task is lost between wait_tasks and the notification *)
(* of its batch, whatever the batches, the children and the waits are,     *)
(* provided that a wait names whole batches (WholeTargets).                *)
(***************************************************************************)
EXTENDS SubTasks, TLAPS

\* A wait names all children of a batch or none of them.
WholeTargets ==
  \A T \in Targets, b \in Batches : T \cap ChildrenOf(b) = {} \/ ChildrenOf(b) \subseteq T

-----------------------------------------------------------------------------
(* The inductive invariant.                                                *)

\* Children are made when their batch is dispatched, once.
Made == \A c \in Existing : BatchOf[c] \in issued \ requests

Targeted == \A w \in Waits : target[w] \in Targets \cup {{}}

Waited == {waiting} \ {NoWait}

\* One round of calls at a time: while a call is queued or a wait stands, the
\* parent does not think, and the loop, unless it was reset, has no result.
Round ==
  requests \cup Waited # {} =>
    /\ parent \in Blocked \cup {"ended", "ready"} /\ Waited \subseteq issued
    /\ pending = {} \/ requests \cup Waited \subseteq pending \ results
    /\ requests = {} \/ Waited = {}

\* Only a batch whose message is there can block an ended parent, and it does
\* so before the jobs of the parent are cleaned up.
BlocksInTime ==
  blocks # {} => "block" \in todo \/ (todo \cap Transform = {} /\ parent # "ended")

\* The end of a child was told, or its job or its wait will tell it, or there
\* is nobody left to be told.
Home ==
  \A c \in Existing \ excused :
    \/ BatchOf[c] \in job
    \/ c \in told
    \/ Ended(c) /\ waiting # NoWait /\ c \in target[waiting]
    \/ parent = "ended" /\ blocks = {}

IInv == TypeOK /\ Made /\ Targeted /\ Round /\ BlocksInTime /\ Home

-----------------------------------------------------------------------------
LEMMA InitIInv ==
  ASSUME SubTasksAssumption, NoWaitAssumption, Init
  PROVE  IInv
<1>1. TypeOK
  <2>1. NoWait \notin Waits /\ MaxStops \in Nat
    BY DEF SubTasksAssumption, NoWaitAssumption
  <2>2. /\ \A c \in Children : ~Ended(c)
        /\ child \in [Children -> {"none", "pending", "running", "ended"}]
        /\ target \in [Waits -> SUBSET Children]
    BY DEF Init, Ended
  <2>3. stops \in 0..MaxStops
    BY <2>1, SMT DEF Init
  <2>4. expired \in BOOLEAN /\ parent \in Statuses /\ waiting \in Waits \cup {NoWait}
    BY DEF Init, Statuses
  <2> QED
    BY <2>2, <2>3, <2>4, Zenon DEF Init, TypeOK
<1>2. Existing = {} /\ requests = {} /\ Waited = {}
  BY DEF Init, Existing, Waited
<1>3. Targeted /\ BlocksInTime
  BY DEF Init, Targeted, BlocksInTime
<1> QED
  BY <1>1, <1>2, <1>3 DEF IInv, Made, Round, Home

\* Children that end.
LEMMA EndIs ==
  ASSUME TypeOK, NEW cs, EndChildren(cs)
  PROVE  /\ child' \in [Children -> {"none", "pending", "running", "ended"}]
         /\ \A c \in Children : /\ child'[c] = "none" <=> child[c] = "none"
                                /\ Ended(c) => Ended(c)'
         /\ Existing' = Existing
  BY DEF EndChildren, TypeOK, Open, Ended, Existing

\* What does not concern the children, the job of a batch or the wait.
LEMMA KeptChildren ==
  ASSUME UNCHANGED child
  PROVE  Existing' = Existing /\ \A c \in Children : Ended(c)' = Ended(c)
  BY DEF Existing, Ended

\* Steps that only end children, take the batch stopped by the agent, or run
\* a system to no effect.
LEMMA EndingSteps ==
  ASSUME SubTasksAssumption, IInv,
         UNCHANGED <<requests, results, issued, waitVars, ends, reported, live, counted, blocks,
                     stops, told>>,
         pending' \in {pending, {}}, parent' \in {parent, "ended"},
         NEW cs, EndChildren(cs),
         job' \subseteq job, excused \subseteq excused', excused' \subseteq Children,
         \A c \in Children : BatchOf[c] \in job \ job' => c \in excused',
         todo' \subseteq todo,
         blocks # {} => "block" \in todo' \/ (todo' \cap Transform = {} /\ parent' # "ended")
  PROVE  IInv'
<1>1. /\ child' \in [Children -> {"none", "pending", "running", "ended"}]
      /\ \A c \in Children : Ended(c) => Ended(c)'
      /\ Existing' = Existing
  BY EndIs DEF IInv
<1>2. TypeOK'
  BY <1>1 DEF IInv, TypeOK, waitVars, Statuses
<1>3. Made' /\ Targeted' /\ BlocksInTime'
  BY <1>1 DEF IInv, Made, Targeted, BlocksInTime, waitVars
<1>4. Round'
  BY DEF IInv, Round, waitVars, Waited
<1>5. Home'
  BY <1>1 DEF IInv, Home, waitVars, Existing
<1> QED
  BY <1>2, <1>3, <1>4, <1>5 DEF IInv


\* A system of the Transform set leaves the message of a batch to its own.
LEMMA TransformRuns ==
  ASSUME BlocksInTime, NEW s \in Transform \ {"block"}, Ran(s)
  PROVE  todo' \subseteq todo /\ (blocks # {} => "block" \in todo')
  BY DEF BlocksInTime, Ran, Runnable

LEMMA StopBatchStep ==
  ASSUME SubTasksAssumption, IInv, NEW b \in Batches, NEW byAgent \in BOOLEAN, StopBatch(b, byAgent)
  PROVE  IInv'
<1>1. todo' \subseteq todo /\ (blocks # {} => "block" \in todo')
  BY TransformRuns DEF StopBatch, IInv, Transform
<1>2. ChildrenOf(b) \subseteq Children /\ \A c \in Children : BatchOf[c] = b => c \in ChildrenOf(b)
  BY DEF ChildrenOf
<1>3. excused \subseteq excused' /\ excused' \subseteq Children
  BY <1>2 DEF StopBatch, IInv, TypeOK
<1>4. job' \subseteq job /\ \A c \in Children : BatchOf[c] \in job \ job' => c \in excused'
  BY <1>2 DEF StopBatch
<1>5. /\ UNCHANGED <<requests, results, issued, waitVars, ends, reported, live, counted, blocks,
                     stops, told, pending, parent>>
      /\ EndChildren(ChildrenOf(b))
  BY DEF StopBatch, parentVars
<1> QED
  BY <1>1, <1>3, <1>4, <1>5, EndingSteps

LEMMA QuietSteps ==
  ASSUME SubTasksAssumption, IInv,
         \/ StopNothing \/ StopIdle \/ TurnReset \/ Finish
         \/ \E cs \in SUBSET Children : LlmQuiet(cs)
  PROVE  IInv'
<1>1. child \in [Children -> {"none", "pending", "running", "ended"}]
  BY DEF IInv, TypeOK
<1>2. UNCHANGED child => EndChildren({})
  BY <1>1 DEF EndChildren
<1>3. excused \subseteq Children
  BY DEF IInv, TypeOK
<1>4. CASE StopNothing
  <2>1. todo' \subseteq todo /\ (blocks # {} => "block" \in todo')
    BY <1>4, TransformRuns DEF StopNothing, IInv, Transform
  <2> QED
    BY <1>2, <1>3, <1>4, <2>1, EndingSteps DEF StopNothing, parentVars, childVars, batchVars, history
<1>5. CASE StopIdle
  <2>1. todo' \subseteq todo /\ (blocks # {} => "block" \in todo')
    BY <1>5, TransformRuns DEF StopIdle, IInv, Transform
  <2> QED
    BY <1>2, <1>3, <1>5, <2>1, EndingSteps DEF StopIdle, parentVars, childVars, batchVars, history
<1>6. CASE TurnReset
  <2>1. todo' \subseteq todo /\ (blocks # {} => "block" \in todo')
    BY <1>6, TransformRuns DEF TurnReset, IInv, Transform
  <2> QED
    BY <1>2, <1>3, <1>6, <2>1, EndingSteps DEF TurnReset, childVars, batchVars, history
<1>7. CASE Finish
  <2>1. todo' \subseteq todo /\ (blocks # {} => "block" \in todo')
    BY <1>7, TransformRuns DEF Finish, IInv, Transform
  <2> QED
    BY <1>3, <1>7, <2>1, EndingSteps DEF Finish, batchVars, history
<1>8. CASE \E cs \in SUBSET Children : LlmQuiet(cs)
  <2>1. PICK cs \in SUBSET Children : LlmQuiet(cs)
    BY <1>8
  <2>2. todo' \subseteq todo /\ (blocks # {} => "block" \in todo')
    BY <2>1, TransformRuns DEF LlmQuiet, IInv, Transform
  <2> QED
    BY <1>3, <2>1, <2>2, EndingSteps DEF LlmQuiet, Answers, parentVars, batchVars, history
<1> QED
  BY <1>4, <1>5, <1>6, <1>7, <1>8

LEMMA MonitorStep ==
  ASSUME SubTasksAssumption, WholeTargets, IInv, Monitor
  PROVE  IInv'
<1>1. todo' \subseteq todo /\ (blocks # {} => "block" \in todo')
  BY TransformRuns DEF Monitor, IInv, Transform
<1>2. UNCHANGED <<parentVars, waitVars, childVars, live, counted, blocks, stops, excused>>
  BY DEF Monitor
<1> DEFINE over == {b \in job : AllEnded(ChildrenOf(b))}
           loud == {b \in over : ~Claimed(b)}
<1>3. job' = job \ over /\ told' = told \cup UNION {ChildrenOf(b) : b \in loud}
  BY DEF Monitor
<1>4. Existing' = Existing /\ \A c \in Children : Ended(c)' = Ended(c)
  BY <1>2, KeptChildren DEF childVars
<1>5. TypeOK'
  <2>1. \A b \in loud : ChildrenOf(b) \subseteq Children
    BY DEF ChildrenOf
  <2>2. told \subseteq Children /\ excused \subseteq Children /\ job \subseteq Batches
    BY DEF IInv, TypeOK
  <2>3. job' \subseteq Batches
    BY <1>3, <2>2
  <2>4. told' \subseteq Children
    <3> HIDE DEF loud
    <3> SUFFICES ASSUME NEW c \in told' \ told
                 PROVE  c \in Children
      BY <2>2
    <3>1. PICK b \in loud : c \in ChildrenOf(b)
      BY <1>3
    <3> QED
      BY <2>1, <3>1
  <2> QED
    BY <1>1, <1>2, <1>4, <2>2, <2>3, <2>4 DEF IInv, TypeOK, parentVars, waitVars, childVars
<1>6. Made' /\ Targeted' /\ BlocksInTime'
  BY <1>1, <1>2, <1>4 DEF IInv, Made, Targeted, BlocksInTime, parentVars, waitVars
<1>7. Round'
  BY <1>2 DEF IInv, Round, Waited, parentVars, waitVars
<1>8. Home'
  <2> SUFFICES ASSUME NEW c \in Existing \ excused
               PROVE  \/ BatchOf[c] \in job' \/ c \in told'
                      \/ Ended(c) /\ waiting # NoWait /\ c \in target[waiting]
                      \/ parent = "ended" /\ blocks = {}
    BY <1>2, <1>4 DEF Home, parentVars, waitVars, Existing
  <2>1. c \in Children /\ c \in ChildrenOf(BatchOf[c]) /\ BatchOf[c] \in Batches
    BY DEF Existing, ChildrenOf, SubTasksAssumption
  <2>2. CASE BatchOf[c] \in loud
    <3>1. ChildrenOf(BatchOf[c]) \in {ChildrenOf(b) : b \in loud}
      BY <2>2
    <3> HIDE DEF loud
    <3> QED
      BY <1>3, <2>1, <3>1, Zenon
  <2>3. CASE BatchOf[c] \in over \ loud
    <3>1. waiting # NoWait /\ target[waiting] \cap ChildrenOf(BatchOf[c]) # {}
      BY <2>3 DEF Claimed
    <3>2. waiting \in Waits
      BY <3>1 DEF IInv, TypeOK
    <3>3. target[waiting] \in Targets \cup {{}}
      BY <3>2 DEF IInv, Targeted
    <3>4. c \in target[waiting]
      BY <2>1, <3>1, <3>3 DEF WholeTargets
    <3>5. Ended(c)
      BY <2>1, <2>3 DEF AllEnded
    <3> QED
      BY <3>1, <3>4, <3>5
  <2>4. CASE BatchOf[c] \notin over
    BY <1>3, <2>4 DEF IInv, Home
  <2> QED
    BY <2>2, <2>3, <2>4
<1> QED
  BY <1>5, <1>6, <1>7, <1>8 DEF IInv


\* The parent's answer.
LEMMA LlmCallsStep ==
  ASSUME SubTasksAssumption, NoWaitAssumption, IInv,
         NEW bs \in SUBSET Batches, NEW ws \in SUBSET Waits, NEW f \in [ws -> Targets],
         LlmCalls(bs, ws, f)
  PROVE  IInv'
<1>1. todo' \subseteq todo /\ (blocks # {} => "block" \in todo')
  BY TransformRuns DEF LlmCalls, IInv, Transform
<1>2. /\ UNCHANGED <<results, waiting, expired, childVars, batchVars, stops, history>>
      /\ parent = "thinking" /\ parent' = "tools"
      /\ issued' = issued \cup bs \cup ws /\ requests' = requests \cup bs \cup ws
      /\ pending' = bs \cup ws
      /\ (bs \cup ws) \cap issued = {}
      /\ target' = [w \in Waits |-> IF w \in ws THEN f[w] ELSE target[w]]
  BY DEF LlmCalls
<1>3. "thinking" \notin Batches
  BY DEF SubTasksAssumption
<1>4. requests = {} /\ Waited = {}
  BY <1>2, <1>3 DEF IInv, Round, Blocked
<1>5. Existing' = Existing /\ \A c \in Children : Ended(c)' = Ended(c)
  BY <1>2, KeptChildren DEF childVars
<1>6. TypeOK'
  <2>1. target' \in [Waits -> SUBSET Children]
    BY <1>2 DEF IInv, TypeOK, SubTasksAssumption
  <2>2. /\ requests' \subseteq issued' /\ pending' \subseteq issued' /\ results' \subseteq issued'
        /\ issued' \subseteq Calls /\ parent' \in Statuses
    BY <1>2 DEF IInv, TypeOK, Calls, Statuses
  <2> QED
    BY <1>1, <1>2, <1>5, <2>1, <2>2 DEF IInv, TypeOK, childVars, batchVars, history
<1>7. Targeted'
  BY <1>2 DEF IInv, Targeted
<1>8. Made' /\ BlocksInTime'
  BY <1>1, <1>2, <1>4, <1>5 DEF IInv, Made, BlocksInTime, batchVars
<1>9. Round'
  <2>1. Waited' = {}
    BY <1>2, <1>4 DEF Waited
  <2>2. results \subseteq issued
    BY DEF IInv, TypeOK
  <2> QED
    BY <1>2, <1>4, <2>1, <2>2 DEF Round, Blocked
<1>10. Home'
  BY <1>2, <1>4, <1>5 DEF IInv, Home, Waited, childVars, batchVars, history, Existing
<1> QED
  BY <1>6, <1>7, <1>8, <1>9, <1>10 DEF IInv

LEMMA LlmEndsStep ==
  ASSUME SubTasksAssumption, IInv, NEW s \in Statuses, LlmEnds(s)
  PROVE  IInv'
<1>1. todo' \subseteq todo /\ (blocks # {} => "block" \in todo')
  BY TransformRuns DEF LlmEnds, IInv, Transform
<1>2. /\ UNCHANGED <<pending, requests, results, issued, waitVars, childVars, batchVars, stops, history>>
      /\ parent = "thinking" /\ parent' \in {"idle", "ended", "deferred"}
  BY DEF LlmEnds
<1>3. "thinking" \notin Batches
  BY DEF SubTasksAssumption
<1>4. requests = {} /\ Waited = {}
  BY <1>2, <1>3 DEF IInv, Round, Blocked
<1>5. Existing' = Existing /\ \A c \in Children : Ended(c)' = Ended(c)
  BY <1>2, KeptChildren DEF childVars
<1>6. TypeOK'
  BY <1>1, <1>2, <1>5 DEF IInv, TypeOK, Statuses, waitVars, childVars, batchVars, history
<1>7. Made' /\ Targeted' /\ BlocksInTime'
  BY <1>1, <1>2, <1>5 DEF IInv, Made, Targeted, BlocksInTime, waitVars, batchVars
<1>8. Round'
  BY <1>2, <1>4 DEF Round, Waited, waitVars
<1>9. Home'
  BY <1>2, <1>5 DEF IInv, Home, waitVars, childVars, batchVars, history, Existing
<1> QED
  BY <1>6, <1>7, <1>8, <1>9 DEF IInv

-----------------------------------------------------------------------------
(* The end of children, waits and batches.                                 *)

LEMMA TerminateStep ==
  ASSUME SubTasksAssumption, IInv, Terminate
  PROVE  IInv'
<1>1. todo' \subseteq todo /\ (blocks # {} => "block" \in todo')
  BY TransformRuns DEF Terminate, IInv, Transform
<1>2. /\ UNCHANGED <<parent, requests, results, issued, waitVars, child, batchVars, stops, history>>
      /\ ends' = ends \cup ({c \in Children : Ended(c)} \ reported)
      /\ reported' = reported \cup {c \in Children : Ended(c)}
      /\ pending' = pending \/ pending' = {}
  BY DEF Terminate
<1>3. Existing' = Existing /\ \A c \in Children : Ended(c)' = Ended(c)
  BY <1>2, KeptChildren
<1>4. TypeOK'
  BY <1>1, <1>2, <1>3 DEF IInv, TypeOK, waitVars, batchVars, history
<1>5. Made' /\ Targeted' /\ BlocksInTime'
  BY <1>1, <1>2, <1>3 DEF IInv, Made, Targeted, BlocksInTime, waitVars, batchVars
<1>6. Round'
  BY <1>2 DEF IInv, Round, Waited, waitVars
<1>7. Home'
  BY <1>2, <1>3 DEF IInv, Home, waitVars, batchVars, history, Existing
<1> QED
  BY <1>4, <1>5, <1>6, <1>7 DEF IInv

LEMMA CompleteStep ==
  ASSUME SubTasksAssumption, IInv, Complete
  PROVE  IInv'
<1>1. todo' \subseteq todo /\ (blocks # {} => "block" \in todo')
  BY TransformRuns DEF Complete, IInv, Transform
<1>2. /\ UNCHANGED <<pending, requests, results, issued, waitVars, child, reported, blocks, job, stops, history>>
      /\ counted' = Counted /\ live' \subseteq live /\ ends' = {}
      /\ \/ parent' = parent
         \/ parent \in Batches /\ parent' = (IF pending # {} THEN "tools" ELSE "ready")
  BY DEF Complete, IInv, TypeOK
<1>3. Existing' = Existing /\ \A c \in Children : Ended(c)' = Ended(c)
  BY <1>2, KeptChildren
<1>4. "ended" \notin Batches
  BY DEF SubTasksAssumption
<1>5. TypeOK'
  <2>1. counted' \subseteq reported /\ parent' \in Statuses
    BY <1>2 DEF IInv, TypeOK, Counted, Statuses
  <2> QED
    BY <1>1, <1>2, <1>3, <2>1 DEF IInv, TypeOK, waitVars, history
<1>6. Made' /\ Targeted' /\ BlocksInTime'
  BY <1>1, <1>2, <1>3 DEF IInv, Made, Targeted, BlocksInTime, waitVars
<1>7. Round'
  BY <1>2 DEF IInv, Round, Waited, waitVars, Blocked
<1>8. Home'
  BY <1>2, <1>3, <1>4 DEF IInv, Home, waitVars, history, Existing
<1> QED
  BY <1>5, <1>6, <1>7, <1>8 DEF IInv

LEMMA CheckWaitingStep ==
  ASSUME SubTasksAssumption, NoWaitAssumption, IInv, CheckWaiting
  PROVE  IInv'
<1>1. todo' \subseteq todo /\ (blocks # {} => "block" \in todo')
  BY TransformRuns DEF CheckWaiting, IInv, Transform
<1>2. UNCHANGED <<parent, pending, requests, issued, target, childVars, live, counted, blocks, stops, excused>>
  BY DEF CheckWaiting
<1>3. Existing' = Existing /\ \A c \in Children : Ended(c)' = Ended(c)
  BY <1>2, KeptChildren DEF childVars
<1>4. CASE waiting # NoWait /\ Over
  <2>1. /\ results' = results \cup {waiting}
        /\ told' = told \cup {c \in target[waiting] : Ended(c)}
        /\ job' = IF AllEnded(target[waiting]) THEN {b \in job : ~Covered(b)} ELSE job
        /\ waiting' = NoWait /\ expired' = FALSE
    BY <1>4 DEF CheckWaiting, WaitReturns
  <2>2. waiting \in Waits /\ target[waiting] \subseteq Children /\ Waited = {waiting}
    BY <1>4 DEF IInv, TypeOK, Waited
  <2>3. requests = {} /\ waiting \in issued
    BY <2>2 DEF IInv, Round
  <2>4. TypeOK'
    <3>1. results' \subseteq issued' /\ told' \subseteq Children /\ job' \subseteq Batches
      BY <1>2, <2>1, <2>2, <2>3 DEF IInv, TypeOK
    <3> QED
      BY <1>1, <1>2, <1>3, <2>1, <3>1 DEF IInv, TypeOK, childVars
  <2>5. Made' /\ Targeted' /\ BlocksInTime'
    BY <1>1, <1>2, <1>3 DEF IInv, Made, Targeted, BlocksInTime
  <2>6. Round'
    BY <1>2, <2>1, <2>3 DEF Round, Waited
  <2>7. Home'
    <3> SUFFICES ASSUME NEW c \in Existing \ excused
                 PROVE  BatchOf[c] \in job' \/ c \in told' \/ (parent = "ended" /\ blocks = {})
      BY <1>2, <1>3 DEF Home
    <3>1. c \in ChildrenOf(BatchOf[c])
      BY DEF Existing, ChildrenOf
    <3>2. BatchOf[c] \in job \ job' => c \in told'
      BY <2>1, <3>1 DEF Covered, AllEnded
    <3> QED
      BY <2>1, <3>2 DEF IInv, Home
  <2> QED
    BY <2>4, <2>5, <2>6, <2>7 DEF IInv
<1>5. CASE ~(waiting # NoWait /\ Over)
  <2>1. UNCHANGED <<results, told, job, waiting, expired>>
    BY <1>5 DEF CheckWaiting
  <2>2. TypeOK'
    BY <1>1, <1>2, <1>3, <2>1 DEF IInv, TypeOK, childVars
  <2>3. Made' /\ Targeted' /\ BlocksInTime' /\ Round'
    BY <1>1, <1>2, <1>3, <2>1 DEF IInv, Made, Targeted, BlocksInTime, Round, Waited
  <2>4. Home'
    BY <1>2, <1>3, <2>1 DEF IInv, Home, Existing
  <2> QED
    BY <2>2, <2>3, <2>4 DEF IInv
<1> QED
  BY <1>4, <1>5


LEMMA BlockStep ==
  ASSUME SubTasksAssumption, IInv, Block
  PROVE  IInv'
<1>1. /\ UNCHANGED <<pending, requests, results, issued, waitVars, childVars, live, counted, job, stops, history>>
      /\ blocks' = {} /\ todo' = todo \ {"block"}
      /\ (blocks = {} /\ parent' = parent) \/ parent' \in blocks
  BY DEF Block, Ran
<1>2. Existing' = Existing /\ \A c \in Children : Ended(c)' = Ended(c)
  BY <1>1, KeptChildren DEF childVars
<1>3. TypeOK'
  <2>1. parent' \in Statuses
    BY <1>1 DEF IInv, TypeOK, Statuses
  <2> QED
    BY <1>1, <1>2, <2>1 DEF IInv, TypeOK, waitVars, childVars, history
<1>4. Made' /\ Targeted' /\ BlocksInTime'
  BY <1>1, <1>2 DEF IInv, Made, Targeted, BlocksInTime, waitVars
<1>5. Round'
  <2>1. parent' = parent \/ parent' \in Batches
    BY <1>1 DEF IInv, TypeOK
  <2> QED
    BY <1>1, <2>1 DEF IInv, Round, Waited, waitVars, Blocked
<1>6. Home'
  <2>1. parent = "ended" /\ blocks = {} => parent' = "ended" /\ blocks' = {}
    BY <1>1
  <2> QED
    BY <1>1, <1>2, <2>1 DEF IInv, Home, waitVars, history, Existing
<1> QED
  BY <1>3, <1>4, <1>5, <1>6 DEF IInv

LEMMA CollectStep ==
  ASSUME SubTasksAssumption, IInv, Collect
  PROVE  IInv'
<1>1. todo' \subseteq todo /\ (blocks # {} => "block" \in todo')
  BY TransformRuns DEF Collect, IInv, Transform
<1>2. UNCHANGED <<requests, issued, waitVars, childVars, batchVars, stops, history>>
  BY DEF Collect
<1>3. Existing' = Existing /\ \A c \in Children : Ended(c)' = Ended(c)
  BY <1>2, KeptChildren DEF childVars
<1>4. CASE UNCHANGED <<parent, results, pending>>
  <2>1. TypeOK'
    BY <1>1, <1>2, <1>3, <1>4 DEF IInv, TypeOK, waitVars, childVars, batchVars, history
  <2>2. Made' /\ Targeted' /\ BlocksInTime' /\ Round'
    BY <1>1, <1>2, <1>3, <1>4 DEF IInv, Made, Targeted, BlocksInTime, Round, Waited, waitVars, batchVars
  <2>3. Home'
    BY <1>2, <1>3, <1>4 DEF IInv, Home, waitVars, batchVars, history, Existing
  <2> QED
    BY <2>1, <2>2, <2>3 DEF IInv
<1>5. CASE /\ parent \in Blocked /\ pending # {} /\ pending \subseteq results
           /\ parent' = "thinking" /\ results' = results \ pending /\ pending' = {}
  <2>1. TypeOK'
    BY <1>1, <1>2, <1>3, <1>5 DEF IInv, TypeOK, Statuses, waitVars, childVars, batchVars, history
  <2>2. Made' /\ Targeted' /\ BlocksInTime'
    BY <1>1, <1>2, <1>3, <1>5 DEF IInv, Made, Targeted, BlocksInTime, waitVars, batchVars
  <2>3. requests \cup Waited = {}
    BY <1>5 DEF IInv, Round
  <2>4. Round'
    BY <1>2, <2>3 DEF Round, Waited, waitVars
  <2>5. parent # "ended"
    BY <1>5 DEF Blocked, SubTasksAssumption
  <2>6. Home'
    BY <1>2, <1>3, <2>5 DEF IInv, Home, waitVars, batchVars, history, Existing
  <2> QED
    BY <2>1, <2>2, <2>4, <2>6 DEF IInv
<1> QED
  BY <1>4, <1>5 DEF Collect

LEMMA StopStep ==
  ASSUME SubTasksAssumption, NoWaitAssumption, IInv, Stop
  PROVE  IInv'
<1>1. todo' \subseteq todo /\ (blocks # {} => "block" \in todo')
  BY TransformRuns DEF Stop, IInv, Transform
<1>2. /\ UNCHANGED <<pending, results, issued, target, reported, ends, counted, blocks, job, stops, told>>
      /\ parent' = "idle" /\ requests' = {} /\ waiting' = NoWait /\ expired' = FALSE
      /\ live' \subseteq live /\ excused' = excused \cup Existing
  BY DEF Stop
<1>3. /\ child' \in [Children -> {"none", "pending", "running", "ended"}]
      /\ \A c \in Children : Ended(c) => Ended(c)'
      /\ Existing' = Existing
  BY EndIs DEF Stop, IInv
<1>4. TypeOK'
  <2>1. parent' \in Statuses /\ excused' \subseteq Children
    BY <1>2 DEF IInv, TypeOK, Statuses, Existing
  <2> QED
    BY <1>1, <1>2, <1>3, <2>1 DEF IInv, TypeOK
<1>5. Made' /\ Targeted' /\ BlocksInTime' /\ Round'
  BY <1>1, <1>2, <1>3 DEF IInv, Made, Targeted, BlocksInTime, Round, Waited
<1>6. Home'
  BY <1>2, <1>3 DEF Home
<1> QED
  BY <1>4, <1>5, <1>6 DEF IInv

-----------------------------------------------------------------------------
(* Dispatch, cleanup and the time between frames.                          *)

LEMMA PrepareStep ==
  ASSUME SubTasksAssumption, IInv, Prepare
  PROVE  IInv'
<1>1. todo' = todo \ {"prep"}
  BY DEF Prepare, Ran
<1>2. UNCHANGED <<parentVars, waitVars, reported, ends, batchVars, stops, history>>
  BY DEF Prepare
<1>3. /\ child' \in [Children -> {"none", "pending", "running", "ended"}]
      /\ \A c \in Children : /\ Ended(c) => Ended(c)'
                             /\ child'[c] = "none" <=> child[c] = "none"
  BY DEF Prepare, Dispatchable, IInv, TypeOK, Ended
<1>4. Existing' = Existing
  BY <1>3 DEF Existing
<1>5. TypeOK'
  BY <1>1, <1>2, <1>3 DEF IInv, TypeOK, parentVars, waitVars, batchVars, history
<1>6. Made' /\ Targeted'
  BY <1>2, <1>4 DEF IInv, Made, Targeted, parentVars, waitVars
<1>7. BlocksInTime' /\ Round'
  BY <1>1, <1>2 DEF IInv, BlocksInTime, Round, Waited, parentVars, waitVars, batchVars
<1>8. Home'
  BY <1>2, <1>3, <1>4 DEF IInv, Home, parentVars, waitVars, batchVars, history, Existing
<1> QED
  BY <1>5, <1>6, <1>7, <1>8 DEF IInv

LEMMA DispatchToolsStep ==
  ASSUME SubTasksAssumption, NoWaitAssumption, IInv, DispatchTools
  PROVE  IInv'
<1>1. todo' = todo \ {"tools"} /\ todo \cap Transform = {}
  BY DEF DispatchTools, Ran, Runnable, Before, Transform
<1>2. UNCHANGED <<parent, pending, issued, target, reported, ends, counted, stops, told, excused>>
  BY DEF DispatchTools, history
<1>3. requests' = {}
  BY DEF DispatchTools
<1>4. CASE parent = "ended"
  <2>1. UNCHANGED <<results, child, live, blocks, job, waiting, expired>>
    BY <1>4 DEF DispatchTools
  <2>2. Existing' = Existing /\ \A c \in Children : Ended(c)' = Ended(c)
    BY <2>1, KeptChildren
  <2>3. TypeOK'
    BY <1>1, <1>2, <1>3, <2>1, <2>2 DEF IInv, TypeOK
  <2>4. Made' /\ Targeted' /\ BlocksInTime' /\ Round'
    BY <1>1, <1>2, <1>3, <2>1, <2>2 DEF IInv, Made, Targeted, BlocksInTime, Round, Waited
  <2>5. Home'
    BY <1>2, <2>1, <2>2 DEF IInv, Home, Existing
  <2> QED
    BY <2>3, <2>4, <2>5 DEF IInv
<1>5. CASE parent # "ended"
  <2> DEFINE bs == requests \cap Batches
             ws == requests \cap Waits
  <2>1. /\ child' = [c \in Children |-> IF BatchOf[c] \in bs THEN "pending" ELSE child[c]]
        /\ live' = live \cup bs /\ blocks' = blocks \cup bs /\ job' = job \cup bs
        /\ results' = results \cup bs
    BY <1>5 DEF DispatchTools, CreateTasks
  <2>2. (ws = {} /\ UNCHANGED <<waiting, expired>>) \/ (waiting' \in ws /\ expired' = FALSE)
    BY <1>5 DEF DispatchTools, WaitForTasks
  <2>3. \A c \in Children : BatchOf[c] \in bs => c \notin Existing
    BY DEF IInv, Made
  <2>4. \A c \in Children : Ended(c) => Ended(c)' /\ BatchOf[c] \notin bs
    BY <2>1, <2>3 DEF Existing, Ended
  <2>5. \A c \in Children : /\ BatchOf[c] \in bs => c \in Existing'
                           /\ BatchOf[c] \notin bs => (c \in Existing' <=> c \in Existing)
    BY <2>1 DEF Existing
  <2>6. TypeOK'
    <3>1. child' \in [Children -> {"none", "pending", "running", "ended"}]
      BY <2>1 DEF IInv, TypeOK
    <3>2. waiting' \in Waits \cup {NoWait} /\ expired' \in BOOLEAN
      BY <2>2 DEF IInv, TypeOK
    <3>3. /\ results' \subseteq issued /\ live' \subseteq Batches
          /\ blocks' \subseteq Batches /\ job' \subseteq Batches
      BY <2>1 DEF IInv, TypeOK
    <3> QED
      BY <1>1, <1>2, <1>3, <2>4, <3>1, <3>2, <3>3 DEF IInv, TypeOK
  <2>7. Made'
    <3> SUFFICES ASSUME NEW c \in Existing'
                 PROVE  BatchOf[c] \in issued
      BY <1>2, <1>3 DEF Made
    <3>1. c \in Children
      BY DEF Existing
    <3> QED
      BY <2>5, <3>1 DEF IInv, Made, TypeOK
  <2>8. Targeted' /\ BlocksInTime'
    BY <1>1, <1>2, <1>5 DEF IInv, Targeted, BlocksInTime
  <2>9. Waited' \subseteq Waited \cup ws
    BY <2>2 DEF Waited
  <2>10. Round'
    <3>1. CASE requests = {}
      <4>1. Waited' = Waited /\ results' = results
        BY <2>1, <2>2, <3>1 DEF Waited
      <4> QED
        BY <1>2, <1>3, <3>1, <4>1 DEF IInv, Round
    <3>2. CASE requests # {}
      <4>1. /\ parent \in Blocked \cup {"ended", "ready"} /\ Waited = {}
            /\ pending = {} \/ requests \subseteq pending \ results
        BY <3>2 DEF IInv, Round
      <4>2. Waited' \subseteq ws /\ ws \cap bs = {} /\ ws \subseteq issued
        BY <2>9, <4>1 DEF IInv, TypeOK, SubTasksAssumption
      <4> QED
        BY <1>2, <1>3, <2>1, <4>1, <4>2 DEF Round
    <3> QED
      BY <3>1, <3>2
  <2>11. Home'
    <3> SUFFICES ASSUME NEW c \in Existing' \ excused
                 PROVE  \/ BatchOf[c] \in job' \/ c \in told
                        \/ Ended(c)' /\ waiting' # NoWait /\ c \in target[waiting']
      BY <1>2 DEF Home
    <3>1. c \in Children
      BY DEF Existing
    <3>2. CASE BatchOf[c] \in bs
      BY <2>1, <3>2
    <3>3. CASE BatchOf[c] \notin bs
      <4>1. c \in Existing \ excused
        BY <2>5, <3>1, <3>3
      <4>2. \/ BatchOf[c] \in job \/ c \in told
            \/ Ended(c) /\ waiting # NoWait /\ c \in target[waiting]
        BY <1>5, <4>1 DEF IInv, Home
      <4>3. waiting # NoWait => waiting' = waiting
        BY <2>2 DEF IInv, Round, Waited
      <4> QED
        BY <2>1, <2>4, <3>1, <4>2, <4>3
    <3> QED
      BY <3>2, <3>3
  <2> QED
    BY <2>6, <2>7, <2>8, <2>10, <2>11 DEF IInv
<1> QED
  BY <1>4, <1>5

LEMMA CleanupStep ==
  ASSUME SubTasksAssumption, IInv, Cleanup
  PROVE  IInv'
<1>1. todo' = todo \ {"cleanup"} /\ "block" \notin todo
  BY DEF Cleanup, Ran, Runnable, Before, Transform
<1>2. UNCHANGED <<parentVars, waitVars, reported, ends, live, counted, blocks, stops, history>>
  BY DEF Cleanup
<1>3. /\ child' \in [Children -> {"none", "pending", "running", "ended"}]
      /\ \A c \in Children : Ended(c) => Ended(c)'
      /\ Existing' = Existing
  BY EndIs, KeptChildren DEF Cleanup, IInv, TypeOK
<1>4. job' = job \/ (parent = "ended" /\ job' = {})
  BY DEF Cleanup
<1>5. TypeOK'
  BY <1>1, <1>2, <1>3, <1>4 DEF IInv, TypeOK, parentVars, waitVars, history
<1>6. Made' /\ Targeted'
  BY <1>2, <1>3 DEF IInv, Made, Targeted, parentVars, waitVars
<1>7. BlocksInTime' /\ Round'
  BY <1>1, <1>2 DEF IInv, BlocksInTime, Round, Waited, parentVars, waitVars
<1>8. Home'
  <2>1. parent = "ended" => blocks = {}
    BY <1>1 DEF IInv, BlocksInTime
  <2> QED
    BY <1>2, <1>3, <1>4, <2>1 DEF IInv, Home, parentVars, waitVars, history, Existing
<1> QED
  BY <1>5, <1>6, <1>7, <1>8 DEF IInv

LEMMA BetweenFrames ==
  ASSUME SubTasksAssumption, IInv,
         Expire \/ Resume \/ \E cmds \in SUBSET {"control", "stop", "finish"} : Tick(cmds)
  PROVE  IInv'
<1>1. CASE Expire
  <2>1. /\ UNCHANGED <<todo, parentVars, target, waiting, childVars, batchVars, stops, history>>
        /\ expired' = TRUE
    BY <1>1 DEF Expire
  <2>2. Existing' = Existing /\ \A c \in Children : Ended(c)' = Ended(c)
    BY <2>1, KeptChildren DEF childVars
  <2>3. TypeOK'
    BY <2>1, <2>2 DEF IInv, TypeOK, parentVars, childVars, batchVars, history
  <2>4. Made' /\ Targeted' /\ BlocksInTime' /\ Round'
    BY <2>1, <2>2 DEF IInv, Made, Targeted, BlocksInTime, Round, Waited, parentVars, batchVars
  <2>5. Home'
    BY <2>1, <2>2 DEF IInv, Home, parentVars, batchVars, history, Existing
  <2> QED
    BY <2>3, <2>4, <2>5 DEF IInv
<1>2. CASE Resume
  <2>1. /\ UNCHANGED <<todo, pending, requests, results, issued, waitVars, childVars, batchVars, stops, history>>
        /\ parent \in {"idle", "deferred"} /\ parent' = "thinking"
    BY <1>2 DEF Resume
  <2>2. Existing' = Existing /\ \A c \in Children : Ended(c)' = Ended(c)
    BY <2>1, KeptChildren DEF childVars
  <2>3. TypeOK'
    BY <2>1, <2>2 DEF IInv, TypeOK, Statuses, waitVars, childVars, batchVars, history
  <2>4. Made' /\ Targeted' /\ BlocksInTime'
    BY <2>1, <2>2 DEF IInv, Made, Targeted, BlocksInTime, waitVars, batchVars
  <2>5. requests \cup Waited = {}
    BY <2>1 DEF IInv, Round, Blocked, SubTasksAssumption
  <2>6. Round'
    BY <2>1, <2>5 DEF Round, Waited, waitVars
  <2>7. Home'
    BY <2>1, <2>2 DEF IInv, Home, waitVars, batchVars, history, Existing
  <2> QED
    BY <2>3, <2>4, <2>6, <2>7 DEF IInv
<1>3. CASE \E cmds \in SUBSET {"control", "stop", "finish"} : Tick(cmds)
  <2>1. PICK cmds \in SUBSET {"control", "stop", "finish"} : Tick(cmds)
    BY <1>3
  <2>2. /\ UNCHANGED <<parentVars, waitVars, childVars, batchVars, history>>
        /\ todo' = Due(cmds)
        /\ stops' = IF "stop" \in cmds THEN stops + 1 ELSE stops
        /\ "stop" \in cmds => stops < MaxStops
    BY <2>1 DEF Tick
  <2>3. Existing' = Existing /\ \A c \in Children : Ended(c)' = Ended(c)
    BY <2>2, KeptChildren DEF childVars
  <2>4. todo' \subseteq Systems
    BY <2>2 DEF Due, Systems, Transform, Dispatch
  <2>5. stops' \in 0..MaxStops
    <3>1. stops \in 0..MaxStops /\ MaxStops \in Nat
      BY DEF IInv, TypeOK, SubTasksAssumption
    <3> QED
      BY <2>2, <3>1, SMT
  <2>6. TypeOK'
    BY <2>2, <2>3, <2>4, <2>5, Zenon DEF IInv, TypeOK, parentVars, waitVars, childVars, batchVars, history
  <2>7. blocks' # {} => "block" \in todo'
    BY <2>2 DEF Due, batchVars
  <2>8. Made' /\ Targeted' /\ BlocksInTime' /\ Round'
    BY <2>2, <2>3, <2>7 DEF IInv, Made, Targeted, BlocksInTime, Round, Waited, parentVars, waitVars
  <2>9. Home'
    BY <2>2, <2>3 DEF IInv, Home, parentVars, waitVars, batchVars, history, Existing
  <2> QED
    BY <2>6, <2>8, <2>9 DEF IInv
<1> QED
  BY <1>1, <1>2, <1>3

-----------------------------------------------------------------------------
(* The theorems.                                                           *)

LEMMA NextStep ==
  ASSUME SubTasksAssumption, NoWaitAssumption, WholeTargets, IInv, [Next]_vars
  PROVE  IInv'
<1>1. CASE UNCHANGED vars
  <2>1. UNCHANGED <<todo, parentVars, waitVars, childVars, batchVars, stops, history>>
    BY <1>1 DEF vars
  <2>2. Existing' = Existing /\ \A c \in Children : Ended(c)' = Ended(c)
    BY <2>1, KeptChildren DEF childVars
  <2>3. TypeOK'
    BY <2>1, <2>2 DEF IInv, TypeOK, parentVars, waitVars, childVars, batchVars, history
  <2>4. Made' /\ Targeted' /\ BlocksInTime' /\ Round'
    BY <2>1, <2>2 DEF IInv, Made, Targeted, BlocksInTime, Round, Waited, parentVars, waitVars, batchVars
  <2>5. Home'
    BY <2>1, <2>2 DEF IInv, Home, parentVars, waitVars, batchVars, history, Existing
  <2> QED
    BY <2>3, <2>4, <2>5 DEF IInv
<1>2. CASE \E b \in Batches, byAgent \in BOOLEAN : StopBatch(b, byAgent)
  BY <1>2, StopBatchStep
<1>3. CASE \E bs \in SUBSET Batches, ws \in SUBSET Waits : \E f \in [ws -> Targets] : LlmCalls(bs, ws, f)
  BY <1>3, LlmCallsStep
<1>4. CASE \E s \in Statuses : LlmEnds(s)
  BY <1>4, LlmEndsStep
<1>5. CASE \/ StopNothing \/ StopIdle \/ TurnReset \/ Finish
           \/ \E cs \in SUBSET Children : LlmQuiet(cs)
  BY <1>5, QuietSteps
<1>6. CASE Monitor \/ Terminate \/ Complete \/ CheckWaiting \/ Block \/ Collect \/ Stop
  BY <1>6, MonitorStep, TerminateStep, CompleteStep, CheckWaitingStep, BlockStep, CollectStep, StopStep
<1>7. CASE Prepare \/ DispatchTools \/ Cleanup
  BY <1>7, PrepareStep, DispatchToolsStep, CleanupStep
<1>8. CASE Expire \/ Resume \/ \E cmds \in SUBSET {"control", "stop", "finish"} : Tick(cmds)
  BY <1>8, BetweenFrames
<1> QED
  BY <1>1, <1>2, <1>3, <1>4, <1>5, <1>6, <1>7, <1>8 DEF Next, Frame

\* The inductive invariant holds.
THEOREM SubTasksInvariant == WholeTargets => (Spec => []IInv)
<1>1. Init => IInv
  BY InitIInv, SubTasksAssumption, NoWaitAssumption
<1>2. SUFFICES ASSUME WholeTargets
               PROVE  Spec => []IInv
  OBVIOUS
<1>3. IInv /\ [Next]_vars => IInv'
  BY <1>2, NextStep, SubTasksAssumption, NoWaitAssumption
<1> QED
  BY <1>1, <1>3, PTL DEF Spec

\* If waits name whole batches, no result of a child is lost between the job of
\* its batch and the answer of a wait.
THEOREM NoResultLost == WholeTargets => (Spec => []ResultsReachParent)
<1>1. SUFFICES ASSUME WholeTargets
               PROVE  Spec => []ResultsReachParent
  OBVIOUS
<1>2. IInv => ResultsReachParent
  BY DEF IInv, Home, ResultsReachParent, FrameEnd
<1>3. Spec => []IInv
  BY <1>1, SubTasksInvariant
<1> QED
  BY <1>2, <1>3, PTL

=============================================================================

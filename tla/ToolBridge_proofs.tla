-------------------------- MODULE ToolBridge_proofs --------------------------
(* Proofs about the tool bridge, for any number of tasks, calls, retries and *)
(* any batch size.                                                           *)
EXTENDS ToolBridge, TLAPS, SequenceTheorems

\* A result in the channel stays there when another is appended, and the one
\* appended is found under its own id.
LEMMA SentOnAppend ==
  ASSUME NEW q \in Seq(Message), NEW m \in Message
  PROVE  /\ Append(q, m) \in Seq(Message)
         /\ \A n \in DOMAIN q : n \in DOMAIN Append(q, m) /\ Append(q, m)[n] = q[n]
         /\ \E n \in DOMAIN Append(q, m) : Append(q, m)[n] = m
<1>1. Len(Append(q, m)) = Len(q) + 1 /\ Append(q, m)[Len(q) + 1] = m
  OBVIOUS
<1>2. DOMAIN Append(q, m) = 1..Len(q) + 1 /\ DOMAIN q = 1..Len(q) /\ Len(q) \in Nat
  OBVIOUS
<1>3. \A n \in 1..Len(q) : Append(q, m)[n] = q[n]
  OBVIOUS
<1>4. Append(q, m) \in Seq(Message)
  OBVIOUS
<1> QED BY <1>1, <1>2, <1>3, <1>4

\* Receiving the head leaves every other message in the channel.
LEMMA SentOnTail ==
  ASSUME NEW q \in Seq(Message), q # <<>>
  PROVE  /\ Head(q) \in Message
         /\ Tail(q) \in Seq(Message)
         /\ \A n \in DOMAIN q : q[n] # Head(q) =>
              \E k \in DOMAIN Tail(q) : Tail(q)[k] = q[n]
<1>1. Len(q) \in Nat \ {0} /\ DOMAIN q = 1..Len(q) /\ Head(q) = q[1]
  OBVIOUS
<1>2. Tail(q) \in Seq(Message) /\ Len(Tail(q)) = Len(q) - 1
  OBVIOUS
<1>3. \A k \in 1..Len(q) - 1 : Tail(q)[k] = q[k + 1]
  OBVIOUS
<1>4. DOMAIN Tail(q) = 1..Len(q) - 1
  BY <1>2
<1>5. Head(q) \in Message
  BY <1>1
<1>6. ASSUME NEW n \in DOMAIN q, q[n] # Head(q)
      PROVE  \E k \in DOMAIN Tail(q) : Tail(q)[k] = q[n]
  <2>1. n - 1 \in 1..Len(q) - 1 /\ Tail(q)[n - 1] = q[n]
    BY <1>1, <1>3, <1>6
  <2> QED BY <2>1, <1>4
<1> QED BY <1>2, <1>5, <1>6

-----------------------------------------------------------------------------
(* Type correctness.                                                       *)

\* Every step keeps every variable in its type.
LEMMA TypeStep ==
  ASSUME TypeOK, [Next]_vars
  PROVE  TypeOK'
<1> USE BridgeAssumption DEF TypeOK
<1>1. ASSUME NEW c \in Calls, AgentStops(c) \/ WatchdogStops(c) \/ WatchdogRetries(c)
      PROVE  TypeOK'
  <2>1. CASE AgentStops(c)
    BY <2>1 DEF AgentStops, Controllable, CancelToken, Runnable, entityVars, jobVars, workerVars,
         deferVars, taskVars, outVars
  <2>2. CASE WatchdogStops(c)
    BY <2>2 DEF WatchdogStops, Controllable, CancelToken, Runnable, entityVars, jobVars, workerVars,
         deferVars, taskVars, outVars
  <2>3. CASE WatchdogRetries(c)
    <3>1. job[c] + 1 \in 0..MaxRetry /\ <<c, job[c] + 1>> \in Ids
      BY <2>3 DEF WatchdogRetries, RetryAllowed, Controllable, NoJob, Ids
    <3>2. <<c, job[c]>> \in Ids
      BY <2>3 DEF WatchdogRetries, RetryAllowed, Controllable
    <3> QED BY <2>3, <3>1, <3>2 DEF WatchdogRetries, RetryAllowed, CancelToken, entityVars, jobVars, workerVars,
         deferVars, taskVars, outVars
  <2> QED BY <1>1, <2>1, <2>2, <2>3
<1>2. CASE ControlDone
  BY <1>2 DEF ControlDone, Ran, entityVars, jobVars, workerVars,
         deferVars, taskVars, outVars
<1>3. CASE Monitor
  BY <1>3 DEF Monitor, Ran, entityVars, jobVars, workerVars,
         deferVars, taskVars, outVars
<1>4. CASE AutoBackground
  <2>1. Overrun \subseteq Ids /\ \A i \in Overrun : i[1] \in Calls
    BY DEF Overrun, Ids
  <2>2. 0 \in 0..MaxRetry
    OBVIOUS
  <2>3. answers' \in [Ids -> Nat]
    BY <1>4 DEF AutoBackground
  <2> QED BY <1>4, <2>1, <2>2, <2>3 DEF AutoBackground, Ran, entityVars, jobVars, workerVars,
         deferVars, taskVars, outVars
<1>5. CASE IngestRecv
  <2>1. Head(channel) \in Message /\ Tail(channel) \in Seq(Message)
    BY <1>5, SentOnTail DEF IngestRecv
  <2>2. taken' \in 0..Batch
    BY <1>5 DEF IngestRecv
  <2>3. Head(channel).id \in Ids /\ Head(channel).id[1] \in Calls
    BY <2>1 DEF Message, Ids
  <2>4. CASE Head(channel).id \in pending /\ Land(Head(channel).id)
    <3> DEFINE m == Head(channel)
    <3>1. CASE m.id \in backgrounded
      <4>1. m.id \in silent \/ m.id \notin silent
        OBVIOUS
      <4>2. answers' = answers
        BY <2>4, <3>1 DEF Land
      <4>3. \E d \in {0, 1} : notices' = [notices EXCEPT ![m.id[1]] = @ + d]
        BY <2>4, <3>1 DEF Land
      <4>4. notices' \in [Calls -> Nat]
        BY <2>3, <4>3
      <4> QED BY <1>5, <2>1, <2>2, <2>3, <2>4, <4>2, <4>4 DEF IngestRecv, Land, entityVars, jobVars,
           workerVars, deferVars, taskVars, outVars
    <3>2. CASE m.id \notin backgrounded
      <4>1. answers' \in [Ids -> Nat] /\ notices' = notices
        BY <2>3, <2>4, <3>2 DEF Land
      <4> QED BY <1>5, <2>1, <2>2, <2>3, <2>4, <4>1 DEF IngestRecv, Land, entityVars, jobVars,
           workerVars, deferVars, taskVars, outVars
    <3> QED BY <3>1, <3>2
  <2>5. CASE ParkEffect(Head(channel).id)
    BY <1>5, <2>1, <2>2, <2>3, <2>5 DEF IngestRecv, ParkEffect, entityVars, jobVars, workerVars,
         deferVars, taskVars, outVars
  <2>6. CASE DropResult
    BY <1>5, <2>1, <2>2, <2>6 DEF IngestRecv, DropResult, entityVars, jobVars, workerVars,
         deferVars, taskVars, outVars
  <2> QED BY <1>5, <2>4, <2>5, <2>6 DEF IngestRecv
<1>6. CASE IngestDone
  BY <1>6 DEF IngestDone, Ran, entityVars, jobVars, workerVars,
         deferVars, taskVars, outVars
<1>7. CASE IngestSync
  BY <1>7 DEF IngestSync, Ran, entityVars, jobVars, workerVars,
         deferVars, taskVars, outVars
<1>8. ASSUME NEW ts \in SUBSET Tasks, StopTask(ts)
      PROVE  TypeOK'
  BY <1>8 DEF StopTask, Withdrawn, Ran, entityVars, jobVars, workerVars,
         deferVars, taskVars, outVars
<1>9. ASSUME NEW held \in SUBSET request, AsyncDispatch(held)
      PROVE  TypeOK'
  <2>1. age' \in [Ids -> Ages]
    BY <1>9 DEF AsyncDispatch, Ages
  <2> QED BY <1>9, <2>1 DEF AsyncDispatch, Ran, entityVars, jobVars, workerVars,
         deferVars, taskVars, outVars
<1>10. ASSUME NEW i \in Ids, SweepOne(i)
       PROVE  TypeOK'
  <2>1. Completed(i, "timeout") \in Message
    BY DEF Completed, Message, Payloads
  <2>2. channel' \in Seq(Message)
    BY <1>10, <2>1, SentOnAppend DEF SweepOne
  <2> QED BY <1>10, <2>2 DEF SweepOne, entityVars, jobVars, workerVars,
         deferVars, taskVars, outVars
<1>11. ASSUME NEW i \in Ids, CommitOne(i)
       PROVE  TypeOK'
  <2>1. Completed(i, "completed") \in Message
    BY DEF Completed, Message, Payloads
  <2>2. channel' \in Seq(Message)
    BY <1>11, <2>1, SentOnAppend DEF CommitOne
  <2> QED BY <1>11, <2>2 DEF CommitOne, entityVars, jobVars, workerVars,
         deferVars, taskVars, outVars
<1>12. CASE SweepDone
  BY <1>12 DEF SweepDone, Ran, entityVars, jobVars, workerVars,
         deferVars, taskVars, outVars
<1>13. CASE CancelMonitor
  BY <1>13 DEF CancelMonitor, Abandoned, Ran, entityVars, jobVars, workerVars,
         deferVars, taskVars, outVars
<1>14. CASE CommitDone
  BY <1>14 DEF CommitDone, Ran, entityVars, jobVars, workerVars,
         deferVars, taskVars, outVars
<1>15. CASE ClearStop
  BY <1>15 DEF ClearStop, Ran, entityVars, jobVars, workerVars,
         deferVars, taskVars, outVars
<1>16. CASE Cleanup
  BY <1>16 DEF Cleanup, Ran, entityVars, jobVars, workerVars,
         deferVars, taskVars, outVars
<1>17. ASSUME NEW i \in Ids, NEW p \in {"completed", "effect"}, WorkerFinish(i, p)
       PROVE  TypeOK'
  <2>1. Completed(i, p) \in Message
    BY DEF Completed, Message, Payloads
  <2>2. channel' \in Seq(Message)
    BY <1>17, <2>1, SentOnAppend DEF WorkerFinish
  <2> QED BY <1>17, <2>2 DEF WorkerFinish, entityVars, jobVars, workerVars,
         deferVars, taskVars, outVars
<1>18. ASSUME NEW c \in Calls, LlmRequests(c)
       PROVE  TypeOK'
  <2>1. <<c, 0>> \in Ids
    BY DEF Ids
  <2> QED BY <1>18, <2>1 DEF LlmRequests, entityVars, jobVars, workerVars,
         deferVars, taskVars, outVars
<1>19. ASSUME NEW t \in Tasks, TaskEnds(t)
       PROVE  TypeOK'
  BY <1>19 DEF TaskEnds, entityVars, jobVars, workerVars,
         deferVars, taskVars, outVars
<1>20. ASSUME NEW late \in SUBSET Ids, Tick(late)
       PROVE  TypeOK'
  <2>1. age' \in [Ids -> Ages]
    BY <1>20 DEF Tick, Ages
  <2> QED BY <1>20, <2>1 DEF Tick, entityVars, jobVars, workerVars,
         deferVars, taskVars, outVars
<1>21. CASE UNCHANGED vars
  BY <1>21 DEF vars, entityVars, jobVars, workerVars,
         deferVars, taskVars, outVars
<1> QED
  BY <1>1, <1>2, <1>3, <1>4, <1>5, <1>6, <1>7, <1>8, <1>9, <1>10, <1>11, <1>12,
     <1>13, <1>14, <1>15, <1>16, <1>17, <1>18, <1>19, <1>20, <1>21
     DEF Next, Frame, Environment

\* TypeOK holds in every reachable state of the bridge.
THEOREM TypeCorrect == Spec => []TypeOK
<1>1. Init => TypeOK
  BY BridgeAssumption DEF Init, TypeOK, Ages, NoJob
<1>2. TypeOK /\ [Next]_vars => TypeOK'
  BY TypeStep
<1> QED BY <1>1, <1>2, PTL DEF Spec

-----------------------------------------------------------------------------
(* The inductive invariant, in the groups of conjuncts that need each other. *)

\* What the plugins' ordering says of the systems whose order the proof uses.
LEMMA Order ==
  /\ Before("ingest") = {"autobg"}
  /\ Before("ingest_sync") = {"ingest"}
  /\ "dispatch" \in Before("sweep") /\ "dispatch" \in Before("cancel")
  /\ "ingest_sync" \in Before("dispatch") /\ "ingest" \in Before("dispatch")
BY DEF Before, Maintenance, Dispatch, Transform

\* Deferred commands exist only in their part of the frame.
LEMMA PhasesStep ==
  ASSUME TypeOK, Phases, [Next]_vars
  PROVE  Phases'
<1> USE DEF TypeOK, Phases
<1>1. ASSUME NEW s \in Systems \ {"ingest_sync"}, Ran(s) \/ todo' = todo,
             claims' = claims, despawned' = despawned
      PROVE  Phases'
  BY <1>1 DEF Ran
<1>2. CASE CancelMonitor
  BY <1>2, Order DEF CancelMonitor, Ran, Runnable
<1>3. ASSUME NEW i \in Ids, SweepOne(i)
      PROVE  Phases'
  BY <1>3, Order DEF SweepOne, Runnable
<1>4. CASE ClearStop
  BY <1>4 DEF ClearStop, Ran
<1>5. ASSUME NEW late \in SUBSET Ids, Tick(late)
      PROVE  Phases'
  BY <1>5 DEF Tick, Systems, Transform
<1>6. CASE IngestSync
  BY <1>6, Order DEF IngestSync, Ran, Runnable
<1>7. CASE IngestRecv
  <2>1. "ingest" \in todo /\ "autobg" \notin todo
    BY <1>7, Order DEF IngestRecv, Runnable
  <2>2. claims' = claims /\ todo' = todo
    BY <1>7 DEF IngestRecv
  <2> QED BY <2>1, <2>2
<1>8. CASE UNCHANGED vars
  BY <1>8 DEF vars, deferVars
<1>9. CASE Monitor \/ AutoBackground \/ IngestDone \/ ControlDone \/ SweepDone \/ CommitDone \/ Cleanup
  <2>1. claims' = claims /\ despawned' = despawned
    BY <1>9 DEF Monitor, AutoBackground, IngestDone, ControlDone, SweepDone, CommitDone, Cleanup, deferVars
  <2>2. \E s \in Systems \ {"ingest_sync"} : Ran(s)
    BY <1>9 DEF Monitor, AutoBackground, IngestDone, ControlDone, SweepDone, CommitDone, Cleanup,
                Systems, Transform, Dispatch, Maintenance
  <2> QED BY <2>1, <2>2, <1>1
<1>10. ASSUME NEW ts \in SUBSET Tasks, StopTask(ts)
       PROVE  Phases'
  BY <1>10, <1>1 DEF StopTask, deferVars, Systems, Transform
<1>11. ASSUME NEW held \in SUBSET request, AsyncDispatch(held)
       PROVE  Phases'
  BY <1>11, <1>1 DEF AsyncDispatch, deferVars, Systems, Dispatch
<1>12. ASSUME NEW c \in Calls, AgentStops(c) \/ WatchdogStops(c) \/ WatchdogRetries(c) \/ LlmRequests(c)
       PROVE  Phases'
  BY <1>12 DEF AgentStops, WatchdogStops, WatchdogRetries, RetryAllowed, LlmRequests, deferVars
<1>13. ASSUME NEW i \in Ids, NEW p \in {"completed", "effect"}, WorkerFinish(i, p) \/ CommitOne(i)
       PROVE  Phases'
  BY <1>13 DEF WorkerFinish, CommitOne, deferVars
<1>14. ASSUME NEW t \in Tasks, TaskEnds(t)
       PROVE  Phases'
  BY <1>14 DEF TaskEnds, deferVars
<1> QED
  BY <1>2, <1>3, <1>4, <1>5, <1>6, <1>7, <1>8, <1>9, <1>10, <1>11, <1>12, <1>13, <1>14
     DEF Next, Frame, Environment

\* What a system sends, and what ingest takes, does to the results under way.
LEMMA SentStep ==
  ASSUME TypeOK, NEW i \in Ids, NEW p \in Payloads,
         channel' = Append(channel, Completed(i, p))
  PROVE  /\ \A j \in Ids : (ResultSent(j) => ResultSent(j)') /\ (EffectSent(j) => EffectSent(j)')
         /\ p = "effect" => EffectSent(i)'
         /\ p # "effect" => ResultSent(i)'
<1>1. Completed(i, p) \in Message /\ channel \in Seq(Message)
  BY DEF Completed, Message, TypeOK
<1>2. /\ \A n \in DOMAIN channel : n \in DOMAIN channel' /\ channel'[n] = channel[n]
      /\ \E n \in DOMAIN channel' : channel'[n] = Completed(i, p)
  BY <1>1, SentOnAppend
<1> QED BY <1>2 DEF ResultSent, EffectSent, Completed

LEMMA ReceivedStep ==
  ASSUME TypeOK, channel # <<>>, channel' = Tail(channel)
  PROVE  /\ Head(channel) \in Message
         /\ \A j \in Ids \ {Head(channel).id} :
              (ResultSent(j) => ResultSent(j)') /\ (EffectSent(j) => EffectSent(j)')
         /\ \A j \in Ids : Head(channel).payload = "effect" /\ ResultSent(j) => ResultSent(j)'
<1>1. /\ Head(channel) \in Message
      /\ \A n \in DOMAIN channel : channel[n] # Head(channel) =>
            \E k \in DOMAIN channel' : channel'[k] = channel[n]
  BY SentOnTail DEF TypeOK
<1>2. ASSUME NEW j \in Ids \ {Head(channel).id}, ResultSent(j)
      PROVE  ResultSent(j)'
  BY <1>1, <1>2 DEF ResultSent
<1>3. ASSUME NEW j \in Ids \ {Head(channel).id}, EffectSent(j)
      PROVE  EffectSent(j)'
  <2>1. PICK n \in DOMAIN channel : channel[n] = Completed(j, "effect")
    BY <1>3 DEF EffectSent
  <2>2. channel[n] # Head(channel)
    BY <2>1, <1>3 DEF Completed
  <2> QED BY <1>1, <2>1, <2>2 DEF EffectSent
<1>4. ASSUME NEW j \in Ids, Head(channel).payload = "effect", ResultSent(j)
      PROVE  ResultSent(j)'
  BY <1>1, <1>4 DEF ResultSent
<1> QED BY <1>1, <1>2, <1>3, <1>4

\* No parked call is orphaned by any step.
LEMMA AnswerableStep ==
  ASSUME TypeOK, TypeOK', Phases, Answerable, ClaimsBacked, [Next]_vars
  PROVE  Answerable' /\ ClaimsBacked'
<1> USE DEF TypeOK, Answerable, ClaimsBacked, Settling
<1>1. ASSUME channel' = channel, pending' \ despawned' \subseteq pending \ despawned,
             inFlight' = inFlight \ despawned \/ inFlight' = inFlight,
             running' = running, effects' = effects, cancelled \subseteq cancelled',
             claims' = claims
      PROVE  Answerable' /\ ClaimsBacked'
  BY <1>1 DEF ResultSent, EffectSent
<1>2. CASE UNCHANGED vars
  BY <1>2, <1>1 DEF vars, entityVars, workerVars, deferVars
<1>3. CASE ControlDone \/ Monitor \/ AutoBackground \/ IngestDone \/ IngestSync \/ SweepDone
           \/ CommitDone \/ Cleanup
  BY <1>3, <1>1 DEF ControlDone, Monitor, AutoBackground, IngestDone, IngestSync, SweepDone,
     CommitDone, Cleanup, entityVars, workerVars, deferVars
<1>4. ASSUME NEW c \in Calls, AgentStops(c) \/ WatchdogStops(c) \/ WatchdogRetries(c) \/ LlmRequests(c)
      PROVE  Answerable' /\ ClaimsBacked'
  BY <1>4, <1>1 DEF AgentStops, WatchdogStops, WatchdogRetries, RetryAllowed, LlmRequests, CancelToken,
     entityVars, workerVars, deferVars
<1>5. CASE (\E t \in Tasks : TaskEnds(t)) \/ (\E ts \in SUBSET Tasks : StopTask(ts))
  BY <1>5, <1>1 DEF TaskEnds, StopTask, entityVars, workerVars, deferVars
<1>6. CASE ClearStop \/ \E late \in SUBSET Ids : Tick(late)
  \* the marks that go are the claimed ones, and each of those is backed
  <2>1. /\ channel' = channel /\ running' = running /\ effects' = effects
        /\ cancelled' = cancelled /\ claims' = {} /\ Settling' = Settling
        /\ inFlight' = inFlight \ {cl[1] : cl \in claims}
    BY <1>6 DEF ClearStop, Tick, workerVars
  <2>2. \A j \in Settling : j \notin inFlight' => j \in cancelled' \/ ResultSent(j)
    BY <2>1
  <2> QED BY <2>1, <2>2 DEF ResultSent, EffectSent
<1>7. CASE CancelMonitor
  <2>1. /\ channel' = channel /\ running' = running /\ effects' = effects
        /\ Settling' = Settling /\ inFlight' = inFlight
        /\ cancelled \subseteq cancelled' /\ Abandoned \subseteq cancelled'
        /\ claims' = claims \cup (Abandoned \X {"cancel"})
    BY <1>7 DEF CancelMonitor, entityVars
  <2> QED BY <2>1 DEF ResultSent, EffectSent
<1>8. ASSUME NEW i \in Ids, SweepOne(i)
      PROVE  Answerable' /\ ClaimsBacked'
  <2>1. /\ \A j \in Ids : (ResultSent(j) => ResultSent(j)') /\ (EffectSent(j) => EffectSent(j)')
        /\ ResultSent(i)'
    BY <1>8, SentStep DEF SweepOne, Payloads
  <2> QED BY <1>8, <2>1 DEF SweepOne, entityVars
<1>9. ASSUME NEW i \in Ids, CommitOne(i)
      PROVE  Answerable' /\ ClaimsBacked'
  <2>1. /\ \A j \in Ids : (ResultSent(j) => ResultSent(j)') /\ (EffectSent(j) => EffectSent(j)')
        /\ ResultSent(i)'
    BY <1>9, SentStep DEF CommitOne, Payloads
  <2> QED BY <1>9, <2>1 DEF CommitOne, entityVars, deferVars
<1>10. ASSUME NEW i \in Ids, NEW p \in {"completed", "effect"}, WorkerFinish(i, p)
       PROVE  Answerable' /\ ClaimsBacked'
  <2>1. /\ \A j \in Ids : (ResultSent(j) => ResultSent(j)') /\ (EffectSent(j) => EffectSent(j)')
        /\ ResultSent(i)' \/ EffectSent(i)'
    BY <1>10, SentStep DEF WorkerFinish, Payloads
  <2> QED BY <1>10, <2>1 DEF WorkerFinish, entityVars, deferVars
<1>11. CASE IngestRecv
  <2> DEFINE m == Head(channel)
  <2>1. /\ m \in Message
        /\ \A j \in Ids \ {m.id} :
             (ResultSent(j) => ResultSent(j)') /\ (EffectSent(j) => EffectSent(j)')
        /\ \A j \in Ids : m.payload = "effect" /\ ResultSent(j) => ResultSent(j)'
    BY <1>11, ReceivedStep DEF IngestRecv
  <2>2. /\ pending' = pending /\ inFlight' = inFlight /\ running' = running
        /\ cancelled' = cancelled /\ claims' = claims
    BY <1>11 DEF IngestRecv, entityVars
  <2>3. CASE m.id \notin pending /\ DropResult
    BY <2>1, <2>2, <2>3 DEF DropResult
  <2>4. CASE m.id \in pending /\ m.payload = "effect" /\ ParkEffect(m.id)
    BY <2>1, <2>2, <2>4 DEF ParkEffect
  <2>5. CASE m.id \in pending /\ m.payload # "effect" /\ Land(m.id)
    BY <2>1, <2>2, <2>5 DEF Land
  <2> QED BY <1>11, <2>3, <2>4, <2>5 DEF IngestRecv
<1>12. ASSUME NEW held \in SUBSET request, AsyncDispatch(held)
       PROVE  Answerable' /\ ClaimsBacked'
  \* nothing is claimed while dispatch is still to run
  <2>1. claims = {} /\ claims' = {}
    BY <1>12 DEF AsyncDispatch, Ran, Runnable, Phases, deferVars
  <2>2. \A j \in Settling' : j \in Settling \/ (j \in running' /\ j \in inFlight')
    BY <1>12 DEF AsyncDispatch, deferVars
  <2>3. /\ channel' = channel /\ effects' = effects /\ cancelled' = cancelled
        /\ running \subseteq running' /\ inFlight \subseteq inFlight'
    BY <1>12 DEF AsyncDispatch
  <2> QED BY <2>1, <2>2, <2>3 DEF ResultSent, EffectSent
<1> QED
  BY <1>2, <1>3, <1>4, <1>5, <1>6, <1>7, <1>8, <1>9, <1>10, <1>11, <1>12
     DEF Next, Frame, Environment

\* The facts about which entities and jobs exist together.
Entities == OneEntity /\ IssuedFirst /\ RetriesAreJobs /\ ForegroundIsAlone

LEMMA EntitiesStep ==
  ASSUME TypeOK, TypeOK', Entities, [Next]_vars
  PROVE  Entities'
<1> USE BridgeAssumption DEF TypeOK, Entities, OneEntity, IssuedFirst, RetriesAreJobs,
        ForegroundIsAlone
<1>1. ASSUME request' = request, pending' = pending, backgrounded' = backgrounded,
             job' = job, issued' = issued
      PROVE  Entities'
  BY <1>1
<1>2. CASE UNCHANGED vars
  BY <1>2, <1>1 DEF vars, entityVars, jobVars
<1>3. CASE ControlDone \/ IngestRecv \/ IngestDone \/ SweepDone \/ CommitDone \/ CancelMonitor
           \/ ClearStop
  BY <1>3, <1>1 DEF ControlDone, IngestRecv, IngestDone, SweepDone, CommitDone, CancelMonitor,
     ClearStop, entityVars, jobVars
<1>4. CASE \/ \E i \in Ids : SweepOne(i) \/ CommitOne(i)
           \/ \E i \in Ids, p \in {"completed", "effect"} : WorkerFinish(i, p)
           \/ \E t \in Tasks : TaskEnds(t)
           \/ \E late \in SUBSET Ids : Tick(late)
  BY <1>4, <1>1 DEF SweepOne, CommitOne, WorkerFinish, TaskEnds, Tick, entityVars, jobVars
<1>5. CASE \E c \in Calls : AgentStops(c) \/ WatchdogStops(c)
  BY <1>5, <1>1 DEF AgentStops, WatchdogStops, entityVars, jobVars
<1>6. ASSUME NEW c \in Calls, WatchdogRetries(c)
      PROVE  Entities'
  <2>1. PICK k \in 1..MaxRetry : k = job[c] + 1
    BY <1>6 DEF WatchdogRetries, RetryAllowed, Controllable, NoJob
  <2>2. /\ job[c] # NoJob /\ <<c, job[c]>> \in pending \cap backgrounded /\ c \in issued
        /\ job[c] \in 0..MaxRetry
    BY <1>6 DEF WatchdogRetries, RetryAllowed, Controllable, NoJob
  <2>3. /\ request' = request \cup {<<c, k>>} /\ backgrounded' = backgrounded \cup {<<c, k>>}
        /\ pending' = pending /\ issued' = issued /\ job' = [job EXCEPT ![c] = k]
    BY <1>6, <2>1 DEF WatchdogRetries, RetryAllowed
  <2>4. <<c, k>> \notin request \cup pending
    <3>1. SUFFICES ASSUME <<c, k>> \in request \cup pending
                   PROVE  FALSE
      OBVIOUS
    <3>2. <<c, k>>[1] = c /\ <<c, k>>[2] = k /\ k > 0
      OBVIOUS
    <3>3. k <= job[c]
      BY <2>2, <3>1, <3>2
    <3> QED BY <2>1, <2>2, <3>3
  <2>5. OneEntity'
    <3>1. \A x : x \notin request \cup pending =>
            (request \cup {x}) \cap pending = {} /\ backgrounded \cup {x} \subseteq request \cup {x} \cup pending
      OBVIOUS
    <3> QED BY <2>3, <2>4, <3>1
  <2>6. IssuedFirst'
    BY <2>2, <2>3
  <2>7. RetriesAreJobs'
    <3>1. SUFFICES ASSUME NEW i \in request' \cup pending', i[2] > 0
                   PROVE  i \in backgrounded' /\ (job'[i[1]] # NoJob => i[2] <= job'[i[1]])
      OBVIOUS
    <3>2. CASE i = <<c, k>>
      BY <2>3, <3>2
    <3>3. CASE i \in request \cup pending
      <4>1. i[1] \in Calls /\ i[2] \in 0..MaxRetry
        BY <3>3 DEF Ids
      <4>2. i \in backgrounded' /\ (job[i[1]] # NoJob => i[2] <= job[i[1]])
        BY <2>3, <3>1, <3>3
      <4>3. CASE i[1] = c
        BY <2>1, <2>2, <2>3, <4>1, <4>2, <4>3
      <4>4. CASE i[1] # c
        BY <2>3, <4>1, <4>2, <4>4
      <4> QED BY <4>3, <4>4
    <3> QED BY <2>3, <3>1, <3>2, <3>3
  <2>8. ForegroundIsAlone'
    BY <2>2, <2>3
  <2> QED BY <2>5, <2>6, <2>7, <2>8
<1>7. CASE Monitor
  <2>1. /\ request' = request /\ pending' = pending /\ backgrounded' = backgrounded
        /\ issued' = issued /\ \A c \in Calls : job'[c] = job[c] \/ job'[c] = NoJob
    BY <1>7 DEF Monitor, entityVars
  <2> QED BY <2>1 DEF Ids
<1>8. CASE Cleanup
  <2>1. /\ request' = request /\ pending' = pending /\ backgrounded' = backgrounded
        /\ issued' = issued /\ \A c \in Calls : job'[c] = job[c] \/ job'[c] = NoJob
    BY <1>8 DEF Cleanup, entityVars
  <2> QED BY <2>1 DEF Ids
<1>9. CASE AutoBackground
  <2>1. /\ request' = request /\ pending' = pending /\ issued' = issued
        /\ backgrounded' = backgrounded \cup Overrun
        /\ job' = [c \in Calls |-> IF <<c, 0>> \in Overrun THEN 0 ELSE job[c]]
    BY <1>9 DEF AutoBackground
  <2>2. \A i \in Overrun : i \in pending \ backgrounded
    BY DEF Overrun
  <2>3. \A i \in request \cup pending : <<i[1], 0>> \in Overrun => i[2] = 0
    <3>1. \A i \in request \cup pending : i = <<i[1], i[2]>> /\ i[1] \in Calls /\ i[2] \in 0..MaxRetry
      BY DEF Ids
    <3> QED BY <2>2, <3>1
  <2>4. OneEntity' /\ RetriesAreJobs'
    <3>1. \A i \in request \cup pending : i[1] \in Calls
      BY DEF Ids
    <3> QED BY <2>1, <2>2, <2>3, <3>1
  <2>5. IssuedFirst'
    <3>1. ASSUME NEW c \in Calls \ issued
          PROVE  job'[c] = NoJob
      <4>1. <<c, 0>> \notin Overrun
        BY <2>2, 0 \in 0..MaxRetry
      <4> QED BY <2>1, <4>1
    <3> QED BY <2>1, <3>1
  <2>6. ForegroundIsAlone'
    BY <2>1
  <2> QED BY <2>4, <2>5, <2>6
<1>10. CASE IngestSync
  <2>1. /\ request' = request /\ issued' = issued /\ job' = job
        /\ pending' = pending \ despawned /\ backgrounded' = backgrounded \ despawned
    BY <1>10 DEF IngestSync, jobVars
  <2> QED BY <2>1
<1>11. ASSUME NEW ts \in SUBSET Tasks, StopTask(ts)
       PROVE  Entities'
  <2>1. /\ pending' = pending /\ issued' = issued /\ job' = job
        /\ request' = request \ Withdrawn(ts) /\ backgrounded' = backgrounded \ Withdrawn(ts)
        /\ Withdrawn(ts) \subseteq request
    BY <1>11 DEF StopTask, jobVars, Withdrawn
  <2> QED BY <2>1
<1>12. ASSUME NEW held \in SUBSET request, AsyncDispatch(held)
       PROVE  Entities'
  <2>1. PICK dead \in SUBSET request :
          /\ held \subseteq request \ dead
          /\ request' = held /\ pending' = pending \cup (request \ (dead \cup held))
          /\ backgrounded' = backgrounded \ dead /\ issued' = issued /\ job' = job
    BY <1>12 DEF AsyncDispatch, jobVars
  <2> QED BY <2>1
<1>13. ASSUME NEW c \in Calls, LlmRequests(c)
       PROVE  Entities'
  <2>1. /\ pending' = pending /\ backgrounded' = backgrounded /\ job' = job
        /\ c \notin issued /\ issued' = issued \cup {c} /\ request' = request \cup {<<c, 0>>}
    BY <1>13 DEF LlmRequests, entityVars, jobVars
  <2>2. job[c] = NoJob /\ \A k \in 0..MaxRetry : <<c, k>> \notin request \cup pending
    BY <2>1
  <2>3. OneEntity' /\ IssuedFirst'
    BY <2>1, <2>2, 0 \in 0..MaxRetry
  <2>4. RetriesAreJobs'
    <3>1. <<c, 0>>[2] = 0
      OBVIOUS
    <3> QED BY <2>1, <3>1
  <2>5. ForegroundIsAlone'
    BY <2>1, <2>2
  <2> QED BY <2>3, <2>4, <2>5
<1> QED
  BY <1>2, <1>3, <1>4, <1>5, <1>6, <1>7, <1>8, <1>9, <1>10, <1>11, <1>12, <1>13
     DEF Next, Frame, Environment

\* A backgrounded call that will be notified stays with its job.
LEMMA TrackingStep ==
  ASSUME TypeOK, TypeOK', Entities, JobTracksBackgrounded, [Next]_vars
  PROVE  JobTracksBackgrounded'
<1> USE BridgeAssumption
    DEF TypeOK, Entities, OneEntity, JobTracksBackgrounded, Settling, Tracked
<1>1. ASSUME (backgrounded' \cap ((pending' \ despawned') \cup request')) \ silent'
               \subseteq (backgrounded \cap ((pending \ despawned) \cup request)) \ silent,
             job' = job, ended \subseteq ended'
      PROVE  JobTracksBackgrounded'
  BY <1>1 DEF OwnerOf
<1>2. CASE UNCHANGED vars
  BY <1>2, <1>1 DEF vars, entityVars, jobVars, deferVars, taskVars
<1>3. CASE ControlDone \/ IngestDone \/ SweepDone \/ CommitDone \/ CancelMonitor \/ ClearStop
  BY <1>3, <1>1 DEF ControlDone, IngestDone, SweepDone, CommitDone, CancelMonitor,
     ClearStop, entityVars, jobVars, deferVars, taskVars
<1>4. CASE \/ \E i \in Ids : SweepOne(i) \/ CommitOne(i)
           \/ \E i \in Ids, p \in {"completed", "effect"} : WorkerFinish(i, p)
           \/ \E t \in Tasks : TaskEnds(t)
           \/ \E late \in SUBSET Ids : Tick(late)
  BY <1>4, <1>1 DEF SweepOne, CommitOne, WorkerFinish, TaskEnds, Tick, entityVars, jobVars,
     deferVars, taskVars
<1>5. CASE \E c \in Calls : AgentStops(c) \/ WatchdogStops(c)
  BY <1>5, <1>1 DEF AgentStops, WatchdogStops, entityVars, jobVars, deferVars, taskVars
<1>6. CASE IngestRecv
  <2>1. despawned \subseteq despawned'
    BY <1>6 DEF IngestRecv, Land, ParkEffect, DropResult
  <2> QED BY <1>6, <1>1, <2>1 DEF IngestRecv, entityVars, jobVars, taskVars
<1>7. CASE IngestSync
  <2>1. /\ pending' = pending \ despawned /\ backgrounded' = backgrounded \ despawned
        /\ silent' = silent \ despawned /\ despawned' = {} /\ request' = request
        /\ job' = job /\ ended' = ended
    BY <1>7 DEF IngestSync, jobVars, taskVars
  <2> QED BY <1>1, <2>1
<1>8. ASSUME NEW ts \in SUBSET Tasks, StopTask(ts)
      PROVE  JobTracksBackgrounded'
  BY <1>8, <1>1 DEF StopTask, jobVars, deferVars
<1>9. ASSUME NEW held \in SUBSET request, AsyncDispatch(held)
      PROVE  JobTracksBackgrounded'
  <2>1. /\ request' \cup pending' \subseteq request \cup pending /\ pending \subseteq pending'
        /\ backgrounded' \subseteq backgrounded /\ silent' = silent
        /\ despawned' = despawned /\ job' = job /\ ended' = ended
    BY <1>9 DEF AsyncDispatch, jobVars, deferVars, taskVars
  <2>2. (pending' \ despawned') \cup request' \subseteq (pending \ despawned) \cup request
    BY <1>9, <2>1 DEF AsyncDispatch
  <2> QED BY <1>1, <2>1, <2>2
<1>10. ASSUME NEW c \in Calls, LlmRequests(c)
       PROVE  JobTracksBackgrounded'
  \* nothing of an unissued call is backgrounded
  <2>1. <<c, 0>> \notin backgrounded
    BY <1>10, 0 \in 0..MaxRetry DEF LlmRequests, IssuedFirst
  <2> QED BY <1>10, <1>1, <2>1 DEF LlmRequests, entityVars, jobVars, deferVars, taskVars
<1>11. ASSUME NEW c \in Calls, WatchdogRetries(c)
       PROVE  JobTracksBackgrounded'
  <2>1. /\ request' = request \cup {<<c, job[c] + 1>>} /\ silent' = silent \cup {<<c, job[c]>>}
        /\ backgrounded' = backgrounded \cup {<<c, job[c] + 1>>}
        /\ job' = [job EXCEPT ![c] = @ + 1]
        /\ pending' = pending /\ despawned' = despawned /\ ended' = ended
    BY <1>11 DEF WatchdogRetries, RetryAllowed, deferVars, taskVars
  <2>2. SUFFICES ASSUME NEW i \in (backgrounded' \cap (Settling' \cup request')) \ silent'
                 PROVE  job'[i[1]] = i[2] \/ OwnerOf(i) \in ended'
    OBVIOUS
  <2>3. CASE i = <<c, job[c] + 1>>
    BY <2>1, <2>3
  <2>4. CASE i # <<c, job[c] + 1>>
    <3>1. i \in Ids /\ i[1] \in Calls /\ i = <<i[1], i[2]>>
      BY <2>2 DEF Ids
    <3>2. job[i[1]] = i[2] \/ OwnerOf(i) \in ended
      BY <2>1, <2>2, <2>4
    <3>3. i[1] = c => i[2] # job[c]
      BY <2>1, <2>2, <3>1
    <3> QED BY <2>1, <3>1, <3>2, <3>3
  <2> QED BY <2>3, <2>4
<1>12. CASE Monitor
  \* a call that is parked or queued keeps its job
  <2>1. /\ request' = request /\ pending' = pending /\ backgrounded' = backgrounded
        /\ silent' = silent /\ despawned' = despawned /\ ended' = ended
        /\ job' = [c \in Calls |-> IF Monitored(c) THEN job[c] ELSE NoJob]
    BY <1>12 DEF Monitor, entityVars, deferVars, taskVars
  <2>2. ASSUME NEW i \in Ids, i \in pending \cup request, job[i[1]] = i[2]
        PROVE  job'[i[1]] = i[2]
    <3>1. i[1] \in Calls /\ i = <<i[1], job[i[1]]>>
      BY <2>2 DEF Ids
    <3> QED BY <2>1, <2>2, <3>1 DEF Monitored
  <2> QED BY <2>1, <2>2 DEF OwnerOf
<1>13. CASE Cleanup
  <2>1. /\ request' = request /\ pending' = pending /\ backgrounded' = backgrounded
        /\ silent' = silent /\ despawned' = despawned /\ ended' = ended
        /\ job' = [c \in Calls |-> IF Owner[c] \in ended THEN NoJob ELSE job[c]]
    BY <1>13 DEF Cleanup, entityVars, deferVars, taskVars
  <2>2. \A i \in Ids : i[1] \in Calls
    BY DEF Ids
  <2> QED BY <2>1, <2>2 DEF OwnerOf
<1>14. CASE AutoBackground
  <2>1. /\ request' = request /\ pending' = pending /\ silent' = silent
        /\ despawned' = despawned /\ ended' = ended /\ backgrounded' = backgrounded \cup Overrun
        /\ job' = [c \in Calls |-> IF <<c, 0>> \in Overrun THEN 0 ELSE job[c]]
    BY <1>14 DEF AutoBackground, deferVars, taskVars
  <2>2. \A i \in Overrun : i \in Ids /\ i \in pending \ backgrounded
    BY DEF Overrun
  \* only a first attempt runs in the foreground, and then it is alone
  <2>3. ASSUME NEW i \in Overrun
        PROVE  i[1] \in Calls /\ i = <<i[1], 0>>
    <3>1. i[1] \in Calls /\ i[2] \in 0..MaxRetry /\ i = <<i[1], i[2]>>
      BY <2>2 DEF Ids
    <3>2. ~(i[2] > 0)
      BY <2>2 DEF RetriesAreJobs
    <3> QED BY <3>1, <3>2
  <2>4. SUFFICES ASSUME NEW i \in (backgrounded' \cap (Settling' \cup request')) \ silent'
                 PROVE  job'[i[1]] = i[2] \/ OwnerOf(i) \in ended'
    OBVIOUS
  <2>5. i \in Ids /\ i[1] \in Calls /\ i[2] \in 0..MaxRetry /\ i = <<i[1], i[2]>>
    BY <2>4 DEF Ids
  <2>6. CASE i \in Overrun
    BY <2>1, <2>3, <2>6
  <2>7. CASE i \notin Overrun
    <3>1. i \in backgrounded /\ i \in request \cup pending
      BY <2>1, <2>4, <2>7
    <3>2. <<i[1], 0>> \notin Overrun
      <4>1. CASE i[2] = 0
        BY <2>5, <2>7, <4>1
      <4>2. CASE i[2] \in 1..MaxRetry
        BY <2>2, <2>5, <3>1, <4>2 DEF ForegroundIsAlone
      <4> QED BY <2>5, <4>1, <4>2
    <3>3. job'[i[1]] = job[i[1]]
      BY <2>1, <2>5, <3>2
    <3> QED BY <2>1, <2>4, <3>1, <3>3
  <2> QED BY <2>6, <2>7
<1> QED
  BY <1>2, <1>3, <1>4, <1>5, <1>6, <1>7, <1>8, <1>9, <1>10, <1>11, <1>12, <1>13, <1>14
     DEF Next, Frame, Environment

\* No call answers the loop twice on its way to the background.
Answered == Unanswered /\ BackgroundAnswersOnce

LEMMA AnsweredStep ==
  ASSUME TypeOK, TypeOK', Phases, Entities, Answered, [Next]_vars
  PROVE  Answered'
<1> USE BridgeAssumption
    DEF TypeOK, Entities, OneEntity, IssuedFirst, RetriesAreJobs,
        Answered, Unanswered, BackgroundAnswersOnce, Settling
<1>0. \A i \in Ids : i[1] \in Calls /\ i[2] \in 0..MaxRetry /\ i = <<i[1], i[2]>>
  BY DEF Ids
<1>1. ASSUME answers' = answers, issued' = issued, backgrounded' = backgrounded,
             (pending' \ despawned') \cup request' \subseteq (pending \ despawned) \cup request
      PROVE  Answered'
  BY <1>1
<1>2. CASE UNCHANGED vars
  BY <1>2, <1>1 DEF vars, entityVars, deferVars, outVars
<1>3. CASE ControlDone \/ Monitor \/ Cleanup \/ IngestDone \/ SweepDone \/ CommitDone
           \/ CancelMonitor \/ ClearStop
  BY <1>3, <1>1 DEF ControlDone, Monitor, Cleanup, IngestDone, SweepDone, CommitDone,
     CancelMonitor, ClearStop, entityVars, deferVars, outVars
<1>4. CASE \/ \E i \in Ids : SweepOne(i) \/ CommitOne(i)
           \/ \E i \in Ids, p \in {"completed", "effect"} : WorkerFinish(i, p)
           \/ \E t \in Tasks : TaskEnds(t)
           \/ \E late \in SUBSET Ids : Tick(late)
  BY <1>4, <1>1 DEF SweepOne, CommitOne, WorkerFinish, TaskEnds, Tick, entityVars,
     deferVars, outVars
<1>5. CASE \E c \in Calls : AgentStops(c) \/ WatchdogStops(c)
  BY <1>5, <1>1 DEF AgentStops, WatchdogStops, entityVars, deferVars, outVars
<1>6. CASE IngestRecv
  <2> DEFINE m == Head(channel)
  <2>1. m \in Message /\ m.id \in Ids
    BY <1>6, SentOnTail DEF IngestRecv, Message
  <2>2. /\ issued' = issued /\ backgrounded' = backgrounded /\ pending' = pending
        /\ request' = request
    BY <1>6 DEF IngestRecv, entityVars
  <2>3. CASE DropResult \/ ParkEffect(m.id)
    BY <1>1, <2>2, <2>3 DEF DropResult, ParkEffect
  <2>4. CASE m.id \in pending /\ Land(m.id)
    <3>1. despawned' = despawned \cup {m.id}
      BY <2>4 DEF Land
    <3>2. CASE m.id \in backgrounded
      BY <1>1, <2>2, <2>4, <3>1, <3>2 DEF Land
    <3>3. CASE m.id \notin backgrounded
      <4>1. answers' = [answers EXCEPT ![m.id] = @ + 1]
        BY <2>4, <3>3 DEF Land
      \* the landed call is a first attempt, parked, and leaves with this step
      <4>2. /\ ~(m.id[2] > 0) /\ m.id[1] \in issued
            /\ m.id \notin request /\ m.id \notin pending \ despawned'
        BY <1>0, <2>1, <2>4, <3>1, <3>3
      <4>3. \A i \in Ids \ {m.id} : answers'[i] = answers[i]
        BY <4>1
      <4>4. Unanswered'
        BY <2>2, <3>1, <4>2, <4>3
      <4>5. BackgroundAnswersOnce'
        BY <2>2, <3>3, <4>3
      <4> QED BY <4>4, <4>5
    <3> QED BY <3>2, <3>3
  <2> QED BY <1>6, <2>3, <2>4 DEF IngestRecv
<1>7. CASE IngestSync
  <2>1. /\ pending' = pending \ despawned /\ backgrounded' = backgrounded \ despawned
        /\ despawned' = {} /\ request' = request /\ issued' = issued /\ answers' = answers
    BY <1>7 DEF IngestSync, outVars
  <2>2. ASSUME NEW i \in Ids, i \notin backgrounded',
               i[1] \notin issued' \/ i \in request' \cup Settling'
        PROVE  i \notin backgrounded /\ (i[1] \notin issued \/ i \in request \cup Settling)
    <3>1. i[1] \notin issued => i \notin request \cup pending
      BY <1>0
    <3> QED BY <2>1, <2>2, <3>1
  <2>3. Unanswered'
    BY <2>1, <2>2
  <2> QED BY <2>1, <2>3
<1>8. ASSUME NEW ts \in SUBSET Tasks, StopTask(ts)
      PROVE  Answered'
  <2>1. /\ pending' = pending /\ despawned' = despawned /\ issued' = issued
        /\ answers' = answers /\ request' = request \ Withdrawn(ts)
        /\ backgrounded' = backgrounded \ Withdrawn(ts) /\ Withdrawn(ts) \subseteq request
    BY <1>8 DEF StopTask, Withdrawn, deferVars, outVars
  <2>2. ASSUME NEW i \in Ids, i \notin backgrounded',
               i[1] \notin issued' \/ i \in request' \cup Settling'
        PROVE  i \notin backgrounded /\ (i[1] \notin issued \/ i \in request \cup Settling)
    <3>1. i[1] \notin issued => i \notin request \cup pending
      BY <1>0
    <3> QED BY <2>1, <2>2, <3>1
  <2>3. Unanswered'
    BY <2>1, <2>2
  <2> QED BY <2>1, <2>3
<1>9. ASSUME NEW held \in SUBSET request, AsyncDispatch(held)
      PROVE  Answered'
  <2>1. PICK dead \in SUBSET request :
          /\ held \subseteq request \ dead
          /\ request' = held /\ pending' = pending \cup (request \ (dead \cup held))
          /\ backgrounded' = backgrounded \ dead /\ issued' = issued
          /\ answers' = answers /\ despawned' = despawned
    BY <1>9 DEF AsyncDispatch, deferVars, outVars
  <2>2. ASSUME NEW i \in Ids, i \notin backgrounded',
               i[1] \notin issued' \/ i \in request' \cup Settling'
        PROVE  i \notin backgrounded /\ (i[1] \notin issued \/ i \in request \cup Settling)
    <3>1. i[1] \notin issued => i \notin request \cup pending
      BY <1>0
    <3> QED BY <2>1, <2>2, <3>1
  <2>3. Unanswered'
    BY <2>1, <2>2
  <2> QED BY <2>1, <2>3
<1>10. ASSUME NEW c \in Calls, LlmRequests(c)
       PROVE  Answered'
  <2>1. /\ pending' = pending /\ despawned' = despawned /\ backgrounded' = backgrounded
        /\ answers' = answers /\ issued' = issued \cup {c}
        /\ request' = request \cup {<<c, 0>>} /\ c \notin issued
    BY <1>10 DEF LlmRequests, entityVars, deferVars, outVars
  <2>2. <<c, 0>> \in Ids /\ <<c, 0>>[1] = c
    BY DEF Ids
  <2>3. Unanswered'
    BY <2>1, <2>2
  <2> QED BY <2>1, <2>3
<1>11. ASSUME NEW c \in Calls, WatchdogRetries(c)
       PROVE  Answered'
  <2>1. PICK k \in 1..MaxRetry :
          /\ request' = request \cup {<<c, k>>} /\ backgrounded' = backgrounded \cup {<<c, k>>}
          /\ pending' = pending /\ despawned' = despawned /\ answers' = answers
          /\ issued' = issued
    <3>1. job[c] + 1 \in 1..MaxRetry
      BY <1>11 DEF WatchdogRetries, RetryAllowed, Controllable, NoJob
    <3> QED BY <1>11, <3>1 DEF WatchdogRetries, RetryAllowed, deferVars, outVars
  <2>2. <<c, k>> \in Ids /\ <<c, k>>[2] = k /\ k > 0
    BY DEF Ids
  <2>3. answers[<<c, k>>] = 0
    BY <2>2
  <2>4. BackgroundAnswersOnce'
    BY <2>1, <2>2, <2>3
  <2>5. Unanswered'
    BY <2>1
  <2> QED BY <2>4, <2>5
<1>12. CASE AutoBackground
  <2>1. /\ request' = request /\ pending' = pending /\ despawned' = despawned
        /\ issued' = issued /\ backgrounded' = backgrounded \cup Overrun
        /\ answers' = [i \in Ids |-> answers[i] + IF i \in Overrun THEN 1 ELSE 0]
    BY <1>12 DEF AutoBackground, deferVars
  \* auto-background runs before ingest: nothing is half despawned
  <2>2. despawned = {}
    BY <1>12 DEF AutoBackground, Ran, Runnable, Phases
  <2>3. Overrun \subseteq Ids /\ Overrun \subseteq pending \ backgrounded
    BY DEF Overrun
  <2>4. \A i \in Overrun : i[2] = 0 /\ answers[i] = 0
    <3>1. \A i \in Overrun : ~(i[2] > 0)
      BY <2>3
    <3> QED BY <1>0, <2>2, <2>3, <3>1
  <2>5. \A i \in Ids : answers'[i] = IF i \in Overrun THEN 1 ELSE answers[i]
    <3>1. \A i \in Overrun : answers'[i] = 1
      BY <2>1, <2>3, <2>4
    <3>2. \A i \in Ids \ Overrun : answers'[i] = answers[i]
      BY <2>1
    <3> QED BY <3>1, <3>2
  <2>6. BackgroundAnswersOnce'
    BY <2>1, <2>3, <2>4, <2>5
  <2>7. Unanswered'
    BY <2>1, <2>4, <2>5
  <2> QED BY <2>6, <2>7
<1> QED
  BY <1>2, <1>3, <1>4, <1>5, <1>6, <1>7, <1>8, <1>9, <1>10, <1>11, <1>12
     DEF Next, Frame, Environment

-----------------------------------------------------------------------------
(* The theorems.                                                           *)

\* BridgeInv is inductive.
THEOREM BridgeInvariant == Spec => []BridgeInv
<1>1. Init => BridgeInv
  <2> SUFFICES ASSUME Init PROVE BridgeInv
    OBVIOUS
  <2>1. TypeOK
    BY BridgeAssumption DEF Init, TypeOK, Ages, NoJob
  <2> QED
    BY <2>1 DEF Init, BridgeInv, Phases, Answerable, ClaimsBacked, OneEntity, IssuedFirst,
       RetriesAreJobs, ForegroundIsAlone, JobTracksBackgrounded, Unanswered,
       BackgroundAnswersOnce, Settling, Systems, Transform
<1>2. BridgeInv /\ [Next]_vars => BridgeInv'
  <2> SUFFICES ASSUME BridgeInv, [Next]_vars PROVE BridgeInv'
    OBVIOUS
  <2>1. TypeOK /\ TypeOK'
    BY TypeStep DEF BridgeInv
  <2>2. Phases'
    BY <2>1, PhasesStep DEF BridgeInv
  <2>3. Answerable' /\ ClaimsBacked'
    BY <2>1, AnswerableStep DEF BridgeInv
  <2>4. Entities'
    BY <2>1, EntitiesStep DEF BridgeInv, Entities
  <2>5. JobTracksBackgrounded'
    BY <2>1, TrackingStep DEF BridgeInv, Entities
  <2>6. Answered'
    BY <2>1, AnsweredStep DEF BridgeInv, Entities, Answered
  <2> QED BY <2>1, <2>2, <2>3, <2>4, <2>5, <2>6 DEF BridgeInv, Entities, Answered
<1> QED BY <1>1, <1>2, PTL DEF Spec

\* For every number of calls, tasks and retries no parked call is ever orphaned.
THEOREM NoOrphanedCall == Spec => []Answerable
<1>1. BridgeInv => Answerable
  BY DEF BridgeInv
<1> QED BY <1>1, BridgeInvariant, PTL

\* A backgrounded call that will be notified is the one its job tracks.
THEOREM BackgroundedIsTracked == Spec => []JobTracksBackgrounded
<1>1. BridgeInv => JobTracksBackgrounded
  BY DEF BridgeInv
<1> QED BY <1>1, BridgeInvariant, PTL

\* A call that moved to the background answered the loop exactly once.
THEOREM BackgroundedAnswersOnce == Spec => []BackgroundAnswersOnce
<1>1. BridgeInv => BackgroundAnswersOnce
  BY DEF BridgeInv
<1> QED BY <1>1, BridgeInvariant, PTL

-----------------------------------------------------------------------------
(* What a stop selects.                                                    *)

\* Once the cancel monitor has run, every foreground call of a stopping task is
\* cancelled; nothing is stopped, parked or moved to the background after it.
Swept ==
  "cancel" \notin todo =>
    /\ todo \cap (Transform \cup Dispatch) = {}
    /\ \A i \in inFlight : OwnerOf(i) \in stopping => i \in cancelled \cup backgrounded

LEMMA SweptInit == Init => Swept
BY DEF Init, Swept, Systems, Maintenance

LEMMA SweptStep ==
  ASSUME TypeOK, Swept, [Next]_vars
  PROVE  Swept'
<1>1. ASSUME NEW s \in Transform \cup Dispatch, Runnable(s),
             "cancel" \in todo' <=> "cancel" \in todo
      PROVE  Swept'
  BY <1>1 DEF Swept, Runnable
<1>2. ASSUME NEW s \in Systems \ {"cancel"}, Ran(s) \/ todo' = todo,
             inFlight' \subseteq inFlight, stopping' \subseteq stopping,
             cancelled \subseteq cancelled', backgrounded' = backgrounded
      PROVE  Swept'
  BY <1>2 DEF Swept, Ran
<1>3. ASSUME NEW s \in Transform \cup Dispatch, Ran(s)
      PROVE  Swept'
  <2>1. s # "cancel"
    BY DEF Transform, Dispatch
  <2> QED BY <1>1, <1>3, <2>1 DEF Ran
<1>4. CASE \/ ControlDone \/ Monitor \/ AutoBackground \/ IngestDone \/ IngestSync
           \/ \E ts \in SUBSET Tasks : StopTask(ts)
           \/ \E held \in SUBSET request : AsyncDispatch(held)
  <2>1. \E s \in Transform \cup Dispatch : Ran(s)
    BY <1>4 DEF ControlDone, Monitor, AutoBackground, IngestDone, IngestSync, StopTask, AsyncDispatch,
                Transform, Dispatch
  <2> QED BY <2>1, <1>3
<1>5. CASE \E c \in Calls : AgentStops(c) \/ WatchdogStops(c) \/ WatchdogRetries(c)
  <2>1. Runnable("control") /\ todo' = todo
    BY <1>5 DEF AgentStops, WatchdogStops, WatchdogRetries, Controllable
  <2>2. "control" \in Transform \cup Dispatch
    BY DEF Transform
  <2> QED BY <2>1, <2>2, <1>1
<1>6. CASE IngestRecv
  <2>1. Runnable("ingest") /\ todo' = todo
    BY <1>6 DEF IngestRecv
  <2>2. "ingest" \in Transform \cup Dispatch
    BY DEF Transform
  <2> QED BY <2>1, <2>2, <1>1
<1>7. CASE \/ \E i \in Ids : SweepOne(i) \/ CommitOne(i)
           \/ \E i \in Ids, p \in {"completed", "effect"} : WorkerFinish(i, p)
           \/ \E c \in Calls : LlmRequests(c)
           \/ \E t \in Tasks : TaskEnds(t)
           \/ UNCHANGED vars
  <2>1. UNCHANGED <<todo, inFlight, stopping, cancelled, backgrounded>>
    BY <1>7 DEF SweepOne, CommitOne, WorkerFinish, LlmRequests, TaskEnds, vars, entityVars, workerVars,
                taskVars
  <2> QED BY <2>1 DEF Swept
<1>8. CASE SweepDone \/ CommitDone \/ Cleanup \/ ClearStop
  <2>1. \E s \in Systems \ {"cancel"} : Ran(s)
    BY <1>8 DEF SweepDone, CommitDone, Cleanup, ClearStop, Systems, Maintenance
  <2>2. inFlight' \subseteq inFlight /\ stopping' \subseteq stopping
    BY <1>8 DEF SweepDone, CommitDone, Cleanup, ClearStop, entityVars, taskVars
  <2>3. cancelled' = cancelled /\ backgrounded' = backgrounded
    BY <1>8 DEF SweepDone, CommitDone, Cleanup, ClearStop, entityVars, workerVars
  <2> QED BY <2>1, <2>2, <2>3, <1>2
<1>9. CASE CancelMonitor
  <2>1. /\ todo' = todo \ {"cancel"} /\ Before("cancel") \cap todo = {}
        /\ cancelled' = cancelled \cup Abandoned
        /\ UNCHANGED <<inFlight, stopping, backgrounded>>
    BY <1>9 DEF CancelMonitor, Ran, Runnable, entityVars, taskVars
  <2>2. Before("cancel") = Transform \cup Dispatch
    BY DEF Before, Maintenance
  <2>3. todo' \cap (Transform \cup Dispatch) = {}
    BY <2>1, <2>2
  <2>4. \A i \in inFlight : OwnerOf(i) \in stopping => i \in cancelled' \cup backgrounded
    BY <2>1 DEF Abandoned
  <2> QED BY <2>1, <2>3, <2>4 DEF Swept, OwnerOf
<1>10. ASSUME NEW late \in SUBSET Ids, Tick(late)
       PROVE  Swept'
  BY <1>10 DEF Tick, Swept, Systems, Maintenance
<1> QED
  BY <1>4, <1>5, <1>6, <1>7, <1>8, <1>9, <1>10 DEF Next, Frame, Environment

\* No stop meets a watchdog retry that is still queued: the crossing in which
\* the stop withdraws the request of the background job (divergence 11).
StopMeetsNoRetry ==
  \A ts \in SUBSET Tasks : StopTask(ts) => \A i \in request \cap backgrounded : OwnerOf(i) \notin ts

LEMMA SparesBackground ==
  ASSUME TypeOK, [Next]_vars, [StopMeetsNoRetry]_vars,
         NEW i \in backgrounded \ silent, OwnerOf(i) \notin ended, "control" \notin todo
  PROVE  /\ i \in cancelled' => i \in cancelled
         /\ i \in request => i \in request' \cup pending'
<1>1. i \in Ids
  BY DEF TypeOK
<1>2. ~Runnable("control")
  BY DEF Runnable
<1>3. CASE CancelMonitor
  <2>1. i \notin Abandoned
    BY DEF Abandoned
  <2> QED BY <2>1, <1>3 DEF CancelMonitor
<1>4. ASSUME NEW ts \in SUBSET Tasks, StopTask(ts)
      PROVE  /\ i \in cancelled' => i \in cancelled
             /\ i \in request => i \in request' \cup pending'
  <2>1. cancelled' = cancelled /\ request' = request \ Withdrawn(ts)
    BY <1>4 DEF StopTask, workerVars
  <2>2. CASE UNCHANGED vars
    BY <2>2 DEF vars, workerVars
  <2>3. CASE StopMeetsNoRetry
    <3>1. i \in request => OwnerOf(i) \notin ts
      BY <2>3, <1>4 DEF StopMeetsNoRetry
    <3> QED BY <3>1, <2>1 DEF Withdrawn
  <2> QED BY <2>2, <2>3
<1>5. ASSUME NEW held \in SUBSET request, AsyncDispatch(held)
      PROVE  /\ i \in cancelled' => i \in cancelled
             /\ i \in request => i \in request' \cup pending'
  BY <1>5 DEF AsyncDispatch
<1>6. CASE \/ ControlDone \/ Monitor \/ AutoBackground \/ IngestRecv \/ IngestDone \/ IngestSync
           \/ \E j \in Ids : SweepOne(j) \/ CommitOne(j)
           \/ SweepDone \/ CommitDone \/ ClearStop \/ Cleanup
           \/ \E j \in Ids, p \in {"completed", "effect"} : WorkerFinish(j, p)
           \/ \E t \in Tasks : TaskEnds(t)
           \/ \E late \in SUBSET Ids : Tick(late)
           \/ UNCHANGED vars
  <2>1. cancelled' = cancelled /\ request' = request
    BY <1>6 DEF ControlDone, Monitor, AutoBackground, IngestRecv, IngestDone, IngestSync, SweepOne,
                CommitOne, SweepDone, CommitDone, ClearStop, Cleanup, WorkerFinish, TaskEnds, Tick,
                vars, workerVars
  <2> QED BY <2>1
<1>7. ASSUME NEW c \in Calls, LlmRequests(c)
      PROVE  /\ i \in cancelled' => i \in cancelled
             /\ i \in request => i \in request' \cup pending'
  BY <1>7 DEF LlmRequests, workerVars
<1>8. ~ \E c \in Calls : AgentStops(c) \/ WatchdogStops(c) \/ WatchdogRetries(c)
  BY <1>2 DEF AgentStops, WatchdogStops, WatchdogRetries, Controllable
<1> QED BY <1>3, <1>4, <1>5, <1>6, <1>7, <1>8 DEF Next, Frame, Environment

LEMMA StopCancels ==
  ASSUME TypeOK, Swept, [Next]_vars, NEW i \in inFlight', OwnerOf(i) \in stopping \ stopping'
  PROVE  i \in cancelled \/ i \in backgrounded
<1>1. ClearStop
  BY DEF Next, Frame, Environment, AgentStops, WatchdogStops, WatchdogRetries, ControlDone, Monitor,
     AutoBackground, IngestRecv, IngestDone, IngestSync, StopTask, AsyncDispatch, SweepOne, CommitOne,
     SweepDone, CancelMonitor, CommitDone, Cleanup, WorkerFinish, LlmRequests, TaskEnds, Tick,
     taskVars, vars
<1>2. "cancel" \notin todo
  <2>1. "cancel" \in Before("clear")
    BY DEF Before, Maintenance
  <2> QED BY <1>1, <2>1 DEF ClearStop, Ran, Runnable
<1>3. i \in inFlight
  BY <1>1 DEF ClearStop
<1> QED BY <1>2, <1>3 DEF Swept

\* "/stop interrupts the current turn only": unless its owner has ended, a
\* control named its job, or the stop met its queued retry, a call in the
\* background is neither cancelled nor withdrawn, and every foreground call of
\* the task is cancelled by the end of the frame.
THEOREM StopIsSelective == Spec /\ [][StopMeetsNoRetry]_vars => StopSelects
<1>1. TypeOK /\ Swept /\ [Next]_vars /\ [StopMeetsNoRetry]_vars =>
        [/\ \A i \in backgrounded \ silent :
              (OwnerOf(i) \notin ended /\ "control" \notin todo) =>
                /\ i \in cancelled' => i \in cancelled
                /\ i \in request => i \in request' \cup pending'
         /\ \A i \in inFlight' : (OwnerOf(i) \in stopping \ stopping') =>
              i \in cancelled \/ i \in backgrounded]_vars
  BY SparesBackground, StopCancels
<1>2. TypeOK /\ Swept /\ [Next]_vars => Swept'
  BY SweptStep
<1> QED BY <1>1, <1>2, SweptInit, TypeCorrect, PTL DEF Spec, StopSelects

-----------------------------------------------------------------------------
(* Who is still to be notified.                                            *)

\* Of the attempts of a call in the background only one has not been silenced:
\* the one the job tracks while there is a job.  Only retries carry the mark
\* before they are parked, and a call in the foreground has no notice and was
\* not stopped.
Notifying ==
  /\ silent \subseteq backgrounded \cap pending
  /\ \A i \in backgrounded \ silent : job[i[1]] # NoJob => Tracked(i)
  /\ \A i, j \in backgrounded \ silent : i[1] = j[1] => i = j
  /\ \A i \in request \cap backgrounded : i[2] > 0
  /\ \A c \in Calls : c \notin issued \/ <<c, 0>> \in (request \cup pending) \ backgrounded =>
       notices[c] = 0 /\ c \notin muted

LEMMA NotifyingInit == Init => Notifying
BY DEF Init, Notifying

\* A call that is tracked is in the background; nothing else exists of a call in
\* the foreground.
LEMMA TrackedIsBackground ==
  ASSUME TypeOK, Entities, NEW i \in request \cup pending
  PROVE  /\ i \in Ids /\ i[1] \in Calls /\ i[2] \in 0..MaxRetry /\ i = <<i[1], i[2]>> /\ i[1] \in issued
         /\ Tracked(i) => i \in backgrounded
         /\ i \notin backgrounded =>
              /\ i[2] = 0 /\ i = <<i[1], 0>> /\ job[i[1]] = NoJob
              /\ \A j \in request \cup pending : j[1] = i[1] => j = i
<1> USE BridgeAssumption DEF TypeOK, Entities
<1>1. \A j \in request \cup pending : j \in Ids /\ j[1] \in Calls /\ j[2] \in 0..MaxRetry /\ j = <<j[1], j[2]>>
  BY DEF Ids
<1>2. i[1] \in issued
  <2>1. i = <<i[1], i[2]>> /\ i[1] \in Calls /\ i[2] \in 0..MaxRetry
    BY <1>1
  <2> QED BY <2>1 DEF IssuedFirst
<1>3. CASE i \notin backgrounded
  <2>1. i[2] = 0
    BY <1>1, <1>3 DEF RetriesAreJobs
  <2>2. i = <<i[1], 0>>
    BY <2>1, <1>1
  <2>3. job[i[1]] = NoJob /\ \A k \in 1..MaxRetry : <<i[1], k>> \notin request \cup pending
    BY <2>2, <1>1, <1>3 DEF ForegroundIsAlone
  <2>4. ASSUME NEW j \in request \cup pending, j[1] = i[1]
        PROVE  j = i
    <3>1. j[2] \in 0..MaxRetry /\ j = <<i[1], j[2]>>
      BY <1>1, <2>4
    <3>2. j[2] \notin 1..MaxRetry
      BY <3>1, <2>3
    <3>3. j[2] = 0
      BY <3>1, <3>2
    <3> QED BY <3>1, <3>3, <2>2
  <2>5. ~Tracked(i)
    BY <2>1, <2>3 DEF Tracked, NoJob
  <2> QED BY <2>1, <2>2, <2>3, <2>4, <2>5, <1>1, <1>2
<1>4. CASE i \in backgrounded
  BY <1>1, <1>2, <1>4
<1> QED BY <1>3, <1>4

\* What a watchdog retry makes.
LEMMA RetryIs ==
  ASSUME TypeOK, Entities, NEW c \in Calls, WatchdogRetries(c)
  PROVE  \E k \in 1..MaxRetry :
           /\ k = job[c] + 1 /\ job[c] \in 0..MaxRetry /\ job[c] # NoJob
           /\ <<c, job[c]>> \in pending \cap backgrounded
           /\ <<c, k>> \notin request \cup pending
           /\ silent' = silent \cup {<<c, job[c]>>}
           /\ request' = request \cup {<<c, k>>} /\ backgrounded' = backgrounded \cup {<<c, k>>}
           /\ job' = [job EXCEPT ![c] = k]
           /\ UNCHANGED <<todo, issued, pending, inFlight, age, fresh, running, channel, taken,
                          despawned, claims, effects, ended, stopping, answers, notices, muted>>
<1>1. PICK k \in 1..MaxRetry : k = job[c] + 1
  BY BridgeAssumption DEF WatchdogRetries, RetryAllowed, Controllable, NoJob, TypeOK
<1>2. /\ job[c] # NoJob /\ <<c, job[c]>> \in pending \cap backgrounded /\ job[c] \in 0..MaxRetry
  BY DEF WatchdogRetries, Controllable, NoJob, TypeOK
<1>3. <<c, k>> \notin request \cup pending
  <2>1. SUFFICES ASSUME <<c, k>> \in request \cup pending
                 PROVE  FALSE
    OBVIOUS
  <2>2. <<c, k>>[1] = c /\ <<c, k>>[2] = k /\ k > 0
    OBVIOUS
  <2>3. k <= job[c]
    BY <1>2, <2>1, <2>2 DEF Entities, RetriesAreJobs
  <2> QED BY <1>1, <1>2, <2>3
<1>4. /\ silent' = silent \cup {<<c, job[c]>>}
      /\ request' = request \cup {<<c, k>>} /\ backgrounded' = backgrounded \cup {<<c, k>>}
      /\ job' = [job EXCEPT ![c] = k]
  BY <1>1 DEF WatchdogRetries
<1>5. UNCHANGED <<todo, issued, pending, inFlight, age, fresh, running, channel, taken,
                  despawned, claims, effects, ended, stopping, answers, notices, muted>>
  BY DEF WatchdogRetries, deferVars, taskVars, outVars
<1> QED BY <1>1, <1>2, <1>3, <1>4, <1>5

\* What tool_auto_background moves.
LEMMA OverrunIs ==
  ASSUME TypeOK, Entities, AutoBackground
  PROVE  /\ \A i \in Overrun : /\ i \in pending /\ i \notin backgrounded /\ i \in Ids /\ i[2] = 0
                               /\ i = <<i[1], 0>> /\ i[1] \in Calls /\ job'[i[1]] = 0
                               /\ \A j \in request \cup pending : j[1] = i[1] => j = i
         /\ \A c \in Calls : <<c, 0>> \notin Overrun => job'[c] = job[c]
         /\ backgrounded' = backgrounded \cup Overrun
         /\ "autobg" \in todo
         /\ UNCHANGED <<issued, request, pending, inFlight, age, silent, running, cancelled, channel,
                        taken, despawned, claims, effects, ended, stopping, notices, muted>>
<1>1. /\ backgrounded' = backgrounded \cup Overrun /\ "autobg" \in todo
      /\ job' = [c \in Calls |-> IF <<c, 0>> \in Overrun THEN 0 ELSE job[c]]
      /\ UNCHANGED <<issued, request, pending, inFlight, age, silent, running, cancelled, channel,
                     taken, despawned, claims, effects, ended, stopping, notices, muted>>
  BY DEF AutoBackground, Ran, Runnable, workerVars, deferVars, taskVars
<1>2. ASSUME NEW i \in Overrun
      PROVE  /\ i \in pending /\ i \notin backgrounded /\ i \in Ids /\ i[2] = 0
             /\ i = <<i[1], 0>> /\ i[1] \in Calls /\ job'[i[1]] = 0
             /\ \A j \in request \cup pending : j[1] = i[1] => j = i
  <2>1. i \in pending /\ i \notin backgrounded
    BY DEF Overrun, TypeOK
  <2>2. /\ i \in Ids /\ i[2] = 0 /\ i = <<i[1], 0>> /\ i[1] \in Calls
        /\ \A j \in request \cup pending : j[1] = i[1] => j = i
    BY <2>1, TrackedIsBackground
  <2>3. job'[i[1]] = 0
    BY <2>2, <1>1
  <2> QED BY <2>1, <2>2, <2>3
<1> QED BY <1>1, <1>2

\* What landing does to the notices.
LEMMA LandIs ==
  ASSUME TypeOK, IngestRecv
  PROVE  /\ channel # <<>> /\ channel' = Tail(channel) /\ "ingest" \in todo
         /\ UNCHANGED <<todo, issued, request, pending, inFlight, age, backgrounded, silent, job, fresh,
                        running, cancelled, claims, ended, stopping, muted>>
         /\ \/ UNCHANGED <<despawned, answers, notices, effects>> /\ Head(channel).id \notin pending
            \/ /\ Head(channel).id \in pending /\ effects' = effects \cup {Head(channel).id}
               /\ UNCHANGED <<despawned, answers, notices>>
            \/ \E i \in pending :
                 /\ i = Head(channel).id /\ despawned' = despawned \cup {i} /\ effects' = effects
                 /\ \/ i \in backgrounded \ silent /\ notices' = [notices EXCEPT ![i[1]] = @ + 1] /\ answers' = answers
                    \/ i \in backgrounded /\ i \in silent /\ notices' = notices /\ answers' = answers
                    \/ i \notin backgrounded /\ notices' = notices /\ answers' = [answers EXCEPT ![i] = @ + 1]
<1>1. /\ channel # <<>> /\ channel' = Tail(channel) /\ "ingest" \in todo
      /\ UNCHANGED <<todo, issued, request, pending, inFlight, age, backgrounded, silent, job, fresh,
                     running, cancelled, claims, ended, stopping, muted>>
  BY DEF IngestRecv, Runnable, entityVars, jobVars, taskVars
<1>2. \/ Head(channel).id \notin pending /\ DropResult
      \/ Head(channel).id \in pending /\ ParkEffect(Head(channel).id)
      \/ Head(channel).id \in pending /\ Land(Head(channel).id)
  BY DEF IngestRecv
<1>3. CASE Head(channel).id \in pending /\ Land(Head(channel).id)
  <2>1. PICK i \in pending : i = Head(channel).id /\ Land(i)
    BY <1>3
  <2>2. despawned' = despawned \cup {i} /\ effects' = effects
    BY <2>1 DEF Land
  <2>3. notices \in [Calls -> Nat] /\ i \in Ids /\ i[1] \in Calls
    BY DEF TypeOK, Ids
  <2>4. CASE i \in backgrounded \ silent
    <3>1. notices' = [notices EXCEPT ![i[1]] = @ + 1] /\ answers' = answers
      BY <2>1, <2>4 DEF Land
    <3> QED BY <3>1, <2>1, <2>2, <2>4, <1>1
  <2>5. CASE i \in backgrounded /\ i \in silent
    <3>1. notices' = [notices EXCEPT ![i[1]] = @ + 0] /\ answers' = answers
      BY <2>1, <2>5 DEF Land
    <3>2. notices' = notices
      BY <3>1, <2>3
    <3> QED BY <3>1, <3>2, <2>1, <2>2, <2>5, <1>1
  <2>6. CASE i \notin backgrounded
    <3>1. notices' = notices /\ answers' = [answers EXCEPT ![i] = @ + 1]
      BY <2>1, <2>6 DEF Land
    <3> QED BY <3>1, <2>1, <2>2, <2>6, <1>1
  <2> QED BY <2>4, <2>5, <2>6
<1>4. CASE Head(channel).id \notin pending /\ DropResult
  BY <1>1, <1>4 DEF DropResult
<1>5. CASE Head(channel).id \in pending /\ ParkEffect(Head(channel).id)
  BY <1>1, <1>5 DEF ParkEffect
<1> QED BY <1>2, <1>3, <1>4, <1>5

LEMMA NotifyingStep ==
  ASSUME TypeOK, Entities, Notifying, [Next]_vars
  PROVE  Notifying'
<1>1. ASSUME silent' = silent, backgrounded' = backgrounded, pending' = pending, request' = request,
             issued' = issued, notices' = notices, muted' = muted,
             \A c \in Calls : job'[c] = job[c] \/ job'[c] = NoJob
      PROVE  Notifying'
  <2>1. \A i \in backgrounded \ silent : i[1] \in Calls
    BY DEF TypeOK, Ids
  <2> QED BY <1>1, <2>1 DEF Notifying, Tracked
<1>2. CASE \/ ControlDone \/ IngestDone \/ SweepDone \/ CommitDone \/ CancelMonitor \/ ClearStop
           \/ \E i \in Ids : SweepOne(i) \/ CommitOne(i)
           \/ \E i \in Ids, p \in {"completed", "effect"} : WorkerFinish(i, p)
           \/ \E t \in Tasks : TaskEnds(t)
           \/ \E late \in SUBSET Ids : Tick(late)
           \/ \E c \in Calls : WatchdogStops(c)
           \/ UNCHANGED vars
  <2>1. UNCHANGED <<silent, backgrounded, pending, request, issued, notices, muted, job>>
    BY <1>2 DEF ControlDone, IngestDone, SweepDone, CommitDone, CancelMonitor, ClearStop, SweepOne,
       CommitOne, WorkerFinish, TaskEnds, Tick, WatchdogStops, vars, entityVars, jobVars, outVars
  <2> QED BY <2>1, <1>1
<1>3. CASE Monitor \/ Cleanup
  <2>1. UNCHANGED <<silent, backgrounded, pending, request, issued, notices, muted>>
    BY <1>3 DEF Monitor, Cleanup, entityVars, outVars
  <2>2. \A c \in Calls : job'[c] = job[c] \/ job'[c] = NoJob
    BY <1>3 DEF Monitor, Cleanup
  <2> QED BY <2>1, <2>2, <1>1
<1>4. ASSUME NEW c \in Calls, AgentStops(c)
      PROVE  Notifying'
  <2>1. /\ job[c] # NoJob /\ job[c] \in 0..MaxRetry /\ <<c, job[c]>> \in pending \cap backgrounded
        /\ silent' = silent \cup {<<c, job[c]>>} /\ muted' = muted \cup {c}
        /\ UNCHANGED <<request, backgrounded, pending, issued, notices, job>>
    BY <1>4 DEF AgentStops, Controllable, jobVars, TypeOK
  <2>2. c \in issued /\ <<c, 0>> \notin (request \cup pending) \ backgrounded
    <3>1. c \in issued
      BY <2>1 DEF Entities, IssuedFirst
    <3>2. <<c, 0>> \notin (request \cup pending) \ backgrounded
      BY <2>1 DEF Entities, ForegroundIsAlone
    <3> QED BY <3>1, <3>2
  <2> QED BY <2>1, <2>2 DEF Notifying, Tracked
<1>5. ASSUME NEW c \in Calls, WatchdogRetries(c)
      PROVE  Notifying'
  <2>1. PICK k \in 1..MaxRetry :
           /\ k = job[c] + 1 /\ job[c] \in 0..MaxRetry /\ job[c] # NoJob
           /\ <<c, job[c]>> \in pending \cap backgrounded
           /\ <<c, k>> \notin request \cup pending
           /\ silent' = silent \cup {<<c, job[c]>>}
           /\ request' = request \cup {<<c, k>>} /\ backgrounded' = backgrounded \cup {<<c, k>>}
           /\ job' = [job EXCEPT ![c] = k]
           /\ UNCHANGED <<pending, issued, notices, muted>>
    BY <1>5, RetryIs
  <2>2. PICK new \in {<<c, k>>} : new = <<c, k>> /\ new[1] = c /\ new[2] = k
    <3>1. <<c, k>>[1] = c /\ <<c, k>>[2] = k
      OBVIOUS
    <3> QED BY <3>1
  <2>3. k > 0 /\ job \in [Calls -> {NoJob} \cup (0..MaxRetry)]
    BY BridgeAssumption DEF TypeOK
  <2>4. \A i \in backgrounded : i \in Ids /\ i[1] \in Calls /\ i = <<i[1], i[2]>>
    BY DEF TypeOK, Ids
  <2>5. \A i \in backgrounded' \ silent' : i = new \/ (i \in backgrounded \ silent /\ i[1] # c)
    <3> SUFFICES ASSUME NEW i \in backgrounded' \ silent', i # new, i[1] = c
                 PROVE  FALSE
      BY <2>1, <2>2
    <3>1. i \in backgrounded \ silent /\ i # <<c, job[c]>>
      BY <2>1, <2>2
    <3>2. Tracked(i)
      BY <3>1, <2>1 DEF Notifying
    <3> QED BY <3>1, <3>2, <2>4 DEF Tracked
  <2>6. silent' \subseteq backgrounded' \cap pending'
    BY <2>1 DEF Notifying
  <2>7. \A i \in backgrounded' \ silent' : job'[i[1]] # NoJob => Tracked(i)'
    <3>1. job'[c] = k /\ \A d \in Calls \ {c} : job'[d] = job[d]
      BY <2>1, <2>3
    <3>2. Tracked(new)'
      BY <3>1, <2>2 DEF Tracked
    <3>3. ASSUME NEW i \in backgrounded \ silent, i[1] # c, job'[i[1]] # NoJob
          PROVE  Tracked(i)'
      BY <3>1, <3>3, <2>4 DEF Notifying, Tracked
    <3> QED BY <3>2, <3>3, <2>5
  <2>8. \A i, j \in backgrounded' \ silent' : i[1] = j[1] => i = j
    BY <2>2, <2>5 DEF Notifying
  <2>9. \A i \in request' \cap backgrounded' : i[2] > 0
    <3> SUFFICES ASSUME NEW i \in request' \cap backgrounded'
                 PROVE  i[2] > 0
      OBVIOUS
    <3>1. CASE i = new
      BY <3>1, <2>2, <2>3
    <3>2. CASE i # new
      <4>1. i \in request \cap backgrounded
        BY <3>2, <2>1, <2>2
      <4> QED BY <4>1 DEF Notifying
    <3> QED BY <3>1, <3>2
  <2>10. ASSUME NEW d \in Calls, d \notin issued' \/ <<d, 0>> \in (request' \cup pending') \ backgrounded'
         PROVE  notices'[d] = 0 /\ d \notin muted'
    <3>1. d \notin issued \/ <<d, 0>> \in (request \cup pending) \ backgrounded
      BY <2>1, <2>10
    <3> QED BY <3>1, <2>1 DEF Notifying
  <2> QED BY <2>6, <2>7, <2>8, <2>9, <2>10 DEF Notifying
<1>6. CASE AutoBackground
  <2>1. /\ \A i \in Overrun : /\ i \in pending /\ i \notin backgrounded /\ i[2] = 0
                              /\ i = <<i[1], 0>> /\ i[1] \in Calls /\ job'[i[1]] = 0
                              /\ \A j \in request \cup pending : j[1] = i[1] => j = i
        /\ \A c \in Calls : <<c, 0>> \notin Overrun => job'[c] = job[c]
        /\ backgrounded' = backgrounded \cup Overrun
        /\ UNCHANGED <<issued, request, pending, silent, notices, muted>>
    BY <1>6, OverrunIs
  <2>2. backgrounded \subseteq request \cup pending /\ request \cap pending = {}
    BY DEF Entities, OneEntity
  <2>3. \A i \in backgrounded : i[1] \in Calls
    BY DEF TypeOK, Ids
  <2>4. \A i \in backgrounded : <<i[1], 0>> \notin Overrun
    BY <2>1, <2>2
  <2>5. \A i \in Overrun, j \in backgrounded : i[1] # j[1]
    BY <2>1, <2>2
  <2>6. \A i \in backgrounded' \ silent' : job'[i[1]] # NoJob => Tracked(i)'
    <3> SUFFICES ASSUME NEW i \in backgrounded' \ silent', job'[i[1]] # NoJob
                 PROVE  Tracked(i)'
      OBVIOUS
    <3>1. CASE i \in Overrun
      BY <3>1, <2>1 DEF Tracked
    <3>2. CASE i \notin Overrun
      <4>1. i \in backgrounded \ silent /\ job'[i[1]] = job[i[1]]
        BY <3>2, <2>1, <2>3, <2>4
      <4> QED BY <4>1 DEF Notifying, Tracked
    <3> QED BY <3>1, <3>2
  <2>7. \A i, j \in backgrounded' \ silent' : i[1] = j[1] => i = j
    <3> SUFFICES ASSUME NEW i \in backgrounded' \ silent', NEW j \in backgrounded' \ silent', i[1] = j[1]
                 PROVE  i = j
      OBVIOUS
    <3>1. CASE i \in Overrun /\ j \in Overrun
      BY <3>1, <2>1
    <3>2. CASE i \in backgrounded /\ j \in backgrounded
      BY <3>2, <2>1 DEF Notifying
    <3> QED BY <3>1, <3>2, <2>1, <2>5
  <2>8. silent' \subseteq backgrounded' \cap pending'
    BY <2>1 DEF Notifying
  <2>9. \A i \in request' \cap backgrounded' : i[2] > 0
    BY <2>1, <2>2 DEF Notifying
  <2>10. \A c \in Calls : c \notin issued' \/ <<c, 0>> \in (request' \cup pending') \ backgrounded' =>
           notices'[c] = 0 /\ c \notin muted'
    BY <2>1 DEF Notifying
  <2> QED BY <2>6, <2>7, <2>8, <2>9, <2>10 DEF Notifying
<1>7. CASE IngestRecv
  <2>1. /\ UNCHANGED <<issued, request, pending, backgrounded, silent, job, muted>>
        /\ \/ notices' = notices
           \/ \E i \in pending \cap backgrounded : notices' = [notices EXCEPT ![i[1]] = @ + 1]
    BY <1>7, LandIs
  <2>2. CASE notices' = notices
    BY <2>1, <2>2, <1>1
  <2>3. ASSUME NEW i \in pending \cap backgrounded, notices' = [notices EXCEPT ![i[1]] = @ + 1]
        PROVE  Notifying'
    <3>1. \A c \in Calls : c # i[1] => notices'[c] = notices[c]
      BY <2>3 DEF TypeOK
    <3>2. i[1] \in issued /\ <<i[1], 0>> \notin (request \cup pending) \ backgrounded
      <4>1. i[1] \in issued
        BY TrackedIsBackground
      <4>2. ASSUME <<i[1], 0>> \in (request \cup pending) \ backgrounded
            PROVE  FALSE
        <5>1. PICK j \in request \cup pending : j = <<i[1], 0>> /\ j[1] = i[1]
          BY <4>2
        <5>2. i = j
          BY <4>2, <5>1, TrackedIsBackground
        <5> QED BY <4>2, <5>1, <5>2
      <4> QED BY <4>1, <4>2
    <3> QED BY <2>1, <3>1, <3>2 DEF Notifying, Tracked
  <2> QED BY <2>1, <2>2, <2>3
<1>8. CASE IngestSync
  BY <1>8 DEF IngestSync, jobVars, outVars, Notifying, Tracked
<1>9. ASSUME NEW ts \in SUBSET Tasks, StopTask(ts)
      PROVE  Notifying'
  <2>1. /\ request' = request \ Withdrawn(ts) /\ backgrounded' = backgrounded \ Withdrawn(ts)
        /\ Withdrawn(ts) \subseteq request
        /\ UNCHANGED <<issued, pending, silent, job, notices, muted>>
    BY <1>9 DEF StopTask, Withdrawn, jobVars, outVars
  <2>2. silent \cap Withdrawn(ts) = {}
    BY <2>1 DEF Notifying, Entities, OneEntity
  <2>3. Withdrawn(ts) \cap pending = {}
    BY <2>1 DEF Entities, OneEntity
  <2> HIDE DEF Withdrawn
  <2> QED BY <2>1, <2>2, <2>3 DEF Notifying, Tracked
<1>10. ASSUME NEW held \in SUBSET request, AsyncDispatch(held)
       PROVE  Notifying'
  <2>1. PICK dead \in SUBSET request :
          /\ request' = held /\ held \subseteq request \ dead
          /\ pending' = pending \cup (request \ (dead \cup held))
          /\ backgrounded' = backgrounded \ dead
          /\ UNCHANGED <<issued, silent, job, notices, muted>>
    <3>1. {i \in request : OwnerOf(i) \in ended} \in SUBSET request
      OBVIOUS
    <3> QED BY <3>1, <1>10 DEF AsyncDispatch, jobVars, outVars
  <2>2. request \cap pending = {} /\ silent \cap dead = {}
    BY <2>1 DEF Notifying, Entities, OneEntity
  <2> QED BY <2>1, <2>2 DEF Notifying, Tracked
<1>11. ASSUME NEW c \in Calls, LlmRequests(c)
       PROVE  Notifying'
  <2>1. /\ c \notin issued /\ issued' = issued \cup {c} /\ request' = request \cup {<<c, 0>>}
        /\ UNCHANGED <<pending, backgrounded, silent, job, notices, muted>>
    BY <1>11 DEF LlmRequests, entityVars, jobVars, outVars
  <2>2. <<c, 0>> \notin backgrounded
    <3>1. <<c, 0>> \notin request \cup pending
      BY <2>1, BridgeAssumption DEF Entities, IssuedFirst
    <3> QED BY <3>1 DEF Entities, OneEntity
  <2>3. \A d \in Calls : <<d, 0>> = <<c, 0>> => d = c
    OBVIOUS
  <2> QED BY <2>1, <2>2, <2>3 DEF Notifying, Tracked
<1> QED
  BY <1>2, <1>3, <1>4, <1>5, <1>6, <1>7, <1>8, <1>9, <1>10, <1>11 DEF Next, Frame, Environment

-----------------------------------------------------------------------------
(* Results land exactly once, as long as no call outlives its timeout.     *)

NoLost == \A i \in Ids : age[i] # "lost"

\* Until the sweeper gives up on a call exactly one party owes its result: its
\* worker, the effect waiting for commit, or one message of the channel.
Coming ==
  /\ \A m, n \in DOMAIN channel : channel[m].id = channel[n].id => m = n
  /\ \A n \in DOMAIN channel : channel[n].id \in Settling \ (running \cup effects)
  /\ running \cap effects = {}
  /\ running \cup effects \subseteq Settling

LEMMA ComingInit == Init => Coming
<1> SUFFICES ASSUME Init
             PROVE  Coming
  OBVIOUS
<1>1. channel = <<>> /\ running = {} /\ effects = {}
  BY DEF Init
<1>2. DOMAIN channel = {}
  BY <1>1
<1> QED BY <1>1, <1>2 DEF Coming

\* A message of a party that owed the result is the only one of its call.
LEMMA ComingOnAppend ==
  ASSUME TypeOK, TypeOK', Coming, NEW m \in Message,
         m.id \in running \cup effects,
         channel' = Append(channel, m), Settling' = Settling,
         running' \cup effects' = (running \cup effects) \ {m.id},
         running' \cap effects' = {}
  PROVE  Coming'
<1>1. channel \in Seq(Message) /\ Len(channel) \in Nat /\ DOMAIN channel = 1..Len(channel)
  BY DEF TypeOK
<1>2. DOMAIN channel' = 1..Len(channel) + 1 /\ channel'[Len(channel) + 1] = m
  BY <1>1
<1>3. \A n \in 1..Len(channel) : channel'[n] = channel[n]
  BY <1>1
<1>4. \A n \in DOMAIN channel : channel[n].id # m.id
  BY DEF Coming
<1>5. \A n \in DOMAIN channel' :
        \/ n \in DOMAIN channel /\ channel'[n] = channel[n]
        \/ n = Len(channel) + 1 /\ channel'[n] = m
  BY <1>1, <1>2, <1>3
<1>6. m.id \in Settling
  BY DEF Coming
<1>7. \A i, j \in DOMAIN channel' : channel'[i].id = channel'[j].id => i = j
  BY <1>4, <1>5 DEF Coming
<1>8. \A n \in DOMAIN channel' : channel'[n].id \in Settling' \ (running' \cup effects')
  BY <1>5, <1>6 DEF Coming
<1>9. running' \cup effects' \subseteq Settling'
  BY DEF Coming
<1> HIDE DEF Settling
<1> QED BY <1>7, <1>8, <1>9 DEF Coming

\* Once the head is received no other message of its call is in the channel.
LEMMA ComingOnTail ==
  ASSUME TypeOK, Coming, channel # <<>>, NEW q, q = Tail(channel)
  PROVE  /\ Head(channel) \in Message
         /\ Head(channel).id \in Settling \ (running \cup effects)
         /\ \A m, n \in DOMAIN q : q[m].id = q[n].id => m = n
         /\ \A n \in DOMAIN q : q[n].id \in Settling \ (running \cup effects) /\ q[n].id # Head(channel).id
<1>1. channel \in Seq(Message) /\ Len(channel) \in Nat \ {0} /\ Head(channel) = channel[1]
      /\ DOMAIN channel = 1..Len(channel)
  BY DEF TypeOK
<1>2. q \in Seq(Message) /\ Len(q) = Len(channel) - 1 /\ DOMAIN q = 1..Len(channel) - 1
  BY <1>1
<1>3. \A n \in DOMAIN q : n + 1 \in DOMAIN channel /\ q[n] = channel[n + 1] /\ n + 1 # 1
  BY <1>1, <1>2
<1>4. 1 \in DOMAIN channel /\ Head(channel) \in Message
  BY <1>1
<1>5. \A m, n \in DOMAIN q : q[m].id = q[n].id => m = n
  <2> SUFFICES ASSUME NEW m \in DOMAIN q, NEW n \in DOMAIN q, q[m].id = q[n].id
               PROVE  m = n
    OBVIOUS
  <2>1. m + 1 = n + 1
    BY <1>3 DEF Coming
  <2> QED BY <2>1, <1>2
<1>6. \A n \in DOMAIN q : q[n].id # Head(channel).id
  BY <1>1, <1>3, <1>4 DEF Coming
<1> QED BY <1>1, <1>3, <1>4, <1>5, <1>6 DEF Coming

LEMMA ComingStep ==
  ASSUME TypeOK, TypeOK', OneEntity, NoLost, Coming, [Next]_vars
  PROVE  Coming'
<1>1. ASSUME channel' = channel, Settling' = Settling, running' = running, effects' = effects
      PROVE  Coming'
  BY <1>1 DEF Coming
<1>2. CASE \/ ControlDone \/ Monitor \/ AutoBackground \/ IngestDone \/ SweepDone \/ CommitDone
           \/ CancelMonitor \/ ClearStop \/ Cleanup
           \/ \E c \in Calls : AgentStops(c) \/ WatchdogStops(c) \/ WatchdogRetries(c) \/ LlmRequests(c)
           \/ \E t \in Tasks : TaskEnds(t)
           \/ \E late \in SUBSET Ids : Tick(late)
           \/ \E ts \in SUBSET Tasks : StopTask(ts)
           \/ UNCHANGED vars
  <2>1. UNCHANGED <<pending, despawned, channel, running, effects>>
    BY <1>2 DEF ControlDone, Monitor, AutoBackground, IngestDone, SweepDone, CommitDone, CancelMonitor,
       ClearStop, Cleanup, AgentStops, WatchdogStops, WatchdogRetries, LlmRequests, TaskEnds, Tick, StopTask,
       vars, entityVars, workerVars, deferVars
  <2> QED BY <2>1, <1>1 DEF Settling
<1>3. CASE IngestSync
  <2>1. channel' = channel /\ running' = running /\ effects' = effects /\ Settling' = Settling
    BY <1>3 DEF IngestSync, workerVars, Settling
  <2> QED BY <2>1, <1>1
<1>4. ASSUME NEW i \in Ids, NEW p \in {"completed", "effect"}, WorkerFinish(i, p)
      PROVE  Coming'
  <2>1. i \in running /\ running' = running \ {i} /\ effects' = effects /\ Settling' = Settling
        /\ channel' = Append(channel, Completed(i, p))
    BY <1>4 DEF WorkerFinish, entityVars, deferVars, Settling
  <2>2. Completed(i, p) \in Message /\ Completed(i, p).id = i
    BY DEF Completed, Message, Payloads
  <2>3. running' \cup effects' = (running \cup effects) \ {i} /\ running' \cap effects' = {}
    BY <2>1 DEF Coming
  <2> HIDE DEF Settling
  <2> QED BY <2>1, <2>2, <2>3, ComingOnAppend
<1>5. ASSUME NEW i \in Ids, CommitOne(i)
      PROVE  Coming'
  <2>1. i \in effects /\ effects' = effects \ {i} /\ running' = running /\ Settling' = Settling
        /\ channel' = Append(channel, Completed(i, "completed"))
    BY <1>5 DEF CommitOne, entityVars, deferVars, Settling
  <2>2. Completed(i, "completed") \in Message /\ Completed(i, "completed").id = i
    BY DEF Completed, Message, Payloads
  <2>3. running' \cup effects' = (running \cup effects) \ {i} /\ running' \cap effects' = {}
    BY <2>1 DEF Coming
  <2> QED BY <2>1, <2>2, <2>3, ComingOnAppend
<1>6. ASSUME NEW i \in Ids, SweepOne(i)
      PROVE  Coming'
  BY <1>6 DEF SweepOne, NoLost
<1>7. CASE IngestRecv
  <2> DEFINE h == Head(channel).id
  <2>1. channel # <<>> /\ channel' = Tail(channel) /\ running' = running /\ pending' = pending
    BY <1>7 DEF IngestRecv, entityVars
  <2>2. /\ h \in Settling \ (running \cup effects)
        /\ \A m, n \in DOMAIN channel' : channel'[m].id = channel'[n].id => m = n
        /\ \A n \in DOMAIN channel' : channel'[n].id \in Settling \ (running \cup effects) /\ channel'[n].id # h
    BY <2>1, ComingOnTail
  <2>3. \/ despawned' = despawned /\ effects' = effects \cup {h}
        \/ despawned' = despawned \cup {h} /\ effects' = effects
    <3>1. h \in pending
      BY <2>2 DEF Settling
    <3> QED BY <1>7, <3>1 DEF IngestRecv, ParkEffect, Land
  <2>4. \/ Settling' = Settling /\ effects' = effects \cup {h}
        \/ Settling' = Settling \ {h} /\ effects' = effects
    BY <2>1, <2>3 DEF Settling
  <2> HIDE DEF Settling, h
  <2> QED BY <2>1, <2>2, <2>4 DEF Coming
<1>8. ASSUME NEW held \in SUBSET request, AsyncDispatch(held)
      PROVE  Coming'
  <2>1. PICK parked \in SUBSET request :
          /\ pending' = pending \cup parked /\ running' = running \cup parked
          /\ UNCHANGED <<channel, despawned, effects>>
    <3>1. request \ ({i \in request : OwnerOf(i) \in ended} \cup held) \in SUBSET request
      OBVIOUS
    <3> QED BY <3>1, <1>8 DEF AsyncDispatch, deferVars
  <2>2. parked \cap pending = {} /\ despawned \subseteq pending
    BY DEF OneEntity, TypeOK
  <2>3. Settling' = Settling \cup parked /\ parked \cap Settling = {}
    BY <2>1, <2>2 DEF Settling
  <2> HIDE DEF Settling
  <2> QED BY <2>1, <2>3 DEF Coming
<1> QED BY <1>2, <1>3, <1>4, <1>5, <1>6, <1>7, <1>8 DEF Next, Frame, Environment

\* How often a call was answered and notified: at most once for each attempt
\* that has settled.
Counted ==
  /\ \A c \in Calls : notices[c] <= MaxRetry + 1 /\ (job[c] # NoJob => notices[c] <= job[c] + 1)
  /\ \A i \in (request \cup Settling) \cap (backgrounded \ silent) : notices[i[1]] <= i[2]
  /\ \A i \in Ids : answers[i] <= 1

LEMMA CountedInit == Init => Counted
<1> SUFFICES ASSUME Init
             PROVE  Counted
  OBVIOUS
<1>1. notices = [c \in Calls |-> 0] /\ answers = [i \in Ids |-> 0] /\ backgrounded = {}
      /\ \A c \in Calls : job[c] = NoJob
  BY DEF Init
<1>2. 0 <= MaxRetry + 1
  BY BridgeAssumption
<1> QED BY <1>1, <1>2 DEF Counted

\* One landing: the call had not been answered, or not more often notified than
\* it had attempts before this one.
LEMMA CountedLand ==
  ASSUME TypeOK, TypeOK', Entities, Notifying, Answered, Coming, Counted, IngestRecv
  PROVE  Counted'
<1>1. /\ channel # <<>>
      /\ UNCHANGED <<issued, request, pending, backgrounded, silent, job>>
      /\ \/ UNCHANGED <<despawned, answers, notices, effects>> /\ Head(channel).id \notin pending
         \/ /\ Head(channel).id \in pending /\ effects' = effects \cup {Head(channel).id}
            /\ UNCHANGED <<despawned, answers, notices>>
         \/ \E i \in pending :
              /\ i = Head(channel).id /\ despawned' = despawned \cup {i} /\ effects' = effects
              /\ \/ i \in backgrounded \ silent /\ notices' = [notices EXCEPT ![i[1]] = @ + 1] /\ answers' = answers
                 \/ i \in backgrounded /\ i \in silent /\ notices' = notices /\ answers' = answers
                 \/ i \notin backgrounded /\ notices' = notices /\ answers' = [answers EXCEPT ![i] = @ + 1]
  BY LandIs
<1>2. Head(channel).id \in Settling
  BY <1>1, ComingOnTail
<1>3. CASE UNCHANGED <<despawned, answers, notices>>
  BY <1>1, <1>3 DEF Counted, Settling
<1>4. ASSUME NEW i \in pending, i \in Settling, despawned' = despawned \cup {i},
             \/ i \in backgrounded \ silent /\ notices' = [notices EXCEPT ![i[1]] = @ + 1] /\ answers' = answers
             \/ i \in backgrounded /\ i \in silent /\ notices' = notices /\ answers' = answers
             \/ i \notin backgrounded /\ notices' = notices /\ answers' = [answers EXCEPT ![i] = @ + 1]
      PROVE  Counted'
  <2>1. /\ i \in Ids /\ i[1] \in Calls /\ i[2] \in 0..MaxRetry
        /\ i \notin backgrounded => i[2] = 0
    BY TrackedIsBackground
  <2>2. Settling' = Settling \ {i} /\ i \notin request
    BY <1>1, <1>4 DEF Settling, Entities, OneEntity
  <2>3. CASE i \in backgrounded \ silent /\ notices' = [notices EXCEPT ![i[1]] = @ + 1] /\ answers' = answers
    <3>1. notices \in [Calls -> Nat]
      BY DEF TypeOK
    <3>2. notices[i[1]] <= i[2]
      BY <1>4, <2>3 DEF Counted
    <3>3. notices'[i[1]] <= i[2] + 1 /\ \A c \in Calls \ {i[1]} : notices'[c] = notices[c]
      BY <3>1, <3>2, <2>1, <2>3
    <3>4. job[i[1]] # NoJob => job[i[1]] = i[2]
      BY <2>3 DEF Notifying, Tracked
    <3>5. ASSUME NEW c \in Calls
          PROVE  notices'[c] <= MaxRetry + 1 /\ (job'[c] # NoJob => notices'[c] <= job'[c] + 1)
      <4>1. CASE c = i[1]
        <5>1. notices'[c] \in Nat /\ notices'[c] <= i[2] + 1 /\ i[2] + 1 <= MaxRetry + 1
          BY <3>3, <4>1, <2>1, BridgeAssumption DEF TypeOK
        <5>2. notices'[c] <= MaxRetry + 1
          BY <5>1, <2>1, BridgeAssumption
        <5> QED BY <5>1, <5>2, <3>4, <4>1, <1>1
      <4>2. CASE c # i[1]
        BY <4>2, <3>3, <1>1 DEF Counted
      <4> QED BY <4>1, <4>2
    <3>6. ASSUME NEW j \in (request' \cup Settling') \cap (backgrounded' \ silent')
          PROVE  notices'[j[1]] <= j[2]
      <4>1. j \in (request \cup Settling) \cap (backgrounded \ silent) /\ j # i
        BY <3>6, <1>1, <2>2
      <4>2. j[1] # i[1]
        BY <4>1, <2>3 DEF Notifying
      <4>3. j[1] \in Calls
        BY <4>1 DEF TypeOK, Ids
      <4> QED BY <4>1, <4>2, <4>3, <3>3 DEF Counted
    <3>7. \A j \in Ids : answers'[j] <= 1
      BY <2>3 DEF Counted
    <3> QED BY <3>5, <3>6, <3>7 DEF Counted
  <2>4. CASE i \in backgrounded /\ i \in silent /\ notices' = notices /\ answers' = answers
    BY <1>1, <2>2, <2>4 DEF Counted
  <2>5. CASE i \notin backgrounded /\ notices' = notices /\ answers' = [answers EXCEPT ![i] = @ + 1]
    <3>1. answers[i] = 0
      BY <1>4, <2>1, <2>5 DEF Answered, Unanswered
    <3>2. answers'[i] = 1 /\ \A j \in Ids \ {i} : answers'[j] = answers[j]
      BY <3>1, <2>1, <2>5 DEF TypeOK
    <3>3. \A j \in Ids : answers'[j] <= 1
      BY <3>2 DEF Counted
    <3> QED BY <3>3, <1>1, <2>2, <2>5 DEF Counted
  <2> QED BY <1>4, <2>3, <2>4, <2>5
<1> QED BY <1>1, <1>2, <1>3, <1>4

LEMMA CountedStep ==
  ASSUME TypeOK, TypeOK', Phases, Entities, Notifying, Answered, Coming, Counted, [Next]_vars
  PROVE  Counted'
<1>1. ASSUME request' \cup Settling' \subseteq request \cup Settling,
             backgrounded' \ silent' \subseteq backgrounded \ silent,
             notices' = notices, answers' = answers,
             \A c \in Calls : job'[c] = job[c] \/ job'[c] = NoJob
      PROVE  Counted'
  <2>1. ASSUME NEW c \in Calls
        PROVE  notices'[c] <= MaxRetry + 1 /\ (job'[c] # NoJob => notices'[c] <= job'[c] + 1)
    BY <1>1, <2>1 DEF Counted
  <2>2. \A i \in (request' \cup Settling') \cap (backgrounded' \ silent') : notices'[i[1]] <= i[2]
    BY <1>1 DEF Counted
  <2> QED BY <1>1, <2>1, <2>2 DEF Counted
<1>2. CASE \/ ControlDone \/ IngestDone \/ SweepDone \/ CommitDone \/ CancelMonitor \/ ClearStop
           \/ Monitor \/ Cleanup
           \/ \E i \in Ids : SweepOne(i) \/ CommitOne(i)
           \/ \E i \in Ids, p \in {"completed", "effect"} : WorkerFinish(i, p)
           \/ \E t \in Tasks : TaskEnds(t)
           \/ \E late \in SUBSET Ids : Tick(late)
           \/ \E c \in Calls : WatchdogStops(c)
           \/ UNCHANGED vars
  <2>1. UNCHANGED <<silent, backgrounded, pending, despawned, request, answers, notices>>
    BY <1>2 DEF ControlDone, IngestDone, SweepDone, CommitDone, CancelMonitor, ClearStop, SweepOne, Monitor, Cleanup,
       CommitOne, WorkerFinish, TaskEnds, Tick, WatchdogStops, vars, entityVars, deferVars, outVars
  <2>2. ASSUME NEW c \in Calls
        PROVE  job'[c] = job[c] \/ job'[c] = NoJob
    BY <1>2 DEF ControlDone, IngestDone, SweepDone, CommitDone, CancelMonitor, ClearStop, SweepOne, Monitor, Cleanup,
       CommitOne, WorkerFinish, TaskEnds, Tick, WatchdogStops, vars, jobVars
  <2> QED BY <2>1, <2>2, <1>1 DEF Settling
<1>3. ASSUME NEW c \in Calls, AgentStops(c)
      PROVE  Counted'
  <2>1. UNCHANGED <<backgrounded, pending, despawned, request, answers, notices, job>> /\ silent \subseteq silent'
    BY <1>3 DEF AgentStops, jobVars, deferVars
  <2> QED BY <2>1, <1>1 DEF Settling
<1>4. ASSUME NEW c \in Calls, WatchdogRetries(c)
      PROVE  Counted'
  <2>1. PICK k \in 1..MaxRetry :
           /\ k = job[c] + 1 /\ job[c] \in 0..MaxRetry /\ job[c] # NoJob
           /\ silent' = silent \cup {<<c, job[c]>>}
           /\ request' = request \cup {<<c, k>>} /\ backgrounded' = backgrounded \cup {<<c, k>>}
           /\ job' = [job EXCEPT ![c] = k]
           /\ UNCHANGED <<pending, despawned, answers, notices>>
    BY <1>4, RetryIs
  <2>2. notices \in [Calls -> Nat] /\ job \in [Calls -> {NoJob} \cup (0..MaxRetry)] /\ MaxRetry \in Nat
    BY BridgeAssumption DEF TypeOK
  <2>3. notices[c] <= k
    BY <2>1 DEF Counted
  <2>4. job'[c] = k /\ \A d \in Calls \ {c} : job'[d] = job[d]
    BY <2>1, <2>2
  <2>5. ASSUME NEW d \in Calls
        PROVE  notices'[d] <= MaxRetry + 1 /\ (job'[d] # NoJob => notices'[d] <= job'[d] + 1)
    <3>1. CASE d = c
      BY <3>1, <2>1, <2>2, <2>3, <2>4 DEF Counted
    <3>2. CASE d # c
      BY <3>2, <2>1, <2>4 DEF Counted
    <3> QED BY <3>1, <3>2
  <2>6. ASSUME NEW i \in (request' \cup Settling') \cap (backgrounded' \ silent')
        PROVE  notices'[i[1]] <= i[2]
    <3>1. Settling' = Settling
      BY <2>1 DEF Settling
    <3>2. <<c, k>>[1] = c /\ <<c, k>>[2] = k
      OBVIOUS
    <3>3. CASE i = <<c, k>>
      BY <3>2, <3>3, <2>1, <2>3
    <3>4. CASE i # <<c, k>>
      <4>1. i \in (request \cup Settling) \cap (backgrounded \ silent)
        BY <3>1, <3>4, <2>1, <2>6
      <4> QED BY <4>1, <2>1 DEF Counted
    <3> QED BY <3>3, <3>4
  <2> QED BY <2>1, <2>5, <2>6 DEF Counted
<1>5. CASE AutoBackground
  <2>1. /\ \A i \in Overrun : /\ i \in pending /\ i \notin backgrounded /\ i \in Ids /\ i[2] = 0
                              /\ i = <<i[1], 0>> /\ i[1] \in Calls /\ job'[i[1]] = 0
        /\ \A c \in Calls : <<c, 0>> \notin Overrun => job'[c] = job[c]
        /\ backgrounded' = backgrounded \cup Overrun
        /\ "autobg" \in todo
        /\ UNCHANGED <<issued, request, pending, silent, despawned, notices, muted>>
    BY <1>5, OverrunIs
  <2>2. despawned = {}
    BY <2>1 DEF Phases
  <2>3. \A i \in Overrun : notices[i[1]] = 0
    BY <2>1 DEF Notifying
  <2>4. \A i \in Overrun : answers[i] = 0
    BY <2>1, <2>2 DEF Answered, Unanswered, Settling
  <2>5. ASSUME NEW c \in Calls
        PROVE  notices'[c] <= MaxRetry + 1 /\ (job'[c] # NoJob => notices'[c] <= job'[c] + 1)
    <3>1. CASE <<c, 0>> \in Overrun
      <4>1. <<c, 0>>[1] = c
        OBVIOUS
      <4>2. job'[c] = 0 /\ notices'[c] = 0
        BY <4>1, <3>1, <2>1, <2>3
      <4> QED BY <4>2, BridgeAssumption
    <3>2. CASE <<c, 0>> \notin Overrun
      BY <3>2, <2>1 DEF Counted
    <3> QED BY <3>1, <3>2
  <2>6. ASSUME NEW i \in (request' \cup Settling') \cap (backgrounded' \ silent')
        PROVE  notices'[i[1]] <= i[2]
    <3>1. CASE i \in Overrun
      BY <3>1, <2>1, <2>3
    <3>2. CASE i \notin Overrun
      <4>1. i \in (request \cup Settling) \cap (backgrounded \ silent)
        BY <3>2, <2>1, <2>6 DEF Settling
      <4> QED BY <4>1, <2>1 DEF Counted
    <3> QED BY <3>1, <3>2
  <2>7. ASSUME NEW i \in Ids
        PROVE  answers'[i] <= 1
    <3>1. answers'[i] = answers[i] + IF i \in Overrun THEN 1 ELSE 0
      BY <1>5 DEF AutoBackground
    <3>2. CASE i \in Overrun
      BY <3>1, <3>2, <2>4
    <3>3. CASE i \notin Overrun
      <4>1. answers[i] \in Nat /\ answers[i] <= 1
        BY DEF TypeOK, Counted
      <4> QED BY <3>1, <3>3, <4>1
    <3> QED BY <3>2, <3>3
  <2> QED BY <2>5, <2>6, <2>7 DEF Counted
<1>6. CASE IngestRecv
  BY <1>6, CountedLand
<1>7. CASE IngestSync
  <2>1. /\ pending' = pending \ despawned /\ despawned' = {}
        /\ backgrounded' = backgrounded \ despawned /\ silent' = silent \ despawned
        /\ UNCHANGED <<request, answers, notices, job>>
    BY <1>7 DEF IngestSync, jobVars, outVars
  <2> QED BY <2>1, <1>1 DEF Settling
<1>8. ASSUME NEW ts \in SUBSET Tasks, StopTask(ts)
      PROVE  Counted'
  <2>1. /\ request' \subseteq request /\ backgrounded' \subseteq backgrounded
        /\ UNCHANGED <<pending, despawned, silent, job, notices, answers>>
    BY <1>8 DEF StopTask, jobVars, deferVars, outVars
  <2> QED BY <2>1, <1>1 DEF Settling
<1>9. ASSUME NEW held \in SUBSET request, AsyncDispatch(held)
      PROVE  Counted'
  <2>1. /\ request' \cup pending' \subseteq request \cup pending /\ backgrounded' \subseteq backgrounded
        /\ UNCHANGED <<despawned, silent, job, notices, answers>>
    BY <1>9 DEF AsyncDispatch, jobVars, deferVars, outVars
  <2>2. request' \subseteq request
    BY <1>9 DEF AsyncDispatch
  <2> QED BY <2>1, <2>2, <1>1 DEF Settling
<1>10. ASSUME NEW c \in Calls, LlmRequests(c)
       PROVE  Counted'
  <2>1. /\ c \notin issued /\ request' = request \cup {<<c, 0>>}
        /\ UNCHANGED <<pending, despawned, backgrounded, silent, job, notices, answers>>
    BY <1>10 DEF LlmRequests, entityVars, jobVars, deferVars, outVars
  <2>2. 0 \in 0..MaxRetry
    BY BridgeAssumption
  <2>3. <<c, 0>> \notin backgrounded
    BY <2>1, <2>2 DEF Entities, IssuedFirst, OneEntity
  <2>4. (request' \cup Settling') \cap (backgrounded' \ silent') \subseteq
          (request \cup Settling) \cap (backgrounded \ silent)
    BY <2>1, <2>3 DEF Settling
  <2> QED BY <2>1, <2>4 DEF Counted
<1> QED BY <1>2, <1>3, <1>4, <1>5, <1>6, <1>7, <1>8, <1>9, <1>10 DEF Next, Frame, Environment

\* What the owner of a landed call sees.
LEMMA TimelyFacts ==
  ASSUME TypeOK, Entities, Answered, Coming, Counted
  PROVE  OneResult /\ AnswerIsFinal
<1>1. OneResult
  BY DEF Counted, OneResult
<1>2. ASSUME NEW i \in Ids \ backgrounded, answers[i] > 0, i \in running \cup effects \/ EffectSent(i)
      PROVE  FALSE
  <2>1. i \in Settling
    <3>1. CASE i \in running \cup effects
      BY <3>1 DEF Coming
    <3>2. CASE EffectSent(i)
      <4>1. PICK n \in DOMAIN channel : channel[n].id = i
        BY <3>2 DEF EffectSent, Completed
      <4> QED BY <4>1 DEF Coming
    <3> QED BY <1>2, <3>1, <3>2
  <2>2. i \in pending
    BY <2>1 DEF Settling
  <2>3. i[2] = 0
    BY <2>2, TrackedIsBackground
  <2>4. answers[i] = 0
    BY <2>1, <2>3 DEF Answered, Unanswered
  <2> QED BY <1>2, <2>4
<1> QED BY <1>1, <1>2 DEF AnswerIsFinal

\* As long as no call outlives its timeout, results land exactly once and an
\* answer to the tool loop is final.
THEOREM ResultsAreTimely == Spec => TimelyAnswers
<1> DEFINE Timely == Coming /\ Counted
<1>1. Init => Notifying /\ Timely
  BY NotifyingInit, ComingInit, CountedInit
<1>2. BridgeInv /\ BridgeInv' /\ Notifying /\ [Next]_vars => Notifying'
  BY NotifyingStep DEF BridgeInv, Entities
<1>3. BridgeInv /\ BridgeInv' /\ Notifying /\ NoLost /\ Timely /\ [Next]_vars => Timely'
  <2> SUFFICES ASSUME BridgeInv, BridgeInv', Notifying, NoLost, Timely, [Next]_vars
               PROVE  Timely'
    OBVIOUS
  <2>1. TypeOK /\ TypeOK' /\ Phases /\ Entities /\ OneEntity /\ Answered
    BY DEF BridgeInv, Entities, Answered
  <2>2. Coming'
    BY <2>1, ComingStep
  <2>3. Counted'
    BY <2>1, CountedStep
  <2> QED BY <2>2, <2>3
<1>4. BridgeInv /\ Timely => OneResult /\ AnswerIsFinal
  BY TimelyFacts DEF BridgeInv, Entities, Answered
<1>5. NoLost <=> \A i \in Ids : age[i] # "lost"
  BY DEF NoLost
<1> HIDE DEF Timely
<1> QED BY <1>1, <1>2, <1>3, <1>4, <1>5, BridgeInvariant, PTL DEF Spec, TimelyAnswers

-----------------------------------------------------------------------------
(* A job retires only after its owner was notified or ended.               *)

\* A watchdog retry meets neither of the two controls it does not know of: a
\* /stop while it is queued, and the agent's stop of the attempt it replaces.
RetryCrossesNothing ==
  /\ StopMeetsNoRetry
  /\ \A c \in Calls : WatchdogRetries(c) => c \notin muted

\* The call is over for the monitor: neither parked nor queued.
Gone(c) == job[c] # NoJob /\ <<c, job[c]>> \notin pending \cup request

\* A stopped job is silenced in every attempt, the attempt a job tracks is
\* silenced for no other reason, and one that has landed, or is gone, was
\* notified unless it was stopped.
Retired ==
  /\ \A i \in backgrounded : i[1] \in muted => i \in silent
  /\ \A i \in silent : Tracked(i) => i[1] \in muted
  /\ \A i \in despawned : Tracked(i) /\ i[1] \notin muted => notices[i[1]] > 0
  /\ \A c \in Calls \ muted : Gone(c) => notices[c] > 0 \/ Owner[c] \in ended

LEMMA RetiredInit == Init => Retired
BY DEF Init, Retired, Gone

LEMMA RetiredLand ==
  ASSUME TypeOK, Entities, Notifying, Retired, IngestRecv
  PROVE  /\ Retired'
         /\ \A c \in muted : notices'[c] = notices[c]
<1>1. /\ UNCHANGED <<request, pending, backgrounded, silent, job, ended, muted>>
      /\ \/ UNCHANGED <<despawned, notices>>
         \/ \E i \in pending :
              /\ despawned' = despawned \cup {i}
              /\ \/ i \in backgrounded \ silent /\ notices' = [notices EXCEPT ![i[1]] = @ + 1]
                 \/ i \in backgrounded /\ i \in silent /\ notices' = notices
                 \/ i \notin backgrounded /\ notices' = notices
  BY LandIs
<1>2. CASE UNCHANGED <<despawned, notices>>
  BY <1>1, <1>2 DEF Retired, Gone, Tracked
<1>3. ASSUME NEW i \in pending, despawned' = despawned \cup {i},
             \/ i \in backgrounded \ silent /\ notices' = [notices EXCEPT ![i[1]] = @ + 1]
             \/ i \in backgrounded /\ i \in silent /\ notices' = notices
             \/ i \notin backgrounded /\ notices' = notices
      PROVE  Retired' /\ \A c \in muted : notices'[c] = notices[c]
  <2>1. /\ i[1] \in Calls
        /\ Tracked(i) => i \in backgrounded
    BY TrackedIsBackground
  <2>2. notices \in [Calls -> Nat] /\ muted \subseteq Calls
    BY DEF TypeOK
  <2>3. CASE i \in backgrounded \ silent /\ notices' = [notices EXCEPT ![i[1]] = @ + 1]
    <3>1. notices'[i[1]] > 0 /\ \A c \in Calls \ {i[1]} : notices'[c] = notices[c]
      BY <2>1, <2>2, <2>3
    <3>2. i[1] \notin muted
      BY <2>3 DEF Retired
    <3>3. ASSUME NEW j \in despawned', Tracked(j)', j[1] \notin muted'
          PROVE  notices'[j[1]] > 0
      <4>1. CASE j = i
        BY <3>1, <4>1
      <4>2. CASE j # i
        <5>1. j \in despawned /\ Tracked(j) /\ j[1] \notin muted /\ j[1] \in Calls
          BY <3>3, <4>2, <1>1, <1>3 DEF Tracked, TypeOK, Ids
        <5> QED BY <5>1, <3>1 DEF Retired
      <4> QED BY <4>1, <4>2
    <3>4. ASSUME NEW c \in Calls \ muted', Gone(c)'
          PROVE  notices'[c] > 0 \/ Owner[c] \in ended'
      BY <3>1, <3>4, <1>1 DEF Retired, Gone
    <3>5. /\ \A j \in backgrounded' : j[1] \in muted' => j \in silent'
          /\ \A j \in silent' : Tracked(j)' => j[1] \in muted'
      BY <1>1 DEF Retired, Tracked
    <3> QED BY <3>1, <3>2, <3>3, <3>4, <3>5, <2>2 DEF Retired
  <2>4. ASSUME i \notin backgrounded \/ i \in silent, notices' = notices
        PROVE  Retired' /\ \A c \in muted : notices'[c] = notices[c]
    <3>1. Tracked(i) => i[1] \in muted
      BY <2>1, <2>4 DEF Retired
    <3> QED BY <3>1, <2>4, <1>1, <1>3 DEF Retired, Gone, Tracked
  <2> QED BY <1>3, <2>3, <2>4
<1> QED BY <1>1, <1>2, <1>3

LEMMA RetiredStep ==
  ASSUME TypeOK, Phases, Entities, Notifying, Retired, [Next]_vars, [RetryCrossesNothing]_vars
  PROVE  Retired'
<1>1. ASSUME backgrounded' \subseteq backgrounded, silent' = silent, muted' = muted, despawned' = despawned,
             notices' = notices, pending \cup request \subseteq pending' \cup request', ended \subseteq ended',
             \A c \in Calls : job'[c] = job[c] \/ job'[c] = NoJob
      PROVE  Retired'
  <2>1. \A i \in Ids : Tracked(i)' => Tracked(i)
    BY <1>1, BridgeAssumption DEF Tracked, Ids, NoJob
  <2>2. backgrounded \subseteq Ids /\ silent \subseteq Ids /\ despawned \subseteq Ids
    BY DEF TypeOK
  <2>3. \A c \in Calls : Gone(c)' => Gone(c)
    BY <1>1 DEF Gone
  <2>4. \A i \in silent' : Tracked(i)' => i[1] \in muted'
    BY <1>1, <2>1, <2>2 DEF Retired
  <2>5. \A i \in despawned' : Tracked(i)' /\ i[1] \notin muted' => notices'[i[1]] > 0
    BY <1>1, <2>1, <2>2 DEF Retired
  <2>6. \A c \in Calls \ muted' : Gone(c)' => notices'[c] > 0 \/ Owner[c] \in ended'
    BY <1>1, <2>3 DEF Retired
  <2>7. \A i \in backgrounded' : i[1] \in muted' => i \in silent'
    BY <1>1 DEF Retired
  <2> QED BY <2>4, <2>5, <2>6, <2>7 DEF Retired
<1>2. CASE \/ ControlDone \/ IngestDone \/ SweepDone \/ CommitDone \/ CancelMonitor \/ ClearStop
           \/ Monitor \/ Cleanup
           \/ \E i \in Ids : SweepOne(i) \/ CommitOne(i)
           \/ \E i \in Ids, p \in {"completed", "effect"} : WorkerFinish(i, p)
           \/ \E t \in Tasks : TaskEnds(t)
           \/ \E late \in SUBSET Ids : Tick(late)
           \/ \E c \in Calls : WatchdogStops(c) \/ LlmRequests(c)
           \/ UNCHANGED vars
  <2>1. UNCHANGED <<silent, backgrounded, pending, despawned, notices, muted>>
        /\ request \subseteq request' /\ ended \subseteq ended'
    BY <1>2 DEF ControlDone, IngestDone, SweepDone, CommitDone, CancelMonitor, ClearStop, SweepOne, Monitor, Cleanup,
       CommitOne, WorkerFinish, TaskEnds, Tick, WatchdogStops, LlmRequests, vars, entityVars, deferVars, taskVars,
       outVars
  <2>2. ASSUME NEW c \in Calls
        PROVE  job'[c] = job[c] \/ job'[c] = NoJob
    BY <1>2 DEF ControlDone, IngestDone, SweepDone, CommitDone, CancelMonitor, ClearStop, SweepOne, Monitor, Cleanup,
       CommitOne, WorkerFinish, TaskEnds, Tick, WatchdogStops, LlmRequests, vars, jobVars
  <2> QED BY <2>1, <2>2, <1>1
<1>3. ASSUME NEW c \in Calls, AgentStops(c)
      PROVE  Retired'
  <2>1. /\ job[c] # NoJob /\ silent' = silent \cup {<<c, job[c]>>} /\ muted' = muted \cup {c}
        /\ UNCHANGED <<backgrounded, pending, despawned, request, notices, job, ended>>
    BY <1>3 DEF AgentStops, Controllable, jobVars, deferVars, taskVars
  <2>2. <<c, job[c]>>[1] = c
    OBVIOUS
  <2>3. ASSUME NEW i \in backgrounded, i[1] \in muted'
        PROVE  i \in silent'
    <3>1. CASE i[1] = c /\ i \notin silent
      <4>1. i[2] = job[c]
        BY <3>1, <2>1 DEF Notifying, Tracked
      <4>2. i = <<i[1], i[2]>>
        BY DEF TypeOK, Ids
      <4> QED BY <4>1, <4>2, <3>1, <2>1
    <3>2. CASE i[1] # c \/ i \in silent
      BY <3>2, <2>1, <2>3 DEF Retired
    <3> QED BY <3>1, <3>2
  <2>4. \A i \in silent' : Tracked(i)' => i[1] \in muted'
    BY <2>1, <2>2 DEF Retired, Tracked
  <2>5. \A i \in despawned' : Tracked(i)' /\ i[1] \notin muted' => notices'[i[1]] > 0
    BY <2>1 DEF Retired, Tracked
  <2>6. \A d \in Calls \ muted' : Gone(d)' => notices'[d] > 0 \/ Owner[d] \in ended'
    BY <2>1 DEF Retired, Gone
  <2> QED BY <2>1, <2>3, <2>4, <2>5, <2>6 DEF Retired
<1>4. ASSUME NEW c \in Calls, WatchdogRetries(c)
      PROVE  Retired'
  <2>1. PICK k \in 1..MaxRetry :
           /\ k = job[c] + 1 /\ job[c] \in 0..MaxRetry
           /\ <<c, k>> \notin request \cup pending
           /\ silent' = silent \cup {<<c, job[c]>>}
           /\ request' = request \cup {<<c, k>>} /\ backgrounded' = backgrounded \cup {<<c, k>>}
           /\ job' = [job EXCEPT ![c] = k]
           /\ UNCHANGED <<pending, despawned, notices, muted, ended>>
    BY <1>4, RetryIs
  <2>2. job' # job
    BY <2>1 DEF TypeOK
  <2>3. c \notin muted
    BY <1>4, <2>2 DEF RetryCrossesNothing, vars, jobVars
  <2>4. job'[c] = k /\ \A d \in Calls \ {c} : job'[d] = job[d]
    BY <2>1 DEF TypeOK
  <2>5. <<c, k>>[1] = c /\ <<c, job[c]>>[1] = c /\ <<c, job[c]>>[2] = job[c] /\ job[c] # k
    BY <2>1
  <2>6. ASSUME NEW i \in pending, Tracked(i)'
        PROVE  i[1] # c /\ Tracked(i) /\ i[1] \in Calls
    <3>1. i[1] \in Calls /\ i = <<i[1], i[2]>>
      BY DEF TypeOK, Ids
    <3>2. i[1] # c
      BY <2>1, <2>4, <2>6, <3>1 DEF Tracked
    <3> QED BY <2>4, <2>6, <3>1, <3>2 DEF Tracked
  <2>7. \A i \in backgrounded' : i[1] \in muted' => i \in silent'
    BY <2>1, <2>3, <2>5 DEF Retired
  <2>8. ASSUME NEW i \in silent', Tracked(i)'
        PROVE  i[1] \in muted'
    <3>1. CASE i \in silent
      <4>1. i \in pending
        BY <3>1 DEF Notifying
      <4> QED BY <2>1, <2>6, <2>8, <3>1, <4>1 DEF Retired
    <3>2. CASE i = <<c, job[c]>>
      <4>1. ~Tracked(i)'
        BY <3>2, <2>4, <2>5 DEF Tracked
      <4> QED BY <4>1, <2>8
    <3> QED BY <2>1, <2>8, <3>1, <3>2
  <2>9. \A i \in despawned' : Tracked(i)' /\ i[1] \notin muted' => notices'[i[1]] > 0
    <3>1. despawned \subseteq pending
      BY DEF TypeOK
    <3> QED BY <2>1, <2>6, <3>1 DEF Retired
  <2>10. ASSUME NEW d \in Calls \ muted', Gone(d)'
         PROVE  notices'[d] > 0 \/ Owner[d] \in ended'
    <3>1. d # c
      BY <2>1, <2>4, <2>10 DEF Gone
    <3>2. Gone(d)
      BY <2>1, <2>4, <2>10, <3>1 DEF Gone
    <3> QED BY <3>2, <2>1 DEF Retired
  <2> QED BY <2>7, <2>8, <2>9, <2>10 DEF Retired
<1>5. CASE AutoBackground
  <2>1. /\ \A i \in Overrun : /\ i \in pending /\ i \notin backgrounded /\ i \in Ids
                              /\ i = <<i[1], 0>> /\ i[1] \in Calls /\ job'[i[1]] = 0
        /\ \A c \in Calls : <<c, 0>> \notin Overrun => job'[c] = job[c]
        /\ backgrounded' = backgrounded \cup Overrun
        /\ "autobg" \in todo
        /\ UNCHANGED <<request, pending, silent, despawned, notices, muted, ended>>
    BY <1>5, OverrunIs
  <2>2. despawned = {}
    BY <2>1 DEF Phases
  <2>3. \A i \in Overrun : i[1] \notin muted
    BY <2>1 DEF Notifying
  <2>4. \A i \in backgrounded' : i[1] \in muted' => i \in silent'
    BY <2>1, <2>3 DEF Retired
  <2>5. ASSUME NEW i \in silent', Tracked(i)'
        PROVE  i[1] \in muted'
    <3>1. i \in backgrounded /\ i \in Ids /\ i[1] \in Calls /\ i = <<i[1], i[2]>>
      BY <2>1, <2>5 DEF Notifying, TypeOK, Ids
    <3>2. CASE <<i[1], 0>> \in Overrun
      <4>1. <<i[1], 0>>[1] = i[1]
        OBVIOUS
      <4>2. job'[i[1]] = 0
        BY <2>1, <3>2, <4>1
      <4>3. i = <<i[1], 0>>
        BY <2>5, <3>1, <4>2 DEF Tracked
      <4> QED BY <2>1, <3>1, <3>2, <4>3
    <3>3. CASE <<i[1], 0>> \notin Overrun
      BY <2>1, <2>5, <3>1, <3>3 DEF Retired, Tracked
    <3> QED BY <3>2, <3>3
  <2>6. ASSUME NEW d \in Calls \ muted', Gone(d)'
        PROVE  notices'[d] > 0 \/ Owner[d] \in ended'
    <3>1. CASE <<d, 0>> \in Overrun
      <4>1. <<d, 0>>[1] = d /\ <<d, 0>> \in pending
        BY <2>1, <3>1
      <4>2. job'[d] = 0
        BY <2>1, <3>1, <4>1
      <4> QED BY <2>1, <2>6, <4>1, <4>2 DEF Gone
    <3>2. CASE <<d, 0>> \notin Overrun
      BY <2>1, <2>6, <3>2 DEF Retired, Gone
    <3> QED BY <3>1, <3>2
  <2>7. despawned' = {}
    BY <2>1, <2>2
  <2> QED BY <2>4, <2>5, <2>6, <2>7 DEF Retired
<1>6. CASE IngestRecv
  BY <1>6, RetiredLand
<1>7. CASE IngestSync
  <2>1. /\ pending' = pending \ despawned /\ despawned' = {}
        /\ backgrounded' = backgrounded \ despawned /\ silent' = silent \ despawned
        /\ UNCHANGED <<request, notices, job, muted, ended>>
    BY <1>7 DEF IngestSync, jobVars, outVars, taskVars
  <2>2. ASSUME NEW d \in Calls \ muted', Gone(d)'
        PROVE  notices'[d] > 0 \/ Owner[d] \in ended'
    <3>1. CASE <<d, job[d]>> \in despawned
      <4>1. PICK i \in despawned : i[1] = d /\ Tracked(i)
        <5>1. <<d, job[d]>>[1] = d /\ <<d, job[d]>>[2] = job[d]
          OBVIOUS
        <5> QED BY <3>1, <5>1 DEF Tracked
      <4> QED BY <4>1, <2>1 DEF Retired
    <3>2. CASE <<d, job[d]>> \notin despawned
      <4>1. Gone(d)
        BY <2>1, <2>2, <3>2 DEF Gone
      <4> QED BY <4>1, <2>1 DEF Retired
    <3> QED BY <3>1, <3>2
  <2>3. /\ \A i \in backgrounded' : i[1] \in muted' => i \in silent'
        /\ \A i \in silent' : Tracked(i)' => i[1] \in muted'
    BY <2>1 DEF Retired, Tracked
  <2> QED BY <2>1, <2>2, <2>3 DEF Retired
<1>8. ASSUME NEW ts \in SUBSET Tasks, StopTask(ts)
      PROVE  Retired'
  <2>1. /\ request' = request \ Withdrawn(ts) /\ backgrounded' \subseteq backgrounded
        /\ "stop" \in todo /\ "stop" \notin todo'
        /\ UNCHANGED <<pending, silent, job, notices, muted, despawned, ended>>
    BY <1>8 DEF StopTask, Ran, Runnable, jobVars, outVars, deferVars
  <2>2. \A i \in request \cap backgrounded : OwnerOf(i) \notin ts
    BY <1>8, <2>1 DEF RetryCrossesNothing, StopMeetsNoRetry, vars
  <2>3. ASSUME NEW d \in Calls \ muted', Gone(d)'
        PROVE  notices'[d] > 0 \/ Owner[d] \in ended'
    <3>1. <<d, job[d]>> \notin Withdrawn(ts)
      <4> SUFFICES ASSUME <<d, job[d]>> \in Withdrawn(ts)
                   PROVE  FALSE
        OBVIOUS
      <4>1. PICK i \in request : i[1] = d /\ Tracked(i) /\ OwnerOf(i) \in ts
        <5>1. <<d, job[d]>>[1] = d /\ <<d, job[d]>>[2] = job[d]
          OBVIOUS
        <5> QED BY <5>1 DEF Tracked, Withdrawn
      <4> QED BY <4>1, <2>2, TrackedIsBackground
    <3>2. Gone(d)
      BY <2>1, <2>3, <3>1 DEF Gone
    <3> QED BY <3>2, <2>1 DEF Retired
  <2>4. /\ \A i \in backgrounded' : i[1] \in muted' => i \in silent'
        /\ \A i \in silent' : Tracked(i)' => i[1] \in muted'
        /\ \A i \in despawned' : Tracked(i)' /\ i[1] \notin muted' => notices'[i[1]] > 0
    BY <2>1 DEF Retired, Tracked
  <2> QED BY <2>3, <2>4 DEF Retired
<1>9. ASSUME NEW held \in SUBSET request, AsyncDispatch(held)
      PROVE  Retired'
  <2>1. /\ \A i \in (pending \cup request) \ (pending' \cup request') : OwnerOf(i) \in ended
        /\ backgrounded' \subseteq backgrounded
        /\ UNCHANGED <<silent, job, notices, muted, despawned, ended>>
    BY <1>9 DEF AsyncDispatch, jobVars, outVars, deferVars, taskVars
  <2>2. ASSUME NEW d \in Calls \ muted', Gone(d)'
        PROVE  notices'[d] > 0 \/ Owner[d] \in ended'
    <3>1. CASE <<d, job[d]>> \in pending \cup request
      <4>1. PICK i \in pending \cup request : i = <<d, job[d]>> /\ i[1] = d
        <5>1. <<d, job[d]>>[1] = d
          OBVIOUS
        <5> QED BY <3>1, <5>1
      <4>2. i \notin pending' \cup request'
        BY <4>1, <2>1, <2>2 DEF Gone
      <4> QED BY <4>1, <4>2, <2>1 DEF OwnerOf
    <3>2. CASE <<d, job[d]>> \notin pending \cup request
      <4>1. Gone(d)
        BY <2>1, <2>2, <3>2 DEF Gone
      <4> QED BY <4>1, <2>1 DEF Retired
    <3> QED BY <3>1, <3>2
  <2>3. /\ \A i \in backgrounded' : i[1] \in muted' => i \in silent'
        /\ \A i \in silent' : Tracked(i)' => i[1] \in muted'
        /\ \A i \in despawned' : Tracked(i)' /\ i[1] \notin muted' => notices'[i[1]] > 0
    BY <2>1 DEF Retired, Tracked
  <2> QED BY <2>2, <2>3 DEF Retired
<1> QED BY <1>2, <1>3, <1>4, <1>5, <1>6, <1>7, <1>8, <1>9 DEF Next, Frame, Environment

\* Only the monitor and the cleanup retire jobs.
LEMMA RetiringIs ==
  ASSUME TypeOK, Entities, [Next]_vars, NEW c \in Calls, job[c] # NoJob, job'[c] = NoJob
  PROVE  Gone(c) \/ Owner[c] \in ended
<1>1. CASE Monitor
  BY <1>1 DEF Monitor, Monitored, Gone
<1>2. CASE Cleanup
  BY <1>2 DEF Cleanup
<1>3. CASE AutoBackground
  <2>1. /\ \A i \in Overrun : job'[i[1]] = 0
        /\ \A d \in Calls : <<d, 0>> \notin Overrun => job'[d] = job[d]
    BY <1>3, OverrunIs
  <2>2. <<c, 0>> \in Overrun => job'[c] = 0
    <3>1. <<c, 0>>[1] = c
      OBVIOUS
    <3> QED BY <2>1, <3>1
  <2>3. 0 # NoJob
    BY DEF NoJob
  <2> QED BY <2>1, <2>2, <2>3
<1>4. ASSUME NEW d \in Calls, WatchdogRetries(d)
      PROVE  FALSE
  <2>1. PICK k \in 1..MaxRetry : job' = [job EXCEPT ![d] = k]
    BY <1>4, RetryIs
  <2> QED BY <2>1 DEF TypeOK, NoJob
<1>5. CASE \/ ControlDone \/ IngestDone \/ SweepDone \/ CommitDone \/ CancelMonitor \/ ClearStop
           \/ IngestRecv \/ IngestSync
           \/ \E i \in Ids : SweepOne(i) \/ CommitOne(i)
           \/ \E i \in Ids, p \in {"completed", "effect"} : WorkerFinish(i, p)
           \/ \E t \in Tasks : TaskEnds(t)
           \/ \E late \in SUBSET Ids : Tick(late)
           \/ \E d \in Calls : WatchdogStops(d) \/ AgentStops(d) \/ LlmRequests(d)
           \/ \E ts \in SUBSET Tasks : StopTask(ts)
           \/ \E held \in SUBSET request : AsyncDispatch(held)
           \/ UNCHANGED vars
  <2>1. job' = job
    BY <1>5 DEF ControlDone, IngestDone, SweepDone, CommitDone, CancelMonitor, ClearStop, SweepOne,
       CommitOne, WorkerFinish, TaskEnds, Tick, WatchdogStops, AgentStops, LlmRequests, StopTask, AsyncDispatch,
       IngestRecv, IngestSync, vars, jobVars
  <2> QED BY <2>1
<1> QED BY <1>1, <1>2, <1>3, <1>4, <1>5 DEF Next, Frame, Environment

\* Only a landing notifies, and never of a job the agent stopped.
LEMMA MutedStays ==
  ASSUME TypeOK, Entities, Notifying, Retired, [Next]_vars, NEW c \in muted
  PROVE  notices'[c] = notices[c]
<1>1. CASE IngestRecv
  BY <1>1, RetiredLand
<1>2. CASE \/ ControlDone \/ IngestDone \/ SweepDone \/ CommitDone \/ CancelMonitor \/ ClearStop
           \/ Monitor \/ Cleanup \/ AutoBackground \/ IngestSync
           \/ \E i \in Ids : SweepOne(i) \/ CommitOne(i)
           \/ \E i \in Ids, p \in {"completed", "effect"} : WorkerFinish(i, p)
           \/ \E t \in Tasks : TaskEnds(t)
           \/ \E late \in SUBSET Ids : Tick(late)
           \/ \E d \in Calls : WatchdogStops(d) \/ AgentStops(d) \/ LlmRequests(d) \/ WatchdogRetries(d)
           \/ \E ts \in SUBSET Tasks : StopTask(ts)
           \/ \E held \in SUBSET request : AsyncDispatch(held)
           \/ UNCHANGED vars
  BY <1>2 DEF ControlDone, IngestDone, SweepDone, CommitDone, CancelMonitor, ClearStop, SweepOne, Monitor, Cleanup,
     AutoBackground, CommitOne, WorkerFinish, TaskEnds, Tick, WatchdogStops, AgentStops, LlmRequests, StopTask,
     AsyncDispatch, WatchdogRetries, IngestSync, vars, outVars
<1> QED BY <1>1, <1>2 DEF Next, Frame, Environment

\* While a retry crosses neither a /stop nor the agent's own stop, a job the
\* agent did not stop retires only after its owner was notified of the result or
\* ended, and one the agent stopped is never notified afterwards.
THEOREM NoSilentRetirement == Spec /\ [][RetryCrossesNothing]_vars => NotifiedUnlessStopped
<1>1. Init => Notifying /\ Retired
  BY NotifyingInit, RetiredInit
<1>2. BridgeInv /\ Notifying /\ [Next]_vars => Notifying'
  BY NotifyingStep DEF BridgeInv, Entities
<1>3. BridgeInv /\ Notifying /\ Retired /\ [Next]_vars /\ [RetryCrossesNothing]_vars => Retired'
  BY RetiredStep DEF BridgeInv, Entities
<1>4. BridgeInv /\ Notifying /\ Retired /\ [Next]_vars =>
        [\A c \in Calls :
           /\ job[c] # NoJob /\ job'[c] = NoJob /\ c \notin muted /\ Owner[c] \notin ended
                => notices[c] > 0
           /\ c \in muted => notices'[c] = notices[c]]_vars
  <2> SUFFICES ASSUME BridgeInv, Notifying, Retired, [Next]_vars, NEW c \in Calls
               PROVE  /\ job[c] # NoJob /\ job'[c] = NoJob /\ c \notin muted /\ Owner[c] \notin ended
                           => notices[c] > 0
                      /\ c \in muted => notices'[c] = notices[c]
    OBVIOUS
  <2>1. TypeOK /\ Entities
    BY DEF BridgeInv, Entities
  <2>2. job[c] # NoJob /\ job'[c] = NoJob => Gone(c) \/ Owner[c] \in ended
    BY <2>1, RetiringIs
  <2>3. c \in muted => notices'[c] = notices[c]
    BY <2>1, MutedStays
  <2> QED BY <2>2, <2>3 DEF Retired
<1> QED BY <1>1, <1>2, <1>3, <1>4, BridgeInvariant, PTL DEF Spec, NotifiedUnlessStopped

=============================================================================

-------------------------- MODULE AgentTurn_proofs --------------------------
(***************************************************************************)
(* The turn of a task: one LLM call at a time, confirmations that can be   *)
(* answered, no turn stranded, stops and ends that hold, and completion    *)
(* with every notification seen: for any number of calls, jobs, messages,  *)
(* stops and retries.                                                      *)
(***************************************************************************)
EXTENDS AgentTurn, FiniteSetTheorems, TLAPS

-----------------------------------------------------------------------------
(* The inductive invariant.                                                *)

\* The LLM calls of the current generation: to be started, in flight, answered.
Active == queued + flights + (IF gen \in results THEN 1 ELSE 0)

\* No result is of a generation to come; a stop that was routed has its room.
Counted ==
  /\ results \subseteq 0..gen
  /\ command = "stop" => gen < MaxStops
  /\ jobs + silent <= MaxJobs

\* The systems of a frame run in the declared order.
Ordered == \A s \in Systems \ todo : Before(s) \cap todo = {}

\* What a frame makes is used in it.
InFrame ==
  /\ HasMail(continues) => "continue" \in todo
  /\ HasMail(deliveries) => "deliver" \in todo
  /\ hint # "none" => "dispatch" \in todo
  /\ queued > 0 => "execute" \in todo
  /\ answer.call # NoCall => "confirm" \in todo
  /\ OneTurn /\ Ended /\ "claim" \notin todo => Requests = {}

\* The requests of a live task are of its loop, which waits for them; one may
\* be put to the user.
Asked ==
  ~Ended =>
    /\ \A s \in Slots : call[s] = "asking" => asking = s
    /\ asking # NoCall => status = "user" /\ call[asking] = "asking" /\ ~HasMail(continues)
    /\ Requests # {} => status = "tools" \/ asking # NoCall
    /\ Requests \subseteq loop.pending
    /\ status = "tools" \/ asking # NoCall =>
         hint = "none" /\ loop.pending # {} /\ \A s \in loop.pending : call[s] # "none"

\* The status says what the task waits for.
Turning ==
  /\ Active <= 1
  /\ ~Ended => (Active = 1 <=> status \in {"agent", "running"})
  /\ status \in {"agent", "running"} => hint = "none"
  /\ hint = "agent" => status = "ready"
  /\ HasMail(continues) /\ ~Ended => status \in {"ready", "user", "jobs"}
  /\ status = "ready" => HasMail(continues) \/ hint = "agent" \/ (hint = "main" /\ ~delegate)

\* A stopped task has no LLM call and waits for a message.
Halted ==
  interrupted => Active = 0 /\ (Ended \/ Idle \/ (status = "ready" /\ HasMail(continues)))

Turn == OneTurn => Asked /\ Turning /\ Halted

IInv == TypeOK /\ Counted /\ Ordered /\ InFrame /\ Turn

-----------------------------------------------------------------------------
(* Frames, mail, requests, LLM calls.                                      *)

LEMMA MailIs ==
  /\ ~HasMail(NoMail)
  /\ NoMail \in [Kinds -> Nat]
  /\ \A box \in [Kinds -> Nat], k \in Kinds, n \in Nat :
       Plus(box, k, n) \in [Kinds -> Nat] /\ (n > 0 => HasMail(Plus(box, k, n)))
BY DEF HasMail, NoMail, Plus, Kinds

\* The system that runs keeps the order.
LEMMA RanOrdered ==
  ASSUME Ordered, NEW s \in Systems, Ran(s)
  PROVE  Ordered' /\ todo' \subseteq todo /\ \A t \in todo : t # s => t \in todo'
BY DEF Ordered, Ran, Runnable

\* A Transform system has the Dispatching and the later sets still before it.
LEMMA TransformEarly ==
  ASSUME Ordered, NEW s \in Transform, Ran(s)
  PROVE  {"claim", "confirm", "dispatch", "execute"} \subseteq todo'
<1>1. s \in todo /\ s \notin {"claim", "confirm", "dispatch", "execute"}
  BY DEF Ran, Runnable, Transform
<1>2. {"claim", "confirm", "dispatch", "execute"} \subseteq Systems
  BY DEF Systems, Dispatching
<1>3. /\ s \in Before("claim") /\ s \in Before("confirm")
      /\ s \in Before("dispatch") /\ s \in Before("execute")
  BY DEF Before
<1> QED
  BY <1>1, <1>2, <1>3 DEF Ordered, Ran

\* After the Transform set no message is left.
LEMMA TransformOver ==
  ASSUME InFrame, NEW s \in {"claim", "confirm", "dispatch", "execute"}, Runnable(s)
  PROVE  ~HasMail(continues) /\ ~HasMail(deliveries)
<1>1. Transform \subseteq Before(s) /\ {"continue", "deliver"} \subseteq Transform
  BY DEF Before, Transform
<1> QED
  BY <1>1 DEF InFrame, Runnable

\* Messages are routed before they are delivered and continue the task.
LEMMA RouteFirst ==
  ASSUME Ordered, todo \subseteq Systems
  PROVE  /\ "wake" \in todo => "continue" \in todo
         /\ "jobs" \in todo => "deliver" \in todo
         /\ "route" \in todo => "deliver" \in todo /\ "continue" \in todo
<1>1. {"wake", "continue", "deliver", "llm"} \subseteq Systems
  BY DEF Systems, Transform
<1>2. /\ "wake" \in Before("continue") /\ "jobs" \in Before("deliver") /\ "route" \in Before("deliver")
      /\ "llm" \in Before("wake") /\ "deliver" \in Before("llm")
  BY DEF Before
<1> QED
  BY <1>1, <1>2 DEF Ordered

\* A stop of the frame comes after its messages are routed.
LEMMA RouteBeforeStop ==
  ASSUME Ordered, "route" \in todo, todo \subseteq Systems
  PROVE  "stop" \in todo
<1>1. {"stop", "llm", "deliver"} \subseteq Systems
  BY DEF Systems, Transform
<1>2. "llm" \in Before("stop") /\ "deliver" \in Before("llm") /\ "route" \in Before("deliver")
  BY DEF Before
<1> QED
  BY <1>1, <1>2 DEF Ordered

LEMMA RequestsAre ==
  ASSUME UNCHANGED call
  PROVE  Requests' = Requests
BY DEF Requests

\* A step that changes nothing the turn consists of.
LEMMA TurnKept ==
  ASSUME Turn,
         UNCHANGED <<status, delegate, asking, continues, hint, queued, flights, results, gen,
                     loop, call, interrupted, leftover>>
  PROVE  Turn'
<1>1. Requests' = Requests /\ Active' = Active /\ (Ended <=> Ended')
  BY RequestsAre DEF Active, Ended
<1>2. HasMail(continues)' = HasMail(continues)
  OBVIOUS
<1>3. Asked => Asked'
  BY <1>1, <1>2 DEF Asked
<1>4. Turning => Turning'
  BY <1>1, <1>2 DEF Turning
<1>5. Halted => Halted'
  BY <1>1, <1>2 DEF Halted, Idle
<1> QED
  BY <1>3, <1>4, <1>5 DEF Turn, OneTurn

LEMMA ActiveIs ==
  ASSUME TypeOK
  PROVE  Active \in Nat
BY DEF TypeOK, Active

\* An abort takes the call in flight, or leaves its answer.
LEMMA AbortIs ==
  ASSUME TypeOK, Counted, Abort, UNCHANGED queued, gen' \in {gen, gen + 1}
  PROVE  /\ flights' = 0 /\ results' \subseteq 0..gen
         /\ gen' = gen => Active' \in Nat /\ Active' <= Active
         /\ gen' = gen + 1 => Active' = queued
<1>1. gen \in Nat /\ flights \in Nat /\ queued \in Nat
  BY TurnAssumption DEF TypeOK
<1>2. results' \subseteq 0..gen /\ flights' = 0
  <2>1. gen \in 0..gen
    BY <1>1, SMT
  <2> QED
    BY <2>1, Zenon DEF Abort, Counted
<1>3. ASSUME gen' = gen PROVE Active' \in Nat /\ Active' <= Active
  BY <1>1, <1>3 DEF Abort, Active
<1>4. ASSUME gen' = gen + 1 PROVE Active' = queued
  <2>1. gen' \notin results'
    BY <1>1, <1>2, <1>4
  <2> QED
    BY <2>1, <1>1, <1>2 DEF Active
<1> QED
  BY <1>2, <1>3, <1>4

-----------------------------------------------------------------------------
LEMMA InitIInv ==
  ASSUME Init
  PROVE  IInv
<1>1. TypeOK
  <2>1. inputs \in 0..MaxInputs /\ jobs \in 0..MaxJobs /\ silent \in 0..MaxJobs
        /\ retries \in 0..MaxRetries /\ ticket \in 0..MaxRetries /\ gen \in 0..MaxStops
        /\ queued \in Nat /\ flights \in Nat
    BY TurnAssumption, SMT DEF Init
  <2>2. {continues, deliveries, inbox} \subseteq [Kinds -> Nat]
    BY MailIs DEF Init
  <2>3. loop \in [pending : SUBSET Slots, iteration : 0..(2 * MaxIter)]
    BY TurnAssumption, SMT DEF Init, NoLoop
  <2>4. call \in [Slots -> CallStates] /\ status \in Statuses
    BY DEF Init, CallStates, Statuses
  <2>5. answer \in [call : Slots \cup {NoCall}, allow : BOOLEAN]
    BY DEF Init, NoAnswer
  <2>6. /\ todo \subseteq Systems /\ command \in {"none", "stop", "finish"}
        /\ delegate \in BOOLEAN /\ asking \in Slots \cup {NoCall} /\ report \in BOOLEAN
        /\ hint \in {"none", "agent", "main"} /\ results \subseteq 0..MaxStops
        /\ wasTerminal \in BOOLEAN /\ interrupted \in BOOLEAN /\ leftover \in BOOLEAN
    BY DEF Init
  <2> QED
    BY <2>1, <2>2, <2>3, <2>4, <2>5, <2>6, Zenon DEF TypeOK
<1>2. Counted
  BY TurnAssumption, SMT DEF Init, Counted
<1>3. Ordered
  BY DEF Init, Ordered
<1>4. InFrame
  BY MailIs DEF Init, InFrame, Ended, Terminal, NoAnswer, Systems, Transform, Dispatching
<1>5. Requests = {} /\ Active = 0
  BY DEF Init, Requests, Active
<1>6. Asked /\ Turning /\ Halted
  BY <1>5 DEF Init, Asked, Turning, Halted, Ended, Terminal
<1> QED
  BY <1>1, <1>2, <1>3, <1>4, <1>6 DEF IInv, Turn

-----------------------------------------------------------------------------
(* One lemma for each action.                                              *)

\* What every system of the Transform set leaves to the later ones.
LEMMA TransformStep ==
  ASSUME IInv, NEW s \in Transform, Ran(s),
         HasMail(continues)' => "continue" \in todo',
         HasMail(deliveries)' => "deliver" \in todo'
  PROVE  todo' \subseteq Systems /\ Ordered' /\ InFrame'
<1>1. s \in Systems
  BY DEF Systems
<1>2. Ordered' /\ todo' \subseteq todo
  BY <1>1, RanOrdered DEF IInv
<1>3. {"claim", "confirm", "dispatch", "execute"} \subseteq todo'
  BY TransformEarly DEF IInv
<1>4. InFrame'
  BY <1>3 DEF InFrame
<1> QED
  BY <1>2, <1>4 DEF IInv, TypeOK

\* The mail a Transform system other than its readers keeps or adds to in time.
LEMMA MailInTime ==
  ASSUME IInv, NEW s \in Transform, Ran(s)
  PROVE  /\ s # "continue" /\ UNCHANGED continues => (HasMail(continues)' => "continue" \in todo')
         /\ s # "deliver" /\ UNCHANGED deliveries => (HasMail(deliveries)' => "deliver" \in todo')
         /\ s = "wake" => "continue" \in todo'
         /\ s = "jobs" => "deliver" \in todo'
         /\ s = "route" => "deliver" \in todo' /\ "continue" \in todo'
<1>1. todo \subseteq Systems /\ s \in todo
  BY DEF IInv, TypeOK, Ran, Runnable
<1>2. /\ "wake" \in todo => "continue" \in todo
      /\ "jobs" \in todo => "deliver" \in todo
      /\ "route" \in todo => "deliver" \in todo /\ "continue" \in todo
  BY <1>1, RouteFirst DEF IInv
<1>3. \A t \in todo : t # s => t \in todo'
  BY DEF Ran
<1>4. /\ HasMail(continues) => "continue" \in todo
      /\ HasMail(deliveries) => "deliver" \in todo
  BY DEF IInv, InFrame
<1> QED
  BY <1>1, <1>2, <1>3, <1>4

LEMMA RouteAnswerStep ==
  ASSUME IInv, NEW allow \in BOOLEAN, RouteAnswer(allow)
  PROVE  IInv'
<1>1. Ran("route") /\ "route" \in Transform
  BY DEF RouteAnswer, Transform
<1>2. /\ answer' = [call |-> asking, allow |-> allow]
      /\ UNCHANGED <<inputs, command, taskVars, mailVars, jobVars, retryVars,
                     hint, llmVars, gen, loopVars, wasTerminal, history>>
  BY DEF RouteAnswer
<1>3. todo' \subseteq Systems /\ Ordered' /\ InFrame'
  BY <1>1, <1>2, MailInTime, TransformStep DEF mailVars
<1>4. TypeOK'
  <2>1. answer' \in [call : Slots \cup {NoCall}, allow : BOOLEAN]
    BY <1>2 DEF IInv, TypeOK
  <2> QED
    BY <1>2, <1>3, <2>1 DEF IInv, TypeOK, taskVars, mailVars, jobVars, retryVars, llmVars, loopVars, history
<1>5. Counted'
  BY <1>2 DEF IInv, Counted, jobVars, llmVars
<1>6. Turn'
  BY <1>2, TurnKept DEF IInv, taskVars, mailVars, llmVars, loopVars, history
<1> QED
  BY <1>3, <1>4, <1>5, <1>6 DEF IInv

LEMMA RouteCommandStep ==
  ASSUME IInv, NEW c \in Commands, RouteCommand(c)
  PROVE  IInv'
<1>1. Ran("route") /\ "route" \in Transform
  BY DEF RouteCommand, Transform
<1>2. /\ inputs > 0 /\ inputs' = inputs - 1 /\ command' = c /\ (c = "stop" => gen < MaxStops)
      /\ UNCHANGED <<answer, taskVars, mailVars, jobVars, retryVars, hint,
                     llmVars, gen, loopVars, wasTerminal, history>>
  BY DEF RouteCommand
<1>3. todo' \subseteq Systems /\ Ordered' /\ InFrame'
  BY <1>1, <1>2, MailInTime, TransformStep DEF mailVars
<1>4. TypeOK'
  <2>1. inputs' \in 0..MaxInputs /\ command' \in {"none", "stop", "finish"}
    BY <1>2, TurnAssumption, SMT DEF IInv, TypeOK
  <2> QED
    BY <1>2, <1>3, <2>1 DEF IInv, TypeOK, taskVars, mailVars, jobVars, retryVars, llmVars, loopVars, history
<1>5. Counted'
  BY <1>2 DEF IInv, Counted, jobVars, llmVars
<1>6. Turn'
  BY <1>2, TurnKept DEF IInv, taskVars, mailVars, llmVars, loopVars, history
<1> QED
  BY <1>3, <1>4, <1>5, <1>6 DEF IInv

\* A router or waker with nothing to do.
LEMMA IdleStep ==
  ASSUME IInv, NEW s \in {"route", "wake"}, Ran(s),
         UNCHANGED <<inputVars, taskVars, mailVars, jobVars, retryVars, hint,
                     llmVars, gen, loopVars, wasTerminal, history>>
  PROVE  IInv'
<1>1. s \in Transform
  BY DEF Transform
<1>2. todo' \subseteq Systems /\ Ordered' /\ InFrame'
  BY <1>1, MailInTime, TransformStep DEF mailVars
<1>3. TypeOK'
  BY <1>2 DEF IInv, TypeOK, inputVars, taskVars, mailVars, jobVars, retryVars, llmVars, loopVars, history
<1>4. Counted'
  BY DEF IInv, Counted, inputVars, jobVars, llmVars
<1>5. Turn'
  BY TurnKept DEF IInv, taskVars, mailVars, llmVars, loopVars, history
<1> QED
  BY <1>2, <1>3, <1>4, <1>5 DEF IInv

LEMMA RetireJobsStep ==
  ASSUME IInv, NEW n \in 0..MaxJobs, NEW m \in 0..MaxJobs, RetireJobs(n, m)
  PROVE  IInv'
<1>1. Ran("jobs") /\ "jobs" \in Transform
  BY DEF RetireJobs, Transform
<1>2. /\ n <= jobs /\ m <= silent /\ jobs' = jobs - n /\ silent' = silent - m
      /\ deliveries' = Plus(deliveries, "notice", n)
      /\ UNCHANGED <<inputVars, taskVars, continues, inbox, report, retryVars,
                     hint, llmVars, gen, loopVars, wasTerminal, history>>
  BY DEF RetireJobs
<1>3. todo' \subseteq Systems /\ Ordered' /\ InFrame'
  BY <1>1, <1>2, MailInTime, TransformStep
<1>4. jobs' \in 0..MaxJobs /\ silent' \in 0..MaxJobs /\ jobs' + silent' <= MaxJobs
  BY <1>2, TurnAssumption, SMT DEF IInv, TypeOK, Counted
<1>5. TypeOK'
  <2>1. deliveries \in [Kinds -> Nat] /\ n \in Nat /\ "notice" \in Kinds
    BY TurnAssumption DEF IInv, TypeOK, Kinds
  <2>2. deliveries' \in [Kinds -> Nat]
    BY <1>2, <2>1, MailIs
  <2> QED
    BY <1>2, <1>3, <1>4, <2>2 DEF IInv, TypeOK, inputVars, taskVars, retryVars, llmVars, loopVars, history
<1>6. Counted'
  BY <1>2, <1>4 DEF IInv, Counted, inputVars, llmVars
<1>7. Turn'
  BY <1>2, TurnKept DEF IInv, taskVars, llmVars, loopVars, history
<1> QED
  BY <1>3, <1>4, <1>5, <1>6, <1>7 DEF IInv

LEMMA DeliverStep ==
  ASSUME IInv, Deliver
  PROVE  IInv'
<1>1. Ran("deliver") /\ "deliver" \in Transform
  BY DEF Deliver, Transform
<1>2. /\ inbox' = IF Ended THEN inbox ELSE [k \in Kinds |-> inbox[k] + deliveries[k]]
      /\ deliveries' = NoMail
      /\ UNCHANGED <<inputVars, taskVars, continues, report, jobVars, retryVars,
                     hint, llmVars, gen, loopVars, wasTerminal, history>>
  BY DEF Deliver
<1>3. todo' \subseteq Systems /\ Ordered' /\ InFrame'
  BY <1>1, <1>2, MailIs, MailInTime, TransformStep
<1>4. TypeOK'
  <2>1. inbox' \in [Kinds -> Nat] /\ deliveries' \in [Kinds -> Nat]
    BY <1>2, MailIs DEF IInv, TypeOK
  <2> QED
    BY <1>2, <1>3, <2>1 DEF IInv, TypeOK, inputVars, taskVars, jobVars, retryVars, llmVars, loopVars, history
<1>5. Counted'
  BY <1>2 DEF IInv, Counted, inputVars, jobVars, llmVars
<1>6. Turn'
  BY <1>2, TurnKept DEF IInv, taskVars, llmVars, loopVars, history
<1> QED
  BY <1>3, <1>4, <1>5, <1>6 DEF IInv

LEMMA RouteMessagesStep ==
  ASSUME IInv, NEW n \in 1..2, RouteMessages(n)
  PROVE  IInv'
<1>1. Ran("route") /\ "route" \in Transform
  BY DEF RouteMessages, Transform
<1>2. /\ n <= inputs /\ ~Ended /\ (status = "user" => asking = NoCall) /\ inputs' = inputs - n
      /\ UNCHANGED <<command, answer, delegate, asking, inbox, report, jobVars,
                     retryVars, hint, llmVars, gen, loopVars, wasTerminal, history>>
  BY DEF RouteMessages
<1>3. /\ Idle => /\ status' = "ready" /\ continues' = Plus(continues, "steer", 1)
                 /\ deliveries' = Plus(deliveries, "steer", n - 1)
      /\ ~Idle => /\ deliveries' = Plus(deliveries, "steer", n)
                  /\ UNCHANGED <<status, continues>>
  BY DEF RouteMessages
<1>4. todo' \subseteq Systems /\ Ordered' /\ InFrame'
  BY <1>1, MailInTime, TransformStep
<1>5. /\ continues' \in [Kinds -> Nat] /\ deliveries' \in [Kinds -> Nat]
      /\ Idle => HasMail(continues)'
  <2>1. /\ continues \in [Kinds -> Nat] /\ deliveries \in [Kinds -> Nat] /\ "steer" \in Kinds
        /\ n \in Nat /\ n - 1 \in Nat
    BY DEF IInv, TypeOK, Kinds
  <2>2. /\ Plus(continues, "steer", 1) \in [Kinds -> Nat] /\ HasMail(Plus(continues, "steer", 1))
        /\ Plus(deliveries, "steer", n - 1) \in [Kinds -> Nat]
        /\ Plus(deliveries, "steer", n) \in [Kinds -> Nat]
    <3>1. 1 \in Nat /\ 1 > 0
      OBVIOUS
    <3> QED
      BY <2>1, <3>1, MailIs, Zenon
  <2>3. CASE Idle
    BY <1>3, <2>2, <2>3
  <2>4. CASE ~Idle
    BY <1>3, <2>1, <2>2, <2>4
  <2> QED
    BY <2>3, <2>4
<1>6. TypeOK'
  <2>1. inputs' \in 0..MaxInputs
    BY <1>2, TurnAssumption, SMT DEF IInv, TypeOK
  <2>2. status' \in Statuses
    BY <1>3 DEF IInv, TypeOK, Statuses
  <2> QED
    BY <1>2, <1>4, <1>5, <2>1, <2>2 DEF IInv, TypeOK, jobVars, retryVars, llmVars, loopVars, history
<1>7. Counted'
  BY <1>2 DEF IInv, Counted, jobVars, llmVars
<1>8. Turn'
  <2>1. CASE ~Idle
    BY <1>2, <1>3, <2>1, TurnKept DEF IInv, llmVars, loopVars, history
  <2>2. CASE Idle
    <3>1. SUFFICES ASSUME OneTurn'
                   PROVE  Asked' /\ Turning' /\ Halted'
      BY DEF Turn
    <3>2. Asked /\ Turning /\ Halted
      BY <1>2, <3>1 DEF IInv, Turn, OneTurn, history
    <3>3. /\ status = "user" /\ asking = NoCall /\ status' = "ready" /\ asking' = NoCall
          /\ HasMail(continues)' /\ ~Ended' /\ UNCHANGED <<hint, delegate, loop, call>>
      BY <1>2, <1>3, <1>5, <2>2 DEF Idle, Ended, Terminal, loopVars
    <3>4. Requests' = Requests /\ Active' = Active /\ Active \in Nat
      BY <1>2, ActiveIs, RequestsAre DEF IInv, llmVars, loopVars, Active
    <3>5. Asked'
      BY <1>2, <3>2, <3>3, <3>4 DEF Asked
    <3>6. Active = 0
      BY <1>2, <3>2, <3>3, <3>4, SMT DEF Turning
    <3>7. Turning'
      BY <3>2, <3>3, <3>4, <3>6 DEF Turning
    <3>8. Halted'
      BY <3>3, <3>4, <3>6 DEF Halted
    <3> QED
      BY <3>5, <3>7, <3>8
  <2> QED
    BY <2>1, <2>2
<1> QED
  BY <1>4, <1>6, <1>7, <1>8 DEF IInv

\* A result of the current generation is all that is left of its call, and of
\* a live task that waits for nothing else.
LEMMA AnsweredIs ==
  ASSUME IInv, OneTurn, gen \in results, ~Ended
  PROVE  /\ queued = 0 /\ flights = 0 /\ Active = 1
         /\ status \in {"agent", "running"} /\ asking = NoCall /\ Requests = {} /\ hint = "none"
         /\ ~HasMail(continues) /\ ~interrupted
<1>1. Asked /\ Turning /\ Halted /\ queued \in Nat /\ flights \in Nat
  BY DEF IInv, Turn, TypeOK
<1>2. queued = 0 /\ flights = 0 /\ Active = 1
  BY <1>1, SMT DEF Turning, Active
<1>3. status \in {"agent", "running"}
  BY <1>1, <1>2 DEF Turning
<1> QED
  BY <1>1, <1>2, <1>3 DEF Asked, Turning, Halted

\* The task after the answer.
LEMMA LlmResultStep ==
  ASSUME IInv, LlmResult, TypeOK',
         \/ status' \in {"user", "jobs", "done", "backoff", "failed"} /\ UNCHANGED call
         \/ /\ status' = "tools" /\ loop'.pending # {}
            /\ \A s \in loop'.pending : call'[s] \in {"requested", "returned"}
            /\ \A s \in Slots \ loop'.pending : call'[s] = call[s]
  PROVE  IInv'
<1>1. Ran("llm") /\ "llm" \in Transform /\ gen \in results /\ ~Ended /\ results' = {}
  BY DEF LlmResult, Transform
<1>2. UNCHANGED <<inputVars, delegate, asking, mailVars, jobVars, ticket, hint,
                  queued, flights, gen, wasTerminal, history>>
  BY DEF LlmResult
<1>3. todo' \subseteq Systems /\ Ordered' /\ InFrame'
  BY <1>1, <1>2, MailInTime, TransformStep DEF mailVars
<1>4. Counted'
  BY <1>1, <1>2 DEF IInv, Counted, inputVars, jobVars
<1>5. ASSUME OneTurn' PROVE Asked' /\ Turning' /\ Halted'
  <2>1. /\ queued = 0 /\ flights = 0 /\ Active = 1
        /\ status \in {"agent", "running"} /\ asking = NoCall /\ Requests = {} /\ hint = "none"
        /\ ~HasMail(continues) /\ ~interrupted
    BY <1>1, <1>2, <1>5, AnsweredIs DEF OneTurn, history
  <2>2. Active' = 0
    BY <1>1, <1>2, <2>1, SMT DEF Active
  <2>3. Turning'
    BY <1>2, <2>1, <2>2 DEF Turning, mailVars, Terminal, Ended
  <2>4. Halted'
    BY <1>2, <2>1 DEF Halted, history
  <2>5. \A s \in Slots : call[s] \notin {"requested", "asking", "confirmed"}
    BY <2>1 DEF Requests
  <2>6. Asked'
    <3>1. CASE UNCHANGED call /\ status' # "tools"
      BY <1>2, <2>1, <2>5, <3>1, RequestsAre DEF Asked
    <3>2. CASE /\ status' = "tools" /\ loop'.pending # {}
               /\ \A s \in loop'.pending : call'[s] \in {"requested", "returned"}
               /\ \A s \in Slots \ loop'.pending : call'[s] = call[s]
      <4>1. \A s \in Slots : call'[s] # "asking"
        BY <2>5, <3>2
      <4>2. Requests' \subseteq loop'.pending
        BY <2>5, <3>2 DEF Requests
      <4> QED
        BY <1>2, <2>1, <3>2, <4>1, <4>2 DEF Asked
    <3> QED
      BY <3>1, <3>2
  <2> QED
    BY <2>3, <2>4, <2>6
<1> QED
  BY <1>3, <1>4, <1>5 DEF IInv, Turn

LEMMA LlmTextStep ==
  ASSUME IInv, LlmText
  PROVE  IInv'
<1>1. LlmResult /\ loop' = NoLoop /\ status' = AfterText /\ UNCHANGED <<retries, call>>
  BY DEF LlmText, EndLoop
<1>2. status' \in {"user", "jobs", "done"}
  BY <1>1 DEF AfterText
<1>3. todo' \subseteq Systems /\ results' = {}
  BY <1>1 DEF LlmResult, Ran, IInv, TypeOK
<1>4. NoLoop \in [pending : SUBSET Slots, iteration : 0..(2 * MaxIter)]
  BY TurnAssumption, SMT DEF NoLoop
<1>5. TypeOK'
  BY <1>1, <1>2, <1>3, <1>4 DEF IInv, TypeOK, LlmResult, Statuses, Terminal, inputVars, mailVars, jobVars, history
<1> QED
  BY <1>1, <1>2, <1>5, LlmResultStep

LEMMA LlmErrorStep ==
  ASSUME IInv, NEW retryable \in BOOLEAN, LlmError(retryable)
  PROVE  IInv'
<1>1. LlmResult /\ loop' = NoLoop /\ UNCHANGED call
  BY DEF LlmError, EndLoop
<1>2. status' \in {"jobs", "failed", "backoff"}
  BY DEF LlmError
<1>3. retries' = retries \/ (retries < MaxRetries /\ retries' = retries + 1)
  BY DEF LlmError
<1>4. retries' \in 0..MaxRetries
  BY <1>3, TurnAssumption, SMT DEF IInv, TypeOK
<1>5. todo' \subseteq Systems /\ results' = {}
  BY <1>1 DEF LlmResult, Ran, IInv, TypeOK
<1>6. NoLoop \in [pending : SUBSET Slots, iteration : 0..(2 * MaxIter)]
  BY TurnAssumption, SMT DEF NoLoop
<1>7. TypeOK'
  BY <1>1, <1>2, <1>4, <1>5, <1>6 DEF IInv, TypeOK, LlmResult, Statuses, Terminal, inputVars, mailVars, jobVars, history
<1> QED
  BY <1>1, <1>2, <1>7, LlmResultStep

LEMMA LlmToolCallsStep ==
  ASSUME IInv, NEW calls \in SUBSET Slots, LlmToolCalls(calls)
  PROVE  IInv'
<1> DEFINE n == loop.iteration + 1
<1>1. LlmResult /\ calls # {} /\ UNCHANGED retries /\ todo' \subseteq Systems /\ results' = {}
  BY DEF LlmToolCalls, LlmResult, Ran, IInv, TypeOK
<1>2. /\ n > 1 /\ HardLimit(n) => loop' = NoLoop /\ status' = "failed" /\ UNCHANGED call
      /\ ~(n > 1 /\ HardLimit(n)) =>
           /\ loop' = [pending |-> calls, iteration |-> n]
           /\ status' = "tools"
           /\ call' = [s \in Slots |->
                IF s \notin calls THEN call[s]
                ELSE IF n > 1 /\ n > MaxIter THEN "returned"
                ELSE "requested"]
  BY DEF LlmToolCalls
<1>3. loop.iteration \in 0..(2 * MaxIter) /\ MaxIter \in Nat \ {0} /\ call \in [Slots -> CallStates]
  BY TurnAssumption DEF IInv, TypeOK
<1>4. n \in Nat
  BY <1>3
<1>5. CASE n > 1 /\ HardLimit(n)
  <2>1. NoLoop \in [pending : SUBSET Slots, iteration : 0..(2 * MaxIter)]
    BY TurnAssumption, SMT DEF NoLoop
  <2>2. TypeOK'
    BY <1>1, <1>2, <1>5, <2>1 DEF IInv, TypeOK, LlmResult, Statuses, Terminal, inputVars, mailVars, jobVars, history
  <2> QED
    BY <1>1, <1>2, <1>5, <2>2, LlmResultStep
<1>6. CASE ~(n > 1 /\ HardLimit(n))
  <2>1. n \in 0..(2 * MaxIter)
    BY <1>3, <1>6, SMT DEF HardLimit
  <2> HIDE DEF n
  <2>2. loop' \in [pending : SUBSET Slots, iteration : 0..(2 * MaxIter)] /\ loop'.pending = calls
    BY <1>2, <1>6, <2>1
  <2>3. /\ \A s \in calls : call'[s] \in {"requested", "returned"}
        /\ \A s \in Slots \ calls : call'[s] = call[s]
        /\ call' \in [Slots -> CallStates]
    BY <1>2, <1>3, <1>6, Zenon DEF CallStates
  <2>4. TypeOK'
    BY <1>1, <1>2, <1>6, <2>2, <2>3 DEF IInv, TypeOK, LlmResult, Statuses, Terminal, inputVars, mailVars, jobVars, history
  <2> QED
    BY <1>1, <1>2, <1>6, <2>2, <2>3, <2>4, LlmResultStep
<1> QED
  BY <1>5, <1>6

LEMMA LlmNothingStep ==
  ASSUME IInv, LlmNothing
  PROVE  IInv'
<1>1. Ran("llm") /\ "llm" \in Transform /\ (gen \notin results \/ Ended) /\ results' = {}
  BY DEF LlmNothing, Transform
<1>2. /\ loop' = IF gen \in results THEN NoLoop ELSE loop
      /\ UNCHANGED <<inputVars, taskVars, mailVars, jobVars, retryVars, hint,
                     queued, flights, gen, call, wasTerminal, history>>
  BY DEF LlmNothing
<1>3. todo' \subseteq Systems /\ Ordered' /\ InFrame'
  BY <1>1, <1>2, MailInTime, TransformStep DEF mailVars
<1>4. TypeOK'
  <2>1. NoLoop \in [pending : SUBSET Slots, iteration : 0..(2 * MaxIter)]
    BY TurnAssumption, SMT DEF NoLoop
  <2> QED
    BY <1>1, <1>2, <1>3, <2>1 DEF IInv, TypeOK, inputVars, taskVars, mailVars, jobVars, retryVars, history
<1>5. Counted'
  BY <1>1, <1>2 DEF IInv, Counted, inputVars, jobVars
<1>6. ASSUME OneTurn' PROVE Asked' /\ Turning' /\ Halted'
  <2>1. Asked /\ Turning /\ Halted
    BY <1>2, <1>6 DEF IInv, Turn, OneTurn, history
  <2>2. /\ Requests' = Requests /\ (Ended <=> Ended')
        /\ HasMail(continues)' = HasMail(continues) /\ (Idle <=> Idle')
    BY <1>2, RequestsAre DEF Ended, Idle, taskVars, mailVars
  <2>3. Active \in Nat /\ Active' \in Nat /\ Active' <= Active /\ (gen \notin results => Active' = Active)
    BY <1>1, <1>2, SMT DEF Active, IInv, TypeOK
  <2>4. Asked'
    BY <1>1, <1>2, <2>1, <2>2 DEF Asked, taskVars
  <2>5. Turning'
    <3>1. Active' <= 1
      BY <2>1, <2>2, <2>3, SMT DEF Turning
    <3> QED
      BY <1>1, <1>2, <2>1, <2>2, <2>3, <3>1 DEF Turning, taskVars
  <2>6. Halted'
    <3>1. interrupted => Active' = 0
      BY <2>1, <2>2, <2>3, SMT DEF Halted
    <3> QED
      BY <1>2, <2>1, <2>2, <3>1 DEF Halted, taskVars, history
  <2> QED
    BY <2>4, <2>5, <2>6
<1> QED
  BY <1>3, <1>4, <1>5, <1>6 DEF IInv, Turn

LEMMA WakeStep ==
  ASSUME IInv, Wake
  PROVE  IInv'
<1>1. Ran("wake") /\ "wake" \in Transform /\ Wakes
  BY DEF Wake, Transform
<1>2. /\ inbox' = NoMail
      /\ continues' = Plus(continues, IF inbox["steer"] > 0 THEN "steer" ELSE "notice", 1)
      /\ UNCHANGED <<inputVars, taskVars, deliveries, report, jobVars, retryVars,
                     hint, llmVars, gen, loopVars, wasTerminal, history>>
  BY DEF Wake
<1>3. PICK k \in Kinds : continues' = Plus(continues, k, 1)
  BY <1>2 DEF Kinds
<1>4. continues' \in [Kinds -> Nat] /\ HasMail(continues)'
  <2>1. 1 \in Nat /\ 1 > 0 /\ continues \in [Kinds -> Nat]
    BY DEF IInv, TypeOK
  <2> QED
    BY <1>3, <2>1, MailIs, Zenon
<1>5. todo' \subseteq Systems /\ Ordered' /\ InFrame'
  BY <1>1, <1>2, MailInTime, TransformStep
<1>6. TypeOK'
  BY <1>2, <1>4, <1>5, MailIs DEF IInv, TypeOK, inputVars, taskVars, jobVars, retryVars, llmVars, loopVars, history
<1>7. Counted'
  BY <1>2 DEF IInv, Counted, inputVars, jobVars, llmVars
<1>8. ASSUME OneTurn' PROVE Asked' /\ Turning' /\ Halted'
  <2>1. Asked /\ Turning /\ Halted
    BY <1>2, <1>8 DEF IInv, Turn, OneTurn, history
  <2>2. /\ Requests' = Requests /\ (Ended <=> Ended') /\ Active' = Active /\ (Idle <=> Idle')
    BY <1>2, RequestsAre DEF Active, Ended, Idle, taskVars, llmVars, loopVars
  <2>3. status \in {"user", "jobs"} /\ asking = NoCall /\ ~Ended
    BY <1>1, <2>1 DEF Wakes, Idle, Asked, Ended, Terminal
  <2>4. Asked'
    BY <1>2, <2>1, <2>2, <2>3 DEF Asked, taskVars, loopVars
  <2>5. Turning'
    BY <1>2, <2>1, <2>2, <2>3 DEF Turning, taskVars
  <2>6. Halted'
    BY <1>2, <2>1, <2>2, <2>3 DEF Halted, taskVars, history
  <2> QED
    BY <2>4, <2>5, <2>6
<1> QED
  BY <1>5, <1>6, <1>7, <1>8 DEF IInv, Turn

LEMMA ContinueTaskStep ==
  ASSUME IInv, ContinueTask
  PROVE  IInv'
<1>1. Ran("continue") /\ "continue" \in Transform /\ continues' = NoMail
  BY DEF ContinueTask, Transform
<1>2. UNCHANGED <<inputVars, asking, deliveries, inbox, jobVars, retryVars,
                  llmVars, gen, loopVars, wasTerminal, leftover>>
  BY DEF ContinueTask
<1>3. /\ ~HasMail(continues) \/ Ended => UNCHANGED <<status, delegate, hint, report, interrupted>>
      /\ ~(~HasMail(continues) \/ Ended) =>
           /\ status' = "ready" /\ delegate' = FALSE /\ interrupted' = FALSE
           /\ hint' \in {"agent", "main"} /\ report' \in BOOLEAN
  BY DEF ContinueTask
<1>4. todo' \subseteq Systems /\ Ordered' /\ InFrame'
  BY <1>1, <1>2, MailIs, MailInTime, TransformStep
<1>5. TypeOK'
  <2>1. /\ status' \in Statuses /\ delegate' \in BOOLEAN /\ report' \in BOOLEAN
        /\ hint' \in {"none", "agent", "main"} /\ interrupted' \in BOOLEAN
    BY <1>3 DEF IInv, TypeOK, Statuses
  <2> QED
    BY <1>1, <1>2, <1>4, <2>1, MailIs DEF IInv, TypeOK, inputVars, jobVars, retryVars, llmVars, loopVars
<1>6. Counted'
  BY <1>2 DEF IInv, Counted, inputVars, jobVars, llmVars
<1>7. ASSUME OneTurn' PROVE Asked' /\ Turning' /\ Halted'
  <2>1. Asked /\ Turning /\ Halted
    BY <1>2, <1>7 DEF IInv, Turn, OneTurn
  <2>2. Requests' = Requests /\ Active' = Active /\ Active \in Nat /\ ~HasMail(continues)'
    BY <1>1, <1>2, RequestsAre, ActiveIs, MailIs DEF IInv, Active, llmVars, loopVars
  <2>3. CASE ~HasMail(continues) \/ Ended
    <3>1. UNCHANGED <<status, delegate, hint, interrupted>> /\ (Ended <=> Ended')
      BY <1>3, <2>3 DEF Ended
    <3>2. Asked'
      BY <1>2, <2>1, <2>2, <2>3, <3>1 DEF Asked, loopVars
    <3>3. Turning'
      BY <1>2, <2>1, <2>2, <2>3, <3>1 DEF Turning, Ended, Terminal
    <3>4. Halted'
      BY <1>2, <2>1, <2>2, <2>3, <3>1 DEF Halted, Idle
    <3> QED
      BY <3>2, <3>3, <3>4
  <2>4. CASE HasMail(continues) /\ ~Ended
    <3>1. /\ status' = "ready" /\ delegate' = FALSE /\ ~interrupted' /\ hint' \in {"agent", "main"}
          /\ status \in {"ready", "user", "jobs"} /\ asking = NoCall
      BY <1>3, <2>1, <2>4 DEF Turning, Asked
    <3>2. Active = 0
      BY <2>1, <2>2, <2>4, <3>1, SMT DEF Turning
    <3>3. Asked'
      BY <1>2, <2>1, <2>2, <2>4, <3>1 DEF Asked, loopVars
    <3>4. Turning'
      BY <2>2, <3>1, <3>2 DEF Turning
    <3>5. Halted'
      BY <3>1 DEF Halted
    <3> QED
      BY <3>3, <3>4, <3>5
  <2> QED
    BY <2>3, <2>4
<1> QED
  BY <1>4, <1>5, <1>6, <1>7 DEF IInv, Turn

LEMMA FinishTaskStep ==
  ASSUME IInv, FinishTask
  PROVE  IInv'
<1>1. Ran("finish") /\ "finish" \in Transform
  BY DEF FinishTask, Transform
<1>2. UNCHANGED <<inputs, answer, delegate, asking, mailVars, jobVars,
                  retryVars, hint, queued, gen, loopVars, wasTerminal, interrupted>>
  BY DEF FinishTask
<1>3. todo' \subseteq Systems /\ Ordered' /\ InFrame'
  BY <1>1, <1>2, MailInTime, TransformStep DEF mailVars
<1>4. CASE command = "finish"
  <2>1. Abort /\ status' = "done" /\ command' = "none" /\ leftover' = (leftover \/ hint = "agent")
    BY <1>4 DEF FinishTask
  <2>2. /\ flights' = 0 /\ results' \subseteq 0..gen
        /\ Active' \in Nat /\ Active' <= Active
    BY <1>2, <2>1, AbortIs DEF IInv
  <2>3. TypeOK'
    <3>1. results' \subseteq 0..MaxStops
      BY <2>2, TurnAssumption, SMT DEF IInv, TypeOK
    <3> QED
      BY <1>2, <1>3, <2>1, <2>2, <3>1
         DEF IInv, TypeOK, Statuses, Terminal, mailVars, jobVars, retryVars, loopVars
  <2>4. Counted'
    BY <1>2, <2>1, <2>2 DEF IInv, Counted, jobVars
  <2>5. ASSUME OneTurn' PROVE Asked' /\ Turning' /\ Halted'
    <3>1. OneTurn /\ hint # "agent"
      BY <2>1, <2>5 DEF OneTurn, IInv, TypeOK
    <3>2. Turning /\ Halted /\ Active \in Nat
      BY <3>1, ActiveIs DEF IInv, Turn
    <3>3. Ended' /\ Asked'
      BY <2>1 DEF Asked, Ended, Terminal
    <3>4. Active' <= 1 /\ (Active = 0 => Active' = 0)
      BY <2>2, <3>2, SMT DEF Turning
    <3>5. Turning'
      BY <1>2, <2>1, <3>1, <3>3, <3>4 DEF Turning
    <3>6. Halted'
      BY <1>2, <3>2, <3>3, <3>4 DEF Halted
    <3> QED
      BY <3>3, <3>5, <3>6
  <2> QED
    BY <1>3, <2>3, <2>4, <2>5 DEF IInv, Turn
<1>5. CASE command # "finish"
  <2>1. UNCHANGED <<status, command, flights, results, leftover>>
    BY <1>5 DEF FinishTask
  <2>2. TypeOK'
    BY <1>2, <1>3, <2>1 DEF IInv, TypeOK, mailVars, jobVars, retryVars, loopVars
  <2>3. Counted'
    BY <1>2, <2>1 DEF IInv, Counted, jobVars
  <2>4. Turn'
    BY <1>2, <2>1, TurnKept DEF IInv, mailVars, loopVars
  <2> QED
    BY <1>3, <2>2, <2>3, <2>4 DEF IInv
<1> QED
  BY <1>4, <1>5

LEMMA StopTaskStep ==
  ASSUME IInv, StopTask
  PROVE  IInv'
<1>1. Ran("stop") /\ "stop" \in Transform /\ command' = IF command = "stop" THEN "none" ELSE command
  BY DEF StopTask, Transform
<1>2. UNCHANGED <<inputs, answer, delegate, mailVars, jobVars, retryVars, hint,
                  queued, loop, wasTerminal>>
  BY DEF StopTask
<1>3. todo' \subseteq Systems /\ Ordered' /\ InFrame'
  BY <1>1, <1>2, MailInTime, TransformStep DEF mailVars
<1>4. command' \in {"none", "stop", "finish"} /\ command' # "stop"
  BY <1>1 DEF IInv, TypeOK
<1>5. CASE command = "stop" /\ Stoppable
  <2>1. /\ Abort /\ gen' = gen + 1
        /\ call' = [s \in Slots |-> IF s \in Requests THEN "none" ELSE call[s]]
        /\ asking' = NoCall /\ status' = "user" /\ interrupted' = TRUE
        /\ leftover' = (leftover \/ queued > 0 \/ hint = "agent")
    BY <1>5 DEF StopTask
  <2>2. flights' = 0 /\ results' \subseteq 0..gen /\ Active' = queued
    BY <1>2, <2>1, AbortIs DEF IInv
  <2>3. gen' \in 0..MaxStops /\ results' \subseteq 0..MaxStops /\ results' \subseteq 0..gen'
    BY <1>5, <2>1, <2>2, TurnAssumption, SMT DEF IInv, TypeOK, Counted
  <2>4. call' \in [Slots -> CallStates] /\ Requests' = {} /\ \A s \in Slots : call'[s] # "asking"
    BY <2>1 DEF IInv, TypeOK, CallStates, Requests
  <2>5. TypeOK'
    BY <1>2, <1>3, <1>4, <2>1, <2>2, <2>3, <2>4
       DEF IInv, TypeOK, Statuses, mailVars, jobVars, retryVars
  <2>6. Counted'
    BY <1>2, <1>4, <2>3 DEF IInv, Counted, jobVars
  <2>7. ASSUME OneTurn' PROVE Asked' /\ Turning' /\ Halted'
    <3>1. leftover = FALSE /\ ~(queued > 0) /\ hint # "agent"
      BY <2>1, <2>7 DEF OneTurn, IInv, TypeOK
    <3>2. Turning /\ queued \in Nat
      BY <3>1 DEF IInv, Turn, TypeOK, OneTurn
    <3>3. Active' = 0
      BY <2>2, <3>1, <3>2
    <3>4. Asked'
      BY <2>1, <2>4 DEF Asked
    <3>5. Turning'
      BY <1>2, <2>1, <3>1, <3>3 DEF Turning
    <3>6. Halted'
      BY <2>1, <3>3 DEF Halted, Idle
    <3> QED
      BY <3>4, <3>5, <3>6
  <2> QED
    BY <1>3, <2>5, <2>6, <2>7 DEF IInv, Turn
<1>6. CASE ~(command = "stop" /\ Stoppable)
  <2>1. UNCHANGED <<flights, results, gen, call, asking, status, history>>
    BY <1>6 DEF StopTask
  <2>2. TypeOK'
    BY <1>2, <1>3, <1>4, <2>1 DEF IInv, TypeOK, mailVars, jobVars, retryVars, history
  <2>3. Counted'
    BY <1>2, <1>4, <2>1 DEF IInv, Counted, jobVars
  <2>4. Turn'
    BY <1>2, <2>1, TurnKept DEF IInv, mailVars, history
  <2> QED
    BY <1>3, <2>2, <2>3, <2>4 DEF IInv
<1> QED
  BY <1>5, <1>6

LEMMA TurnResetStep ==
  ASSUME IInv, TurnReset
  PROVE  IInv'
<1>1. Ran("reset") /\ "reset" \in Transform /\ loop' = IF Idle /\ Requests = {} THEN NoLoop ELSE loop
  BY DEF TurnReset, Transform
<1>2. UNCHANGED <<inputVars, taskVars, mailVars, jobVars, retryVars, hint,
                  llmVars, gen, call, wasTerminal, history>>
  BY DEF TurnReset
<1>3. todo' \subseteq Systems /\ Ordered' /\ InFrame'
  BY <1>1, <1>2, MailInTime, TransformStep DEF mailVars
<1>4. TypeOK'
  <2>1. NoLoop \in [pending : SUBSET Slots, iteration : 0..(2 * MaxIter)]
    BY TurnAssumption, SMT DEF NoLoop
  <2>2. loop' \in [pending : SUBSET Slots, iteration : 0..(2 * MaxIter)]
    BY <1>1, <2>1 DEF IInv, TypeOK
  <2> QED
    BY <1>2, <1>3, <2>2 DEF IInv, TypeOK, inputVars, taskVars, mailVars, jobVars, retryVars, llmVars, history
<1>5. Counted'
  BY <1>2 DEF IInv, Counted, inputVars, jobVars, llmVars
<1>6. Turn'
  <2>1. CASE UNCHANGED loop
    BY <1>2, <2>1, TurnKept DEF IInv, taskVars, mailVars, llmVars, history
  <2>2. CASE Idle /\ Requests = {}
    <3>1. Requests' = {} /\ Active' = Active /\ (Ended <=> Ended') /\ (Idle <=> Idle')
      BY <1>2, <2>2, RequestsAre DEF Active, Ended, Idle, taskVars, llmVars
    <3>2. OneTurn' => OneTurn /\ Asked /\ Turning /\ Halted
      BY <1>2 DEF IInv, Turn, OneTurn, history
    <3>3. OneTurn' => Asked'
      BY <1>2, <2>2, <3>1, <3>2 DEF Asked, Idle, taskVars
    <3>4. OneTurn' => Turning'
      BY <1>2, <3>1, <3>2 DEF Turning, taskVars, mailVars
    <3>5. OneTurn' => Halted'
      BY <1>2, <3>1, <3>2 DEF Halted, taskVars, mailVars, history
    <3> QED
      BY <3>3, <3>4, <3>5 DEF Turn
  <2> QED
    BY <1>1, <2>1, <2>2
<1> QED
  BY <1>3, <1>4, <1>5, <1>6 DEF IInv

LEMMA TerminateStep ==
  ASSUME IInv, Terminate
  PROVE  IInv'
<1>1. Ran("terminate") /\ "terminate" \in Transform /\ wasTerminal' = Ended
  BY DEF Terminate, Transform
<1>2. UNCHANGED <<inputVars, taskVars, mailVars, jobVars, retryVars, hint,
                  queued, gen, call, history>>
  BY DEF Terminate
<1>3. todo' \subseteq Systems /\ Ordered' /\ InFrame'
  BY <1>1, <1>2, MailInTime, TransformStep DEF mailVars
<1>4. wasTerminal' \in BOOLEAN
  BY <1>1 DEF Ended
<1>5. CASE Ended /\ ~wasTerminal
  <2>1. Abort /\ loop' = NoLoop
    BY <1>5 DEF Terminate
  <2>2. /\ flights' = 0 /\ results' \subseteq 0..gen
        /\ Active' \in Nat /\ Active' <= Active
    BY <1>2, <2>1, AbortIs DEF IInv
  <2>3. TypeOK'
    <3>1. results' \subseteq 0..MaxStops
      BY <2>2, TurnAssumption, SMT DEF IInv, TypeOK
    <3>2. NoLoop \in [pending : SUBSET Slots, iteration : 0..(2 * MaxIter)]
      BY TurnAssumption, SMT DEF NoLoop
    <3> QED
      BY <1>2, <1>3, <1>4, <2>1, <2>2, <3>1, <3>2
         DEF IInv, TypeOK, inputVars, taskVars, mailVars, jobVars, retryVars, history
  <2>4. Counted'
    BY <1>2, <2>2 DEF IInv, Counted, inputVars, jobVars
  <2>5. ASSUME OneTurn' PROVE Asked' /\ Turning' /\ Halted'
    <3>1. Turning /\ Halted /\ Active \in Nat
      BY <1>2, <2>5, ActiveIs DEF IInv, Turn, OneTurn, history
    <3>2. Ended' /\ Asked'
      BY <1>2, <1>5 DEF Asked, Ended, taskVars
    <3>3. Active' <= 1 /\ (Active = 0 => Active' = 0)
      BY <2>2, <3>1, SMT DEF Turning
    <3>4. Turning'
      BY <1>2, <3>1, <3>2, <3>3 DEF Turning, Ended, Terminal, taskVars, mailVars
    <3>5. Halted'
      BY <1>2, <3>1, <3>2, <3>3 DEF Halted, history
    <3> QED
      BY <3>2, <3>4, <3>5
  <2> QED
    BY <1>3, <2>3, <2>4, <2>5 DEF IInv, Turn
<1>6. CASE ~(Ended /\ ~wasTerminal)
  <2>1. UNCHANGED <<flights, results, loop>>
    BY <1>6 DEF Terminate
  <2>2. TypeOK'
    BY <1>2, <1>3, <1>4, <2>1
       DEF IInv, TypeOK, inputVars, taskVars, mailVars, jobVars, retryVars, history
  <2>3. Counted'
    BY <1>2, <2>1 DEF IInv, Counted, inputVars, jobVars
  <2>4. Turn'
    BY <1>2, <2>1, TurnKept DEF IInv, taskVars, mailVars, history
  <2> QED
    BY <1>3, <2>2, <2>3, <2>4 DEF IInv
<1> QED
  BY <1>5, <1>6

LEMMA RetryReadyStep ==
  ASSUME IInv, RetryReady
  PROVE  IInv'
<1>1. Ran("retry") /\ "retry" \in Transform /\ ticket' = 0
  BY DEF RetryReady, Transform
<1>2. UNCHANGED <<inputVars, delegate, asking, mailVars, jobVars, retries,
                  llmVars, gen, loopVars, wasTerminal, history>>
  BY DEF RetryReady
<1>3. /\ TicketValid => status = "backoff" /\ status' = "ready"
                        /\ hint' = IF delegate THEN "agent" ELSE "main"
      /\ ~TicketValid => UNCHANGED <<status, hint>>
  BY DEF RetryReady, TicketValid
<1>4. todo' \subseteq Systems /\ Ordered' /\ InFrame'
  BY <1>1, <1>2, MailInTime, TransformStep DEF mailVars
<1>5. TypeOK'
  <2>1. ticket' \in 0..MaxRetries
    BY <1>1, TurnAssumption, SMT
  <2>2. status' \in Statuses /\ hint' \in {"none", "agent", "main"}
    BY <1>3 DEF IInv, TypeOK, Statuses
  <2> QED
    BY <1>2, <1>4, <2>1, <2>2 DEF IInv, TypeOK, inputVars, mailVars, jobVars, llmVars, loopVars, history
<1>6. Counted'
  BY <1>2 DEF IInv, Counted, inputVars, jobVars, llmVars
<1>7. Turn'
  <2>1. CASE ~TicketValid
    BY <1>2, <1>3, <2>1, TurnKept DEF IInv, mailVars, llmVars, loopVars, history
  <2>2. CASE TicketValid
    <3>1. SUFFICES ASSUME OneTurn'
                   PROVE  Asked' /\ Turning' /\ Halted'
      BY DEF Turn
    <3>2. Asked /\ Turning /\ Halted
      BY <1>2, <3>1 DEF IInv, Turn, OneTurn, history
    <3>3. /\ status = "backoff" /\ status' = "ready" /\ ~Ended /\ hint' \in {"agent", "main"}
          /\ hint' = "main" => ~delegate
      BY <1>3, <2>2 DEF Ended, Terminal
    <3>4. Requests' = Requests /\ Active' = Active /\ Active \in Nat
      BY <1>2, RequestsAre, ActiveIs DEF IInv, Active, llmVars, loopVars
    <3>5. asking = NoCall /\ Active = 0 /\ ~interrupted
      <4>1. asking = NoCall
        BY <3>2, <3>3 DEF Asked
      <4>2. Active = 0
        BY <3>2, <3>3, <3>4, SMT DEF Turning
      <4>3. ~interrupted
        BY <3>2, <3>3 DEF Halted, Idle
      <4> QED
        BY <4>1, <4>2, <4>3
    <3>6. Asked'
      BY <1>2, <3>2, <3>3, <3>4, <3>5 DEF Asked, loopVars
    <3>7. Turning'
      BY <1>2, <3>3, <3>4, <3>5 DEF Turning
    <3>8. Halted'
      BY <1>2, <3>5 DEF Halted, history
    <3> QED
      BY <3>6, <3>7, <3>8
  <2> QED
    BY <2>1, <2>2
<1> QED
  BY <1>4, <1>5, <1>6, <1>7 DEF IInv

LEMMA CollectStep ==
  ASSUME IInv, Collect
  PROVE  IInv'
<1>1. Ran("collect") /\ "collect" \in Transform
  BY DEF Collect, Transform
<1>2. UNCHANGED <<inputVars, delegate, asking, mailVars, jobVars, retryVars,
                  hint, flights, results, gen, wasTerminal, history>>
  BY DEF Collect
<1>3. /\ ~LoopComplete => UNCHANGED <<loop, status, queued>>
      /\ LoopComplete /\ HardLimit(loop.iteration) =>
           loop' = NoLoop /\ status' = "failed" /\ UNCHANGED queued
      /\ LoopComplete /\ ~HardLimit(loop.iteration) =>
           /\ loop' = [loop EXCEPT !.pending = {}]
           /\ status' = "agent" /\ queued' = queued + 1
  BY DEF Collect
<1>4. call' = [s \in Slots |-> IF LoopComplete /\ s \in loop.pending THEN "none" ELSE Processed(s)]
  BY DEF Collect
<1>5. todo' \subseteq Systems /\ Ordered' /\ InFrame'
  BY <1>1, <1>2, MailInTime, TransformStep DEF mailVars
<1>6. TypeOK'
  <2>1. call' \in [Slots -> CallStates]
    BY <1>4 DEF IInv, TypeOK, Processed, CallStates
  <2>2. NoLoop \in [pending : SUBSET Slots, iteration : 0..(2 * MaxIter)]
    BY TurnAssumption, SMT DEF NoLoop
  <2>3. [loop EXCEPT !.pending = {}] \in [pending : SUBSET Slots, iteration : 0..(2 * MaxIter)]
    BY DEF IInv, TypeOK
  <2>4. loop' \in [pending : SUBSET Slots, iteration : 0..(2 * MaxIter)]
    BY <1>3, <2>2, <2>3 DEF IInv, TypeOK
  <2>5. status' \in Statuses /\ queued' \in Nat
    BY <1>3 DEF IInv, TypeOK, Statuses, Terminal
  <2> QED
    BY <1>2, <1>5, <2>1, <2>4, <2>5 DEF IInv, TypeOK, inputVars, mailVars, jobVars, retryVars, history
<1>7. Counted'
  BY <1>2 DEF IInv, Counted, inputVars, jobVars
<1>8. ASSUME OneTurn' PROVE Asked' /\ Turning' /\ Halted'
  <2>1. Asked /\ Turning /\ Halted
    BY <1>2, <1>8 DEF IInv, Turn, OneTurn, history
  <2>2. /\ \A s \in Slots : ~(LoopComplete /\ s \in loop.pending) => call'[s] = Processed(s)
        /\ LoopComplete => \A s \in loop.pending : call'[s] = "none"
    <3>1. loop.pending \subseteq Slots
      BY DEF IInv, TypeOK
    <3> QED
      BY <1>4, <3>1, Zenon
  <2>3. LoopComplete => \A s \in loop.pending : call[s] \in {"returned", "kept"}
    BY DEF LoopComplete, Processed
  <2>4. \A s \in Slots : \/ call'[s] = call[s]
                         \/ call[s] \in {"returned", "kept"} /\ call'[s] \in {"none", "kept"}
    BY <2>2, <2>3 DEF Processed
  <2>5. /\ Requests' = Requests
        /\ \A s \in Slots : call'[s] = "asking" <=> call[s] = "asking"
    BY <2>4 DEF Requests
  <2>6. CASE ~LoopComplete
    <3>1. UNCHANGED <<loop, status, queued>> /\ Active' = Active /\ (Ended <=> Ended') /\ (Idle <=> Idle')
      BY <1>2, <1>3, <2>6 DEF Active, Ended, Idle
    <3>2. asking \in Slots \cup {NoCall} /\ loop.pending \subseteq Slots
      BY DEF IInv, TypeOK
    <3>3. \A s \in loop.pending : call[s] # "none" => call'[s] # "none"
      BY <2>2, <2>6, <3>2 DEF Processed
    <3>4. Asked'
      BY <1>2, <2>1, <2>5, <3>1, <3>2, <3>3 DEF Asked, mailVars
    <3>5. Turning'
      BY <1>2, <2>1, <3>1 DEF Turning, mailVars
    <3>6. Halted'
      BY <1>2, <2>1, <3>1 DEF Halted, mailVars, history
    <3> QED
      BY <3>4, <3>5, <3>6
  <2>7. CASE LoopComplete
    <3>1. status = "tools" /\ ~Ended
      BY <2>7 DEF LoopComplete, Ended, Terminal
    <3>2. asking = NoCall /\ hint = "none" /\ ~HasMail(continues) /\ ~interrupted
      BY <2>1, <3>1 DEF Asked, Turning, Halted, Idle
    <3>3. Requests = {}
      BY <2>1, <2>3, <2>7, <3>1 DEF Asked, Requests
    <3>4. Active = 0 /\ queued = 0 /\ flights = 0 /\ gen \notin results
      <4>1. Active # 1 /\ Active <= 1
        BY <2>1, <3>1 DEF Turning
      <4> QED
        BY <4>1, SMT DEF Active, IInv, TypeOK
    <3>5. \A s \in Slots : call'[s] # "asking"
      BY <2>5, <3>3 DEF Requests
    <3>6. Halted'
      BY <1>2, <3>2 DEF Halted, history
    <3>7. CASE HardLimit(loop.iteration)
      <4>1. status' = "failed" /\ Ended' /\ Active' = 0
        BY <1>2, <1>3, <2>7, <3>4, <3>7 DEF Ended, Terminal, Active
      <4> QED
        BY <1>2, <3>2, <3>6, <4>1 DEF Asked, Turning
    <3>8. CASE ~HardLimit(loop.iteration)
      <4>1. status' = "agent" /\ queued' = 1
        BY <1>3, <2>7, <3>4, <3>8
      <4>2. Active' = 1
        BY <1>2, <3>4, <4>1 DEF Active
      <4>3. Asked'
        BY <1>2, <2>5, <3>2, <3>3, <3>5, <4>1 DEF Asked
      <4>4. Turning'
        BY <1>2, <3>2, <4>1, <4>2 DEF Turning, mailVars
      <4> QED
        BY <3>6, <4>3, <4>4
    <3> QED
      BY <3>7, <3>8
  <2> QED
    BY <2>6, <2>7
<1> QED
  BY <1>5, <1>6, <1>7, <1>8 DEF IInv, Turn

LEMMA AtMostOne ==
  ASSUME NEW S \in SUBSET Slots, Cardinality(S) <= 1, NEW x \in S, NEW y \in S
  PROVE  x = y
<1>1. SUFFICES ASSUME x # y PROVE FALSE
  OBVIOUS
<1>2. IsFiniteSet(S) /\ IsFiniteSet({x}) /\ Cardinality({x}) = 1
  BY TurnAssumption, FS_Subset, FS_Singleton
<1>3. IsFiniteSet({x} \cup {y}) /\ Cardinality({x} \cup {y}) = 2
  <2>1. y \notin {x}
    BY <1>1
  <2>2. IsFiniteSet({x} \cup {y}) /\ Cardinality({x} \cup {y}) = Cardinality({x}) + 1
    BY <1>2, <2>1, FS_AddElement, Zenon
  <2> QED
    BY <1>2, <2>2
<1>4. Cardinality({x} \cup {y}) <= Cardinality(S)
  BY <1>2, FS_Subset
<1>5. Cardinality(S) \in Nat
  BY <1>2, FS_CardinalityType
<1> QED
  BY <1>3, <1>4, <1>5

\* A task that waits for its tools or its user is put back to its loop.
LEMMA RestoredIs ==
  ASSUME loop.pending # {}, NEW st
  PROVE  Restored(st) = st
<1>1. loop # NoLoop
  BY DEF NoLoop
<1> QED
  BY <1>1 DEF Restored

LEMMA ClaimStep ==
  ASSUME IInv, Claim
  PROVE  IInv'
<1>1. Ran("claim") /\ Runnable("claim") /\ "claim" \in Systems /\ ~Ended
  BY DEF Claim, Ran, Systems, Dispatching
<1>2. PICK to \in [Requests -> CallStates] :
        LET asks == {s \in Requests : to[s] = "asking" /\ call[s] = "requested"}
            now  == {s \in Requests : to[s] = "returned"}
        IN  /\ \A s \in Requests : to[s] \in Fates(call[s])
            /\ Cardinality(asks) <= 1
            /\ asks # {} => MayAsk
            /\ MayAsk /\ asks = {} => \A s \in Requests : to[s] # "requested"
            /\ call' = [s \in Slots |-> IF s \in Requests THEN to[s] ELSE call[s]]
            /\ IF asks = {}
                 THEN /\ \/ UNCHANGED status
                         \/ now # {} /\ status' = Restored(status)
                      /\ UNCHANGED asking
                 ELSE status' = "user" /\ asking' \in asks
  BY Zenon DEF Claim
<1>3. UNCHANGED <<inputVars, delegate, mailVars, jobVars, retryVars, hint,
                  llmVars, gen, loop, wasTerminal, history>>
  BY DEF Claim
<1> DEFINE asks == {s \in Requests : to[s] = "asking" /\ call[s] = "requested"}
<1>4. /\ asks \in SUBSET Slots /\ Cardinality(asks) <= 1 /\ (asks # {} => asking = NoCall)
      /\ asks = {} => (status' = status \/ status' = Restored(status)) /\ asking' = asking
      /\ asks # {} => status' = "user" /\ asking' \in asks
  BY <1>2 DEF MayAsk, Requests
<1>5. /\ call' = [s \in Slots |-> IF s \in Requests THEN to[s] ELSE call[s]]
      /\ \A s \in Requests : to[s] \in Fates(call[s])
  BY <1>2
<1>6. \A s \in Requests : /\ s \in Slots /\ to[s] # "none"
                          /\ call[s] = "asking" => to[s] = "asking"
                          /\ to[s] = "asking" => call[s] = "asking" \/ s \in asks
  BY <1>5 DEF Fates, Requests
<1> HIDE DEF asks
<1>7. /\ call' \in [Slots -> CallStates]
      /\ Requests' \subseteq Requests
      /\ \A s \in Slots : /\ call[s] # "none" => call'[s] # "none"
                          /\ call[s] = "asking" => call'[s] = "asking"
                          /\ call'[s] = "asking" => call[s] = "asking" \/ s \in asks
                          /\ s \in asks => call[s] = "requested" /\ call'[s] = "asking"
  <2>1. call' \in [Slots -> CallStates]
    BY <1>5, <1>2 DEF IInv, TypeOK
  <2>2. \A s \in Slots : s \notin Requests => call'[s] = call[s]
    BY <1>5
  <2>3. \A s \in Slots : s \in Requests => call'[s] = to[s]
    BY <1>5
  <2>4. Requests' \subseteq Requests
    BY <2>2 DEF Requests
  <2>5. \A s \in Slots : call[s] = "asking" => s \in Requests
    BY DEF Requests
  <2>6. \A s \in asks : s \in Requests /\ to[s] = "asking" /\ call[s] = "requested"
    BY DEF asks
  <2> QED
    BY <1>6, <2>1, <2>2, <2>3, <2>4, <2>5, <2>6
<1>8. Ordered' /\ todo' \subseteq todo /\ \A t \in todo : t # "claim" => t \in todo'
  BY <1>1, RanOrdered DEF IInv
<1>9. ~HasMail(continues) /\ ~HasMail(deliveries)
  BY <1>1, TransformOver DEF IInv
<1>10. status' \in {status, "ready", "user"}
  BY <1>4 DEF Restored
<1>11. ~Ended'
  BY <1>1, <1>10 DEF Ended, Terminal
<1>12. InFrame'
  BY <1>3, <1>8, <1>9, <1>11 DEF IInv, InFrame, inputVars, mailVars, llmVars
<1>13. TypeOK'
  <2>1. status' \in Statuses /\ asking' \in Slots \cup {NoCall} /\ todo' \subseteq Systems
    BY <1>4, <1>8, <1>10 DEF IInv, TypeOK, Statuses
  <2> QED
    BY <1>3, <1>7, <2>1 DEF IInv, TypeOK, inputVars, mailVars, jobVars, retryVars, llmVars, history
<1>14. Counted'
  BY <1>3 DEF IInv, Counted, inputVars, jobVars, llmVars
<1>15. ASSUME OneTurn' PROVE Asked' /\ Turning' /\ Halted'
  <2>1. Asked /\ Turning /\ Halted
    BY <1>3, <1>15 DEF IInv, Turn, OneTurn, history
  <2>2. Active' = Active /\ Active \in Nat /\ ~HasMail(continues)'
    BY <1>3, <1>9, ActiveIs DEF IInv, Active, llmVars, mailVars
  <2>3. loop.pending \subseteq Slots /\ NoCall \notin Slots /\ asking \in Slots \cup {NoCall}
    BY TurnAssumption DEF IInv, TypeOK
  <2>4. CASE asks = {}
    <3>1. status' = status /\ asking' = asking
      <4>1. CASE status = "tools"
        BY <1>1, <1>4, <2>1, <2>4, <4>1, RestoredIs DEF Asked
      <4>2. CASE status # "tools"
        BY <1>4, <2>4, <4>2 DEF Restored
      <4> QED
        BY <4>1, <4>2
    <3>2. Asked'
      <4>1. \A s \in Slots : call'[s] = "asking" => asking = s
        BY <1>1, <1>7, <2>1, <2>4 DEF Asked
      <4>2. asking # NoCall => call'[asking] = "asking"
        BY <1>1, <1>7, <2>1, <2>3 DEF Asked
      <4>3. \A s \in loop.pending : call[s] # "none" => call'[s] # "none"
        BY <1>7, <2>3
      <4> QED
        BY <1>1, <1>3, <1>7, <2>1, <2>2, <3>1, <4>1, <4>2, <4>3 DEF Asked
    <3>3. Turning'
      BY <1>1, <1>3, <2>1, <2>2, <1>9, <3>1 DEF Turning, Ended
    <3>4. Halted'
      BY <1>1, <1>3, <1>9, <2>1, <2>2, <3>1 DEF Halted, Idle, Ended, history
    <3> QED
      BY <3>2, <3>3, <3>4
  <2>5. CASE asks # {}
    <3>1. asking = NoCall /\ status' = "user" /\ asking' \in asks
      BY <1>4, <2>5
    <3>2. Requests # {}
      BY <3>1 DEF asks
    <3>3. /\ status = "tools" /\ hint = "none" /\ loop.pending # {}
          /\ \A s \in loop.pending : call[s] # "none"
      BY <1>1, <2>1, <3>1, <3>2 DEF Asked
    <3>4. Active # 1 /\ Active <= 1 /\ Active = 0 /\ ~interrupted
      <4>1. Active # 1 /\ Active <= 1
        BY <1>1, <2>1, <3>3 DEF Turning
      <4>2. Active = 0
        BY <4>1, <2>2
      <4>3. ~interrupted
        BY <1>1, <2>1, <3>3 DEF Halted, Idle
      <4> QED
        BY <4>1, <4>2, <4>3
    <3>5. \A s \in Slots : call'[s] = "asking" => s \in asks
      BY <1>1, <1>7, <2>1, <2>3, <3>1 DEF Asked
    <3>6. \A s \in Slots : call'[s] = "asking" => asking' = s
      BY <1>4, <3>1, <3>5, AtMostOne
    <3>7. call'[asking'] = "asking" /\ asking' # NoCall
      BY <1>4, <1>7, <2>3, <3>1
    <3>8. \A s \in loop.pending : call'[s] # "none"
      BY <1>7, <2>3, <3>3
    <3>9. Asked'
      BY <1>1, <1>3, <1>7, <2>1, <2>2, <3>1, <3>3, <3>6, <3>7, <3>8 DEF Asked
    <3>10. Turning'
      BY <1>3, <2>2, <3>1, <3>3, <3>4 DEF Turning
    <3>11. Halted'
      BY <1>3, <3>4 DEF Halted, history
    <3> QED
      BY <3>9, <3>10, <3>11
  <2> QED
    BY <2>4, <2>5
<1> QED
  BY <1>8, <1>12, <1>13, <1>14, <1>15 DEF IInv, Turn

LEMMA ClaimEndedStep ==
  ASSUME IInv, ClaimEnded
  PROVE  IInv'
<1>1. Ran("claim") /\ Runnable("claim") /\ "claim" \in Systems /\ Ended
  BY DEF ClaimEnded, Ran, Systems, Dispatching
<1>2. /\ call' = [s \in Slots |-> IF s \in Requests THEN "none" ELSE call[s]]
      /\ UNCHANGED <<inputVars, taskVars, mailVars, jobVars, retryVars, hint,
                     llmVars, gen, loop, wasTerminal, history>>
  BY DEF ClaimEnded
<1>3. Requests' = {} /\ call' \in [Slots -> CallStates]
  BY <1>2 DEF Requests, IInv, TypeOK, CallStates
<1>4. Ordered' /\ todo' \subseteq todo /\ \A t \in todo : t # "claim" => t \in todo'
  BY <1>1, RanOrdered DEF IInv
<1>5. ~HasMail(continues) /\ ~HasMail(deliveries)
  BY <1>1, TransformOver DEF IInv
<1>6. InFrame'
  BY <1>2, <1>3, <1>4, <1>5 DEF IInv, InFrame, inputVars, mailVars, llmVars
<1>7. TypeOK'
  <2>1. todo' \subseteq Systems
    BY <1>4 DEF IInv, TypeOK
  <2> QED
    BY <1>2, <1>3, <2>1 DEF IInv, TypeOK, inputVars, taskVars, mailVars, jobVars, retryVars, llmVars, history
<1>8. Counted'
  BY <1>2 DEF IInv, Counted, inputVars, jobVars, llmVars
<1>9. ASSUME OneTurn' PROVE Asked' /\ Turning' /\ Halted'
  <2>1. Turning /\ Halted
    BY <1>2, <1>9 DEF IInv, Turn, OneTurn, history
  <2>2. Active' = Active /\ Ended'
    BY <1>1, <1>2 DEF Active, Ended, llmVars, taskVars
  <2>3. Asked' /\ Turning'
    BY <1>2, <2>1, <2>2 DEF Asked, Turning, taskVars, mailVars
  <2>4. Halted'
    BY <1>2, <2>1, <2>2 DEF Halted, history
  <2> QED
    BY <2>3, <2>4
<1> QED
  BY <1>4, <1>6, <1>7, <1>8, <1>9 DEF IInv, Turn

LEMMA ConfirmStep ==
  ASSUME IInv, Confirm
  PROVE  IInv'
<1>1. Ran("confirm") /\ Runnable("confirm") /\ "confirm" \in Systems /\ answer' = NoAnswer
  BY DEF Confirm, Ran, Systems, Dispatching
<1>2. UNCHANGED <<inputs, command, delegate, mailVars, jobVars, retryVars,
                  hint, llmVars, gen, loop, wasTerminal, history>>
  BY DEF Confirm
<1> DEFINE c == answer.call
<1>3. /\ c # NoCall /\ call[c] = "asking" =>
           /\ \E to \in AfterAnswer(answer.allow) : call' = [call EXCEPT ![c] = to]
           /\ status' = Restored(IF status = "user" THEN "tools" ELSE status)
           /\ asking' = NoCall
      /\ ~(c # NoCall /\ call[c] = "asking") => UNCHANGED <<call, status, asking>>
  BY DEF Confirm
<1>4. c \in Slots \cup {NoCall}
  BY DEF IInv, TypeOK
<1> HIDE DEF c
<1>5. Ordered' /\ todo' \subseteq todo /\ \A t \in todo : t # "confirm" => t \in todo'
  BY <1>1, RanOrdered DEF IInv
<1>6. ~HasMail(continues) /\ ~HasMail(deliveries) /\ "claim" \notin todo
  <2>1. "claim" \in Before("confirm")
    BY DEF Before
  <2> QED
    BY <1>1, <2>1, TransformOver DEF IInv, Runnable
<1>7. NoAnswer \in [call : Slots \cup {NoCall}, allow : BOOLEAN] /\ NoAnswer.call = NoCall
  BY DEF NoAnswer
<1>8. Counted'
  BY <1>2 DEF IInv, Counted, jobVars, llmVars
<1>9. todo' \subseteq Systems
  BY <1>5 DEF IInv, TypeOK
<1>10. CASE ~(c # NoCall /\ call[c] = "asking")
  <2>1. UNCHANGED <<call, status, asking>>
    BY <1>3, <1>10
  <2>2. Requests' = Requests /\ (Ended <=> Ended')
    BY <2>1, RequestsAre DEF Ended
  <2>3. InFrame'
    BY <1>1, <1>2, <1>5, <1>6, <1>7, <2>2 DEF IInv, InFrame, OneTurn, mailVars, llmVars, history
  <2>4. TypeOK'
    BY <1>1, <1>2, <1>7, <1>9, <2>1 DEF IInv, TypeOK, mailVars, jobVars, retryVars, llmVars, history
  <2>5. Turn'
    BY <1>2, <2>1, TurnKept DEF IInv, mailVars, llmVars, history
  <2> QED
    BY <1>5, <1>8, <2>3, <2>4, <2>5 DEF IInv
<1>11. CASE c # NoCall /\ call[c] = "asking"
  <2>1. PICK to \in {"returned", "confirmed"} : call' = [call EXCEPT ![c] = to]
    BY <1>3, <1>11 DEF AfterAnswer
  <2>2. /\ status' = Restored(IF status = "user" THEN "tools" ELSE status)
        /\ asking' = NoCall /\ c \in Slots
    BY <1>3, <1>4, <1>11
  <2>3. c \in Requests
    BY <1>11, <2>2 DEF Requests
  <2>4. OneTurn' => ~Ended
    BY <1>2, <1>6, <2>3 DEF IInv, InFrame, OneTurn, history
  <2>5. status' \in {status, "ready", "tools"} /\ (OneTurn' => ~Ended')
    BY <2>2, <2>4 DEF Restored, Ended, Terminal
  <2>6. /\ call' \in [Slots -> CallStates] /\ call'[c] = to
        /\ \A s \in Slots : s # c => call'[s] = call[s]
    BY <2>1, <2>2 DEF IInv, TypeOK, CallStates
  <2>7. InFrame'
    BY <1>1, <1>2, <1>5, <1>6, <1>7, <2>5 DEF IInv, InFrame, mailVars, llmVars
  <2>8. TypeOK'
    <3>1. status' \in Statuses
      BY <2>5 DEF IInv, TypeOK, Statuses
    <3> QED
      BY <1>1, <1>2, <1>7, <1>9, <2>2, <2>6, <3>1
         DEF IInv, TypeOK, mailVars, jobVars, retryVars, llmVars, history
  <2>9. ASSUME OneTurn' PROVE Asked' /\ Turning' /\ Halted'
    <3>1. Asked /\ Turning /\ Halted
      BY <1>2, <2>9 DEF IInv, Turn, OneTurn, history
    <3>2. asking = c /\ asking # NoCall
      BY <2>9, <1>11, <2>2, <2>4, <3>1 DEF Asked
    <3>3. /\ status = "user" /\ hint = "none" /\ loop.pending # {}
          /\ \A s \in loop.pending : call[s] # "none"
          /\ Requests \subseteq loop.pending
      BY <2>9, <2>4, <3>1, <3>2 DEF Asked
    <3>4. status' = "tools"
      BY <2>2, <3>3, RestoredIs
    <3>5. Active' = Active /\ Active = 0 /\ ~interrupted /\ ~HasMail(continues)'
      <4>1. Active # 1 /\ Active <= 1 /\ Active \in Nat
        BY <2>9, <2>4, <3>1, <3>3, ActiveIs DEF Turning, IInv
      <4>2. Active' = Active
        BY <1>2 DEF Active, llmVars
      <4>3. ~interrupted
        BY <2>9, <2>4, <3>1, <3>2, <3>3 DEF Halted, Idle
      <4> QED
        BY <1>2, <1>6, <4>1, <4>2, <4>3 DEF mailVars
    <3>6. \A s \in Slots : call'[s] # "asking"
      BY <2>9, <2>4, <2>6, <3>1, <3>2 DEF Asked
    <3>7. Requests' \subseteq loop.pending
      BY <2>3, <2>6, <3>3 DEF Requests
    <3>8. \A s \in loop.pending : call'[s] # "none"
      BY <2>6, <3>3 DEF IInv, TypeOK
    <3>9. Asked'
      BY <1>2, <2>2, <3>3, <3>4, <3>6, <3>7, <3>8 DEF Asked
    <3>10. Turning'
      BY <2>9, <1>2, <2>5, <3>3, <3>4, <3>5 DEF Turning
    <3>11. Halted'
      BY <1>2, <3>5 DEF Halted, history
    <3> QED
      BY <3>9, <3>10, <3>11
  <2> QED
    BY <1>5, <1>8, <2>7, <2>8, <2>9 DEF IInv, Turn
<1> QED
  BY <1>10, <1>11

LEMMA DispatchTaskStep ==
  ASSUME IInv, DispatchTask
  PROVE  IInv'
<1>1. Ran("dispatch") /\ Runnable("dispatch") /\ "dispatch" \in Systems /\ hint' = "none"
  BY DEF DispatchTask, Ran, Systems, Dispatching
<1>2. UNCHANGED <<inputVars, asking, mailVars, jobVars, retryVars, flights,
                  results, gen, loopVars, wasTerminal, history>>
  BY DEF DispatchTask
<1>3. \/ Dispatches /\ status' = "agent" /\ delegate' = TRUE /\ queued' = queued + 1
      \/ Dispatches /\ status' = "failed" /\ UNCHANGED <<delegate, queued>>
      \/ ~Dispatches /\ UNCHANGED <<status, delegate, queued>>
  BY DEF DispatchTask
<1>4. Ordered' /\ todo' \subseteq todo /\ \A t \in todo : t # "dispatch" => t \in todo'
  BY <1>1, RanOrdered DEF IInv
<1>5. ~HasMail(continues) /\ ~HasMail(deliveries) /\ "execute" \in todo /\ "execute" \in todo'
  <2>1. "dispatch" \in Before("execute") /\ "execute" \in Systems
    BY DEF Before, Systems, Dispatching
  <2> QED
    BY <1>1, <1>4, <2>1, TransformOver DEF IInv, Ordered, Runnable
<1>6. InFrame'
  <2>1. Requests' = Requests
    BY <1>2, RequestsAre DEF loopVars
  <2>2. ASSUME OneTurn', Ended', "claim" \notin todo' PROVE Requests = {}
    <3>1. OneTurn
      BY <1>2, <2>2 DEF OneTurn, history
    <3>2. CASE Dispatches
      BY <3>1, <3>2 DEF Dispatches, IInv, Turn, Turning, Asked, Ended, Terminal
    <3>3. CASE ~Dispatches
      <4>1. Ended /\ "claim" \notin todo
        BY <1>1, <1>3, <2>2, <3>3 DEF Ended, Ran, Runnable, Systems
      <4> QED
        BY <3>1, <4>1 DEF IInv, InFrame
    <3> QED
      BY <3>2, <3>3
  <2> QED
    BY <1>1, <1>2, <1>4, <1>5, <2>1, <2>2 DEF IInv, InFrame, inputVars, mailVars
<1>7. TypeOK'
  <2>1. todo' \subseteq Systems
    BY <1>4 DEF IInv, TypeOK
  <2>2. status' \in Statuses /\ delegate' \in BOOLEAN
    BY <1>3, Zenon DEF IInv, TypeOK, Statuses, Terminal
  <2>3. queued' \in Nat
    BY <1>3 DEF IInv, TypeOK
  <2> QED
    BY <1>1, <1>2, <2>1, <2>2, <2>3 DEF IInv, TypeOK, inputVars, mailVars, jobVars, retryVars, loopVars, history
<1>8. Counted'
  BY <1>2 DEF IInv, Counted, inputVars, jobVars
<1>9. ASSUME OneTurn' PROVE Asked' /\ Turning' /\ Halted'
  <2>1. Asked /\ Turning /\ Halted
    BY <1>2, <1>9 DEF IInv, Turn, OneTurn, history
  <2>2. Requests' = Requests /\ ~HasMail(continues)'
    BY <1>2, <1>5, RequestsAre DEF loopVars, mailVars
  <2>3. CASE Dispatches
    <3>1. status = "ready" /\ ~Ended
      BY <2>1, <2>3 DEF Dispatches, Turning, Ended, Terminal
    <3>2. Active = 0 /\ asking = NoCall /\ Requests = {} /\ ~interrupted
      <4>1. Active # 1 /\ Active <= 1 /\ Active \in Nat
        BY <2>1, <3>1, ActiveIs DEF Turning, IInv
      <4>2. asking = NoCall /\ Requests = {}
        BY <2>1, <3>1 DEF Asked
      <4>3. ~interrupted
        BY <1>5, <2>1, <3>1 DEF Halted, Idle
      <4> QED
        BY <4>1, <4>2, <4>3
    <3>3. \/ status' = "agent" /\ Active' = 1
          \/ status' = "failed" /\ Active' = 0
      <4>1. queued \in Nat /\ flights \in Nat
        BY DEF IInv, TypeOK
      <4> QED
        BY <1>2, <1>3, <2>3, <3>2, <4>1, SMT DEF Active
    <3>4. Asked'
      BY <1>2, <2>1, <2>2, <3>1, <3>2, <3>3 DEF Asked, loopVars
    <3>5. Turning'
      BY <1>1, <2>2, <3>3 DEF Turning, Ended, Terminal
    <3>6. Halted'
      BY <1>2, <3>2 DEF Halted, history
    <3> QED
      BY <3>4, <3>5, <3>6
  <2>4. CASE ~Dispatches
    <3>1. UNCHANGED <<status, delegate, queued>> /\ (Ended <=> Ended') /\ (Idle <=> Idle') /\ Active' = Active
      BY <1>2, <1>3, <2>4 DEF Ended, Idle, Active
    <3>2. status # "ready"
      BY <1>5, <2>1, <2>4 DEF Turning, Dispatches
    <3>3. Asked'
      BY <1>1, <1>2, <2>1, <2>2, <3>1 DEF Asked, loopVars
    <3>4. Turning'
      BY <1>1, <2>1, <2>2, <3>1, <3>2 DEF Turning
    <3>5. Halted'
      BY <1>2, <2>1, <3>1, <3>2 DEF Halted, history
    <3> QED
      BY <3>3, <3>4, <3>5
  <2> QED
    BY <2>3, <2>4
<1> QED
  BY <1>4, <1>6, <1>7, <1>8, <1>9 DEF IInv, Turn

LEMMA ExecuteStep ==
  ASSUME IInv, Execute
  PROVE  IInv'
<1>1. Ran("execute") /\ Runnable("execute") /\ "execute" \in Systems
  BY DEF Execute, Ran, Systems
<1>2. /\ inbox' = (IF queued > 0 THEN NoMail ELSE inbox)
      /\ report' = (report /\ ~(queued > 0 /\ inbox["steer"] > 0))
      /\ flights' = (IF Ended THEN flights ELSE flights + queued)
      /\ status' = (IF queued > 0 /\ ~Ended THEN "running" ELSE status)
      /\ queued' = 0
      /\ UNCHANGED <<inputVars, delegate, asking, continues, deliveries, jobVars,
                     retryVars, hint, results, gen, loopVars, wasTerminal, history>>
  BY DEF Execute
<1>3. Ordered' /\ todo' \subseteq todo /\ \A t \in todo : t # "execute" => t \in todo'
  BY <1>1, RanOrdered DEF IInv
<1>4. ~HasMail(continues) /\ ~HasMail(deliveries) /\ hint = "none"
  <2>1. "dispatch" \in Before("execute")
    BY DEF Before, Dispatching
  <2> QED
    BY <1>1, <2>1, TransformOver DEF IInv, InFrame, Runnable
<1>5. /\ queued \in Nat /\ flights \in Nat /\ Requests' = Requests
      /\ Ended <=> Ended'
  BY <1>2, RequestsAre DEF IInv, TypeOK, Ended, Terminal, loopVars
<1>6. InFrame'
  BY <1>2, <1>3, <1>4, <1>5 DEF IInv, InFrame, OneTurn, inputVars, history
<1>7. TypeOK'
  <2>1. todo' \subseteq Systems
    BY <1>3 DEF IInv, TypeOK
  <2>2. inbox' \in [Kinds -> Nat] /\ flights' \in Nat /\ queued' \in Nat
    BY <1>2, <1>5, MailIs DEF IInv, TypeOK
  <2>3. status' \in Statuses /\ report' \in BOOLEAN
    BY <1>2 DEF IInv, TypeOK, Statuses
  <2> QED
    BY <1>2, <2>1, <2>2, <2>3 DEF IInv, TypeOK, inputVars, jobVars, retryVars, loopVars, history
<1>8. Counted'
  BY <1>2 DEF IInv, Counted, inputVars, jobVars
<1>9. ASSUME OneTurn' PROVE Asked' /\ Turning' /\ Halted'
  <2>1. Asked /\ Turning /\ Halted
    BY <1>2, <1>9 DEF IInv, Turn, OneTurn, history
  <2>2. /\ Active \in Nat /\ Active' \in Nat /\ Active' <= Active
        /\ ~Ended => Active' = Active
        /\ queued > 0 => Active >= 1
    BY <1>2, <1>5, SMT DEF Active
  <2>3. Active <= 1 /\ Active' <= 1
    BY <2>1, <2>2 DEF Turning
  <2>4. ASSUME queued > 0, ~Ended
        PROVE  /\ status' = "running" /\ status \in {"agent", "running"} /\ asking = NoCall
               /\ Requests = {} /\ Active' = 1 /\ ~interrupted
    <3>1. Active = 1 /\ Active' = 1
      BY <2>2, <2>3, <2>4
    <3>2. status \in {"agent", "running"} /\ status' = "running"
      BY <1>2, <2>1, <2>4, <3>1 DEF Turning
    <3> QED
      BY <2>1, <2>4, <3>1, <3>2 DEF Asked, Halted
  <2>5. CASE queued > 0 /\ ~Ended
    <3>1. Asked'
      <4>1. \A s \in Slots : call[s] # "asking"
        BY <2>4, <2>5 DEF Requests
      <4> QED
        BY <1>2, <1>5, <2>4, <2>5, <4>1 DEF Asked, loopVars
    <3>2. Turning'
      BY <1>2, <1>4, <1>5, <2>4, <2>5 DEF Turning
    <3>3. Halted'
      BY <1>2, <2>4, <2>5 DEF Halted, history
    <3> QED
      BY <3>1, <3>2, <3>3
  <2>6. CASE ~(queued > 0 /\ ~Ended)
    <3>1. status' = status /\ (Idle <=> Idle')
      BY <1>2, <2>6 DEF Idle
    <3>2. Asked'
      BY <1>2, <1>5, <2>1, <3>1 DEF Asked, loopVars
    <3>3. Turning'
      BY <1>2, <1>5, <2>1, <2>2, <2>3, <3>1 DEF Turning
    <3>4. Halted'
      <4>1. interrupted => Active' = 0
        BY <2>1, <2>2, SMT DEF Halted
      <4> QED
        BY <1>2, <1>5, <2>1, <3>1, <4>1 DEF Halted, history
    <3> QED
      BY <3>2, <3>3, <3>4
  <2> QED
    BY <2>5, <2>6
<1> QED
  BY <1>3, <1>6, <1>7, <1>8, <1>9 DEF IInv, Turn

LEMMA CleanupStep ==
  ASSUME IInv, Cleanup
  PROVE  IInv'
<1>1. Ran("cleanup") /\ "cleanup" \in Systems
  BY DEF Cleanup, Systems
<1>2. /\ jobs' = (IF Ended THEN 0 ELSE jobs) /\ silent' = (IF Ended THEN 0 ELSE silent)
      /\ UNCHANGED <<inputVars, taskVars, mailVars, retryVars, hint, llmVars, gen,
                     loopVars, wasTerminal, history>>
  BY DEF Cleanup
<1>3. Ordered' /\ todo' \subseteq todo /\ \A t \in todo : t # "cleanup" => t \in todo'
  BY <1>1, RanOrdered DEF IInv
<1>4. InFrame'
  <2>1. Requests' = Requests /\ (Ended <=> Ended')
    BY <1>2, RequestsAre DEF Ended, taskVars, loopVars
  <2> QED
    BY <1>2, <1>3, <2>1 DEF IInv, InFrame, OneTurn, inputVars, mailVars, llmVars, history
<1>5. /\ jobs' \in 0..MaxJobs /\ silent' \in 0..MaxJobs /\ jobs' + silent' <= MaxJobs
      /\ todo' \subseteq Systems
  BY <1>2, <1>3, TurnAssumption, SMT DEF IInv, TypeOK, Counted
<1>6. TypeOK'
  BY <1>2, <1>5 DEF IInv, TypeOK, inputVars, taskVars, mailVars, retryVars, llmVars, loopVars, history
<1>7. Counted'
  BY <1>2, <1>5 DEF IInv, Counted, inputVars, llmVars
<1>8. Turn'
  BY <1>2, TurnKept DEF IInv, taskVars, mailVars, llmVars, loopVars, history
<1> QED
  BY <1>3, <1>4, <1>6, <1>7, <1>8 DEF IInv

LEMMA TickStep ==
  ASSUME IInv, Tick
  PROVE  IInv'
<1>1. /\ todo = {} /\ todo' = Systems
      /\ UNCHANGED <<inputVars, taskVars, mailVars, jobVars, retryVars, hint,
                     llmVars, gen, loopVars, wasTerminal, history>>
  BY DEF Tick
<1>2. Ordered'
  BY <1>1 DEF Ordered
<1>3. InFrame'
  BY <1>1 DEF IInv, InFrame, inputVars, mailVars, llmVars, Systems, Dispatching, Transform
<1>4. TypeOK'
  BY <1>1 DEF IInv, TypeOK, inputVars, taskVars, mailVars, jobVars, retryVars, llmVars, loopVars, history
<1>5. Counted'
  BY <1>1 DEF IInv, Counted, inputVars, jobVars, llmVars
<1>6. Turn'
  BY <1>1, TurnKept DEF IInv, taskVars, mailVars, llmVars, loopVars, history
<1> QED
  BY <1>2, <1>3, <1>4, <1>5, <1>6 DEF IInv

LEMMA RetryDueStep ==
  ASSUME IInv, RetryDue
  PROVE  IInv'
<1>1. /\ ticket' = retries
      /\ UNCHANGED <<todo, inputVars, taskVars, mailVars, jobVars, retries, hint,
                     llmVars, gen, loopVars, wasTerminal, history>>
  BY DEF RetryDue
<1>2. Ordered'
  BY <1>1 DEF IInv, Ordered
<1>3. InFrame'
  <2>1. Requests' = Requests /\ (Ended <=> Ended')
    BY <1>1, RequestsAre DEF Ended, taskVars, loopVars
  <2> QED
    BY <1>1, <2>1 DEF IInv, InFrame, OneTurn, inputVars, mailVars, llmVars, history
<1>4. TypeOK'
  BY <1>1 DEF IInv, TypeOK, inputVars, taskVars, mailVars, jobVars, llmVars, loopVars, history
<1>5. Counted'
  BY <1>1 DEF IInv, Counted, inputVars, jobVars, llmVars
<1>6. Turn'
  BY <1>1, TurnKept DEF IInv, taskVars, mailVars, llmVars, loopVars, history
<1> QED
  BY <1>2, <1>3, <1>4, <1>5, <1>6 DEF IInv

LEMMA LlmAnswersStep ==
  ASSUME IInv, LlmAnswers
  PROVE  IInv'
<1>1. /\ flights > 0 /\ gen \notin results /\ flights' = flights - 1
      /\ results' = results \cup {gen}
      /\ UNCHANGED <<todo, inputVars, taskVars, mailVars, jobVars, retryVars,
                     hint, queued, gen, loopVars, wasTerminal, history>>
  BY DEF LlmAnswers
<1>2. Ordered'
  BY <1>1 DEF IInv, Ordered
<1>3. Requests' = Requests /\ (Ended <=> Ended') /\ (Idle <=> Idle')
  BY <1>1, RequestsAre DEF Ended, Idle, taskVars, loopVars
<1>4. InFrame'
  BY <1>1, <1>3 DEF IInv, InFrame, OneTurn, inputVars, mailVars, history
<1>5. gen \in 0..gen /\ gen \in 0..MaxStops /\ flights' \in Nat
  BY <1>1, TurnAssumption, SMT DEF IInv, TypeOK
<1>6. TypeOK'
  BY <1>1, <1>5 DEF IInv, TypeOK, inputVars, taskVars, mailVars, jobVars, retryVars, loopVars, history
<1>7. Counted'
  BY <1>1, <1>5 DEF IInv, Counted, inputVars, jobVars
<1>8. Active' = Active
  BY <1>1, SMT DEF Active, IInv, TypeOK
<1>9. ASSUME OneTurn' PROVE Asked' /\ Turning' /\ Halted'
  <2>1. Asked /\ Turning /\ Halted
    BY <1>1, <1>9 DEF IInv, Turn, OneTurn, history
  <2>2. Asked'
    BY <1>1, <1>3, <2>1 DEF Asked, taskVars, mailVars, loopVars
  <2>3. Turning'
    BY <1>1, <1>3, <1>8, <2>1 DEF Turning, taskVars, mailVars
  <2>4. Halted'
    BY <1>1, <1>3, <1>8, <2>1 DEF Halted, taskVars, mailVars, history
  <2> QED
    BY <2>2, <2>3, <2>4
<1> QED
  BY <1>2, <1>4, <1>6, <1>7, <1>9 DEF IInv, Turn

LEMMA ToolReturnsStep ==
  ASSUME IInv, NEW s \in Slots, ToolReturns(s)
  PROVE  IInv'
<1>1. /\ call[s] = "running" /\ call' = [call EXCEPT ![s] = "returned"]
      /\ UNCHANGED <<todo, inputVars, taskVars, mailVars, retryVars, hint,
                     llmVars, gen, loop, wasTerminal, history>>
  BY DEF ToolReturns
<1>2. jobs' \in 0..MaxJobs /\ silent' \in 0..MaxJobs /\ jobs' + silent' <= MaxJobs
  <2>1. /\ jobs \in 0..MaxJobs /\ silent \in 0..MaxJobs /\ jobs + silent <= MaxJobs
        /\ MaxJobs \in Nat
    BY TurnAssumption DEF IInv, TypeOK, Counted
  <2>2. CASE JobStarts
    BY <2>1, <2>2, SMT DEF JobStarts
  <2>3. CASE JobSilenced
    BY <2>1, <2>3, SMT DEF JobSilenced
  <2>4. CASE UNCHANGED jobVars
    BY <2>1, <2>4 DEF jobVars
  <2> QED
    BY <2>2, <2>3, <2>4 DEF ToolReturns
<1>3. /\ call' \in [Slots -> CallStates] /\ call'[s] = "returned"
      /\ \A t \in Slots : t # s => call'[t] = call[t]
  BY <1>1 DEF IInv, TypeOK, CallStates
<1>4. Requests' = Requests /\ (Ended <=> Ended') /\ (Idle <=> Idle')
  BY <1>1, <1>3 DEF Requests, Ended, Idle, taskVars
<1>5. Ordered'
  BY <1>1 DEF IInv, Ordered
<1>6. InFrame'
  BY <1>1, <1>4 DEF IInv, InFrame, OneTurn, inputVars, mailVars, llmVars, history
<1>7. TypeOK'
  BY <1>1, <1>2, <1>3 DEF IInv, TypeOK, inputVars, taskVars, mailVars, retryVars, llmVars, history
<1>8. Counted'
  BY <1>1, <1>2 DEF IInv, Counted, inputVars, llmVars
<1>9. ASSUME OneTurn' PROVE Asked' /\ Turning' /\ Halted'
  <2>1. Asked /\ Turning /\ Halted
    BY <1>1, <1>9 DEF IInv, Turn, OneTurn, history
  <2>2. /\ \A t \in Slots : call'[t] = "asking" <=> call[t] = "asking"
        /\ \A t \in Slots : call[t] # "none" => call'[t] # "none"
        /\ asking \in Slots \cup {NoCall} /\ loop.pending \subseteq Slots
    BY <1>1, <1>3 DEF IInv, TypeOK
  <2>3. Active' = Active
    BY <1>1 DEF Active, llmVars
  <2>4. Asked'
    BY <1>1, <1>4, <2>1, <2>2 DEF Asked, taskVars, mailVars
  <2>5. Turning'
    BY <1>1, <1>4, <2>1, <2>3 DEF Turning, taskVars, mailVars
  <2>6. Halted'
    BY <1>1, <1>4, <2>1, <2>3 DEF Halted, taskVars, mailVars, history
  <2> QED
    BY <2>4, <2>5, <2>6
<1> QED
  BY <1>5, <1>6, <1>7, <1>8, <1>9 DEF IInv, Turn

LEMMA NextStep ==
  ASSUME IInv, [Next]_vars
  PROVE  IInv'
<1>1. CASE UNCHANGED vars
  <2>1. UNCHANGED <<todo, inputVars, taskVars, mailVars, jobVars, retryVars, hint, llmVars, gen,
                    loopVars, wasTerminal, history>>
    BY <1>1 DEF vars
  <2>2. TypeOK'
    BY <2>1 DEF IInv, TypeOK, inputVars, taskVars, mailVars, jobVars, retryVars, llmVars, loopVars, history
  <2>3. Counted' /\ Ordered'
    BY <2>1 DEF IInv, Counted, Ordered, inputVars, jobVars, llmVars
  <2>4. Requests' = Requests /\ (Ended <=> Ended')
    BY <2>1, RequestsAre DEF Ended, taskVars, loopVars
  <2>5. InFrame'
    BY <2>1, <2>4 DEF IInv, InFrame, OneTurn, inputVars, mailVars, llmVars, history
  <2>6. Turn'
    BY <2>1, TurnKept DEF IInv, taskVars, mailVars, llmVars, loopVars, history
  <2> QED
    BY <2>2, <2>3, <2>5, <2>6 DEF IInv
<1>2. CASE RouteNothing \/ WakeNothing
  <2>1. PICK s \in {"route", "wake"} : Ran(s)
    BY <1>2 DEF RouteNothing, WakeNothing
  <2> QED
    BY <1>2, <2>1, IdleStep DEF RouteNothing, WakeNothing
<1>3. CASE \/ \E n \in 1..2 : RouteMessages(n)
           \/ \E allow \in BOOLEAN : RouteAnswer(allow)
           \/ \E c \in Commands : RouteCommand(c)
           \/ \E n \in 0..MaxJobs, m \in 0..MaxJobs : RetireJobs(n, m)
           \/ Deliver
  BY <1>3, RouteMessagesStep, RouteAnswerStep, RouteCommandStep, RetireJobsStep, DeliverStep
<1>4. CASE \/ LlmNothing \/ LlmText
           \/ \E calls \in SUBSET Slots : LlmToolCalls(calls)
           \/ \E retryable \in BOOLEAN : LlmError(retryable)
  BY <1>4, LlmNothingStep, LlmTextStep, LlmToolCallsStep, LlmErrorStep
<1>5. CASE \/ Wake \/ ContinueTask \/ FinishTask \/ StopTask
           \/ TurnReset \/ Terminate \/ RetryReady \/ Collect
  BY <1>5, WakeStep, ContinueTaskStep, FinishTaskStep, StopTaskStep, TurnResetStep, TerminateStep,
     RetryReadyStep, CollectStep
<1>6. CASE Claim \/ ClaimEnded \/ Confirm \/ DispatchTask \/ Execute \/ Cleanup
  BY <1>6, ClaimStep, ClaimEndedStep, ConfirmStep, DispatchTaskStep, ExecuteStep, CleanupStep
<1>7. CASE Tick \/ LlmAnswers \/ RetryDue \/ \E s \in Slots : ToolReturns(s)
  BY <1>7, TickStep, LlmAnswersStep, RetryDueStep, ToolReturnsStep
<1> QED
  BY <1>1, <1>2, <1>3, <1>4, <1>5, <1>6, <1>7 DEF Next, Frame

\* The end of a task with one turn is final.
LEMMA EndStays ==
  ASSUME IInv, Next, OneTurn, Ended
  PROVE  Ended'
<1>1. UNCHANGED status => Ended'
  BY DEF Ended
<1>2. hint # "agent" /\ status \notin {"ready", "backoff", "tools"}
  BY DEF IInv, Turn, Turning, Ended, Terminal
<1>3. CASE Tick \/ LlmAnswers \/ RetryDue \/ \E s \in Slots : ToolReturns(s)
  BY <1>1, <1>3 DEF Tick, LlmAnswers, RetryDue, ToolReturns, taskVars
<1>4. CASE \/ RouteNothing \/ WakeNothing \/ Wake \/ Deliver \/ TurnReset \/ Terminate \/ ClaimEnded
           \/ Cleanup \/ LlmNothing
  BY <1>1, <1>4 DEF RouteNothing, WakeNothing, Wake, Deliver, TurnReset, Terminate, ClaimEnded, Cleanup,
                    LlmNothing, taskVars
<1>5. CASE \/ \E allow \in BOOLEAN : RouteAnswer(allow)
           \/ \E n \in 0..MaxJobs, m \in 0..MaxJobs : RetireJobs(n, m)
  BY <1>1, <1>5 DEF RouteAnswer, RetireJobs, taskVars
<1>6. CASE \/ \E n \in 1..2 : RouteMessages(n)
           \/ \E c \in Commands : RouteCommand(c)
           \/ \E calls \in SUBSET Slots : LlmToolCalls(calls)
           \/ \E retryable \in BOOLEAN : LlmError(retryable)
           \/ LlmText \/ Claim
  BY <1>6 DEF RouteMessages, RouteCommand, LlmToolCalls, LlmError, LlmText, LlmResult, Claim
<1>7. CASE ContinueTask
  BY <1>1, <1>7 DEF ContinueTask
<1>8. CASE FinishTask
  BY <1>1, <1>8 DEF FinishTask, Ended, Terminal
<1>9. CASE StopTask
  BY <1>1, <1>9 DEF StopTask, Stoppable
<1>10. CASE RetryReady
  BY <1>1, <1>2, <1>10 DEF RetryReady, TicketValid
<1>11. CASE Collect
  <2>1. ~LoopComplete
    BY <1>2 DEF LoopComplete
  <2> QED
    BY <1>1, <1>11, <2>1 DEF Collect
<1>12. CASE Confirm
  <2>1. "claim" \notin todo
    BY <1>12 DEF Confirm, Ran, Runnable, Before
  <2>2. answer.call # NoCall => call[answer.call] # "asking"
    BY <2>1 DEF IInv, InFrame, Requests, TypeOK
  <2> QED
    BY <1>1, <1>12, <2>2 DEF Confirm
<1>13. CASE DispatchTask
  BY <1>1, <1>2, <1>13 DEF DispatchTask, Dispatches
<1>14. CASE Execute
  BY <1>1, <1>14 DEF Execute
<1> QED
  BY <1>3, <1>4, <1>5, <1>6, <1>7, <1>8, <1>9, <1>10, <1>11, <1>12, <1>13, <1>14 DEF Next, Frame

\* Only the llm system takes itself off the frame.
LEMMA LlmRuns ==
  ASSUME TypeOK, Next, "llm" \in todo \ todo'
  PROVE  Ran("llm") /\ (LlmNothing \/ LlmText \/ (\E calls \in SUBSET Slots : LlmToolCalls(calls))
                         \/ \E retryable \in BOOLEAN : LlmError(retryable))
<1>1. ASSUME NEW s, s # "llm", Ran(s) PROVE FALSE
  BY <1>1 DEF Ran
<1>2. CASE Tick \/ LlmAnswers \/ RetryDue \/ \E s \in Slots : ToolReturns(s)
  BY <1>2 DEF Tick, LlmAnswers, RetryDue, ToolReturns
<1>3. CASE \/ \E n \in 1..2 : RouteMessages(n)
           \/ \E allow \in BOOLEAN : RouteAnswer(allow)
           \/ \E c \in Commands : RouteCommand(c)
           \/ \E n \in 0..MaxJobs, m \in 0..MaxJobs : RetireJobs(n, m)
           \/ RouteNothing \/ Deliver
  BY <1>1, <1>3 DEF RouteMessages, RouteAnswer, RouteCommand, RetireJobs, RouteNothing, Deliver
<1>4. CASE \/ Wake \/ WakeNothing \/ ContinueTask \/ FinishTask \/ StopTask
           \/ TurnReset \/ Terminate \/ RetryReady \/ Collect
  BY <1>1, <1>4 DEF Wake, WakeNothing, ContinueTask, FinishTask, StopTask, TurnReset, Terminate,
                    RetryReady, Collect
<1>5. CASE Claim \/ ClaimEnded \/ Confirm \/ DispatchTask \/ Execute \/ Cleanup
  BY <1>1, <1>5 DEF Claim, ClaimEnded, Confirm, DispatchTask, Execute, Cleanup
<1>6. CASE \/ LlmNothing \/ LlmText
           \/ \E calls \in SUBSET Slots : LlmToolCalls(calls)
           \/ \E retryable \in BOOLEAN : LlmError(retryable)
  BY <1>6 DEF LlmNothing, LlmText, LlmToolCalls, LlmError, LlmResult
<1> QED
  BY <1>2, <1>3, <1>4, <1>5, <1>6 DEF Next, Frame

LEMMA DoneSeesNotices ==
  ASSUME IInv, Next, "llm" \in todo \ todo', ~Ended, status' = "done"
  PROVE  jobs + silent = 0 /\ ~HasMail(inbox) /\ ~HasMail(deliveries)
<1>1. Ran("llm") /\ (LlmNothing \/ LlmText \/ (\E calls \in SUBSET Slots : LlmToolCalls(calls))
                      \/ \E retryable \in BOOLEAN : LlmError(retryable))
  BY LlmRuns DEF IInv
<1>2. ~HasMail(deliveries)
  <2>1. "deliver" \notin todo
    BY <1>1 DEF Ran, Runnable, Before
  <2> QED
    BY <2>1 DEF IInv, InFrame
<1>3. ~LlmNothing
  BY DEF LlmNothing, taskVars, Ended, Terminal
<1>4. ASSUME NEW calls \in SUBSET Slots, LlmToolCalls(calls) PROVE FALSE
  BY <1>4 DEF LlmToolCalls
<1>5. ASSUME NEW retryable \in BOOLEAN, LlmError(retryable) PROVE FALSE
  BY <1>5 DEF LlmError
<1>6. LlmText
  BY <1>1, <1>3, <1>4, <1>5
<1>7. AfterText = "done"
  BY <1>6 DEF LlmText
<1>8. ~(jobs + silent > 0 \/ HasMail(inbox))
  BY <1>7 DEF AfterText
<1>9. jobs + silent = 0
  BY <1>8, SMT DEF IInv, TypeOK
<1> QED
  BY <1>2, <1>8, <1>9

\* Where every job notifies its task, a deferred task has a job left, or what
\* the last one said is on its way to it.
Deferred ==
  /\ silent = 0
  /\ status = "jobs" =>
       jobs > 0 \/ HasMail(inbox) \/ HasMail(deliveries) \/ HasMail(continues)

LEMMA PlusKeepsMail ==
  ASSUME NEW box \in [Kinds -> Nat], NEW k \in Kinds, NEW n \in Nat, HasMail(box)
  PROVE  HasMail(Plus(box, k, n))
<1>1. PICK j \in Kinds : box[j] > 0
  BY DEF HasMail
<1>2. Plus(box, k, n)[j] > 0
  BY <1>1 DEF Plus
<1> QED
  BY <1>1, <1>2 DEF HasMail

LEMMA DeferredStep ==
  ASSUME ~SilentJobs, IInv, Deferred, [Next]_vars
  PROVE  Deferred'
<1>1. /\ jobs \in Nat /\ silent = 0 /\ inbox \in [Kinds -> Nat] /\ deliveries \in [Kinds -> Nat]
      /\ continues \in [Kinds -> Nat]
  BY TurnAssumption DEF IInv, TypeOK, Deferred
<1>2. ASSUME UNCHANGED <<jobs, silent, inbox, deliveries, continues>>,
             status' = status \/ status' # "jobs"
      PROVE  Deferred'
  BY <1>2 DEF Deferred
<1>3. CASE UNCHANGED vars
  BY <1>2, <1>3 DEF vars, taskVars, mailVars, jobVars
<1>4. CASE Tick \/ LlmAnswers \/ RetryDue
  BY <1>2, <1>4 DEF Tick, LlmAnswers, RetryDue, taskVars, mailVars, jobVars
<1>5. CASE \E s \in Slots : ToolReturns(s)
  <2>1. UNCHANGED <<status, inbox, deliveries, continues>>
    BY <1>5 DEF ToolReturns, taskVars, mailVars
  <2>2. (jobs' = jobs \/ jobs' = jobs + 1) /\ silent' = silent
    BY <1>5 DEF ToolReturns, JobStarts, JobSilenced, jobVars
  <2> QED
    BY <1>1, <2>1, <2>2 DEF Deferred
<1>6. CASE \E n \in 1..2 : RouteMessages(n)
  <2>1. PICK n \in 1..2 : RouteMessages(n)
    BY <1>6
  <2>2. UNCHANGED <<jobs, silent, inbox>>
    BY <2>1 DEF RouteMessages, jobVars
  <2>3. CASE Idle
    BY <1>1, <2>1, <2>2, <2>3 DEF RouteMessages, Deferred
  <2>4. CASE ~Idle
    <3>1. deliveries' = Plus(deliveries, "steer", n) /\ UNCHANGED <<status, continues>>
      BY <2>1, <2>4 DEF RouteMessages
    <3>2. n \in Nat /\ "steer" \in Kinds
      BY DEF Kinds
    <3>3. HasMail(deliveries) => HasMail(deliveries)'
      BY <1>1, <3>1, <3>2, PlusKeepsMail
    <3> QED
      BY <2>2, <3>1, <3>3 DEF Deferred
  <2> QED
    BY <2>3, <2>4
<1>7. CASE \E n \in 0..MaxJobs, m \in 0..MaxJobs : RetireJobs(n, m)
  <2>1. PICK n \in 0..MaxJobs, m \in 0..MaxJobs : RetireJobs(n, m)
    BY <1>7
  <2>2. /\ jobs' = jobs - n /\ silent' = silent - m /\ m <= silent
        /\ deliveries' = Plus(deliveries, "notice", n)
        /\ UNCHANGED <<status, inbox, continues>>
    BY <2>1 DEF RetireJobs, taskVars
  <2>3. n \in Nat /\ m \in Nat /\ "notice" \in Kinds
    BY TurnAssumption DEF Kinds
  <2>4. HasMail(deliveries) \/ n > 0 => HasMail(deliveries)'
    BY <1>1, <2>2, <2>3, PlusKeepsMail, MailIs
  <2>5. silent' = 0 /\ (n > 0 \/ jobs' = jobs)
    BY <1>1, <2>2, <2>3, SMT
  <2> QED
    BY <2>2, <2>4, <2>5 DEF Deferred
<1>8. CASE Deliver
  <2>1. UNCHANGED <<status, jobs, silent, continues>>
    BY <1>8 DEF Deliver, taskVars, jobVars
  <2>2. ASSUME status = "jobs", HasMail(inbox) \/ HasMail(deliveries)
        PROVE  HasMail(inbox)'
    <3>1. inbox' = [k \in Kinds |-> inbox[k] + deliveries[k]]
      BY <1>8, <2>2 DEF Deliver, Ended, Terminal
    <3>2. PICK k \in Kinds : inbox[k] > 0 \/ deliveries[k] > 0
      BY <2>2 DEF HasMail
    <3>3. inbox[k] \in Nat /\ deliveries[k] \in Nat /\ inbox'[k] = inbox[k] + deliveries[k]
      BY <1>1, <3>1
    <3>4. inbox'[k] > 0
      BY <3>2, <3>3
    <3> QED
      BY <3>4 DEF HasMail
  <2> QED
    BY <2>1, <2>2 DEF Deferred
<1>9. CASE Wake
  <2>1. PICK k \in Kinds : continues' = Plus(continues, k, 1)
    BY <1>9 DEF Wake, Kinds
  <2>2. 1 \in Nat /\ 1 > 0
    OBVIOUS
  <2>3. HasMail(continues)'
    BY <1>1, <2>1, <2>2, MailIs, Zenon
  <2> QED
    BY <1>1, <1>9, <2>3 DEF Wake, Deferred, jobVars
<1>10. CASE ContinueTask
  <2>1. UNCHANGED <<jobs, silent, inbox, deliveries>>
    BY <1>10 DEF ContinueTask, jobVars
  <2>2. CASE ~HasMail(continues) \/ Ended
    <3>1. UNCHANGED status
      BY <1>10, <2>2 DEF ContinueTask
    <3> QED
      BY <2>1, <2>2, <3>1 DEF Deferred, Ended, Terminal
  <2>3. CASE ~(~HasMail(continues) \/ Ended)
    <3>1. status' = "ready"
      BY <1>10, <2>3 DEF ContinueTask
    <3> QED
      BY <2>1, <3>1 DEF Deferred
  <2> QED
    BY <2>2, <2>3
<1>11. CASE LlmText
  <2>1. UNCHANGED <<jobs, silent, inbox, deliveries, continues>> /\ status' = AfterText
    BY <1>11 DEF LlmText, LlmResult, mailVars, jobVars
  <2>2. status' = "jobs" => jobs + silent > 0 \/ HasMail(inbox)
    BY <2>1 DEF AfterText
  <2> QED
    BY <1>1, <2>1, <2>2 DEF Deferred
<1>12. CASE \E retryable \in BOOLEAN : LlmError(retryable)
  <2>1. UNCHANGED <<jobs, silent, inbox, deliveries, continues>>
    BY <1>12 DEF LlmError, LlmResult, mailVars, jobVars
  <2>2. status' = "jobs" => jobs + silent > 0
    BY <1>12 DEF LlmError
  <2> QED
    BY <1>1, <2>1, <2>2 DEF Deferred
<1>13. CASE LlmNothing \/ \E calls \in SUBSET Slots : LlmToolCalls(calls)
  BY <1>2, <1>13 DEF LlmNothing, LlmToolCalls, LlmResult, taskVars, mailVars, jobVars
<1>14. CASE RouteNothing \/ WakeNothing \/ TurnReset \/ Terminate \/ ClaimEnded
  BY <1>2, <1>14 DEF RouteNothing, WakeNothing, TurnReset, Terminate, ClaimEnded, taskVars, mailVars, jobVars
<1>15. CASE (\E allow \in BOOLEAN : RouteAnswer(allow)) \/ \E c \in Commands : RouteCommand(c)
  BY <1>2, <1>15 DEF RouteAnswer, RouteCommand, taskVars, mailVars, jobVars
<1>16. CASE FinishTask \/ StopTask \/ RetryReady \/ Collect \/ DispatchTask
  BY <1>2, <1>16 DEF FinishTask, StopTask, RetryReady, Collect, DispatchTask, mailVars, jobVars
<1>17. CASE Claim
  <2>1. status' \in {status, "user", "ready"}
    BY <1>17 DEF Claim, Restored
  <2> QED
    BY <1>2, <1>17, <2>1 DEF Claim, mailVars, jobVars
<1>18. CASE Confirm
  <2>1. status' \in {status, "tools", "ready"}
    BY <1>18 DEF Confirm, Restored
  <2> QED
    BY <1>2, <1>18, <2>1 DEF Confirm, mailVars, jobVars
<1>19. CASE Execute
  <2>1. UNCHANGED <<jobs, silent, deliveries, continues>>
    BY <1>19 DEF Execute, jobVars
  <2>2. CASE queued > 0 /\ ~Ended
    BY <1>19, <2>1, <2>2 DEF Execute, Deferred
  <2>3. CASE queued > 0 /\ Ended
    BY <1>19, <2>1, <2>3 DEF Execute, Deferred, Ended, Terminal
  <2>4. CASE ~(queued > 0)
    BY <1>19, <2>1, <2>4 DEF Execute, Deferred
  <2> QED
    BY <2>2, <2>3, <2>4
<1>20. CASE Cleanup
  BY <1>1, <1>20 DEF Cleanup, Deferred, Ended, Terminal, taskVars, mailVars
<1> QED
  BY <1>3, <1>4, <1>5, <1>6, <1>7, <1>8, <1>9, <1>10, <1>11, <1>12, <1>13, <1>14, <1>15, <1>16,
     <1>17, <1>18, <1>19, <1>20 DEF Next, Frame

\* A task that its loop does not keep waiting has no loop, but for the rest of
\* the frame of a stop: until the reset where nothing continues the task, until
\* the dispatch where a message does.
Clean ==
  OneTurn =>
    /\ status \in {"jobs", "backoff"} => loop = NoLoop
    /\ status = "ready" => loop = NoLoop \/ "continue" \notin todo
    /\ Idle => loop = NoLoop \/ ResetIsDue

LEMMA CleanStep ==
  ASSUME IInv, Clean, Next
  PROVE  Clean'
<1> SUFFICES ASSUME OneTurn' PROVE Clean'
  BY DEF Clean
\* The loop stays or goes, and the task keeps its status or enters one that
\* allows a loop.
<1>1. ASSUME UNCHANGED <<interrupted, leftover>>, loop' = loop \/ loop' = NoLoop,
             UNCHANGED <<status, asking>> \/ status' \in {"tools", "agent", "running", "done", "failed"},
             todo' \subseteq todo, "reset" \in todo => "reset" \in todo'
      PROVE  Clean'
  BY <1>1 DEF Clean, OneTurn, Idle, ResetIsDue
<1>2. ASSUME NEW s \in Systems, Ran(s), s # "reset"
      PROVE  todo' \subseteq todo /\ ("reset" \in todo => "reset" \in todo')
  BY <1>2 DEF Ran
<1>4. /\ {"route", "jobs", "finish", "deliver", "llm", "wake", "continue", "stop", "reset", "terminate",
          "retry", "collect", "claim", "confirm", "dispatch", "execute", "cleanup"} \subseteq Systems
  BY DEF Systems, Transform, Dispatching
<1>5. CASE LlmAnswers \/ RetryDue \/ \E s \in Slots : ToolReturns(s)
  BY <1>1, <1>5 DEF LlmAnswers, RetryDue, ToolReturns, taskVars, loopVars, history
<1>6. CASE Tick
  <2>1. UNCHANGED <<status, asking, loop, interrupted, leftover>> /\ todo = {}
    BY <1>6 DEF Tick, taskVars, loopVars, history
  <2>2. OneTurn /\ Turning
    BY <2>1 DEF OneTurn, IInv, Turn
  <2>3. status # "ready"
    BY <2>1, <2>2 DEF Turning, IInv, InFrame
  <2> QED
    BY <2>1, <2>2, <2>3 DEF Clean, Idle, ResetIsDue
<1>7. CASE \E n \in 1..2 : RouteMessages(n)
  <2>1. PICK n \in 1..2 : RouteMessages(n)
    BY <1>7
  <2>2. UNCHANGED <<asking, loop, interrupted, leftover>> /\ Ran("route") /\ (Idle \/ UNCHANGED status)
    BY <2>1 DEF RouteMessages, loopVars, history
  <2>3. CASE UNCHANGED status
    BY <1>1, <1>2, <1>4, <2>2, <2>3
  <2>4. CASE Idle /\ ~UNCHANGED status
    <3>1. status' = "ready"
      BY <2>1, <2>4 DEF RouteMessages
    <3>2. "stop" \in todo
      BY <1>4, <2>2, RouteBeforeStop DEF IInv, TypeOK, Ran, Runnable
    <3> QED
      BY <2>2, <2>4, <3>1, <3>2 DEF Clean, OneTurn, Idle, ResetIsDue
  <2> QED
    BY <2>2, <2>3, <2>4
<1>8. CASE (\E allow \in BOOLEAN : RouteAnswer(allow)) \/ \E c \in Commands : RouteCommand(c)
  BY <1>1, <1>2, <1>4, <1>8 DEF RouteAnswer, RouteCommand, taskVars, loopVars, history
<1>9. CASE (\E n \in 0..MaxJobs, m \in 0..MaxJobs : RetireJobs(n, m)) \/ Deliver
  BY <1>1, <1>2, <1>4, <1>9 DEF RetireJobs, Deliver, taskVars, loopVars, history
<1>10. CASE RouteNothing \/ WakeNothing \/ Wake
  BY <1>1, <1>2, <1>4, <1>10 DEF RouteNothing, WakeNothing, Wake, taskVars, loopVars, history
<1>11. CASE LlmNothing
  BY <1>1, <1>2, <1>4, <1>11 DEF LlmNothing, taskVars, history
<1>12. CASE Terminate
  BY <1>1, <1>2, <1>4, <1>12 DEF Terminate, taskVars, history
<1>13. CASE LlmText \/ \E retryable \in BOOLEAN : LlmError(retryable)
  <2>1. loop' = NoLoop
    BY <1>13 DEF LlmText, LlmError, EndLoop
  <2> QED
    BY <2>1 DEF Clean
<1>14. CASE \E calls \in SUBSET Slots : LlmToolCalls(calls)
  <2>1. status' \in {"tools", "failed"}
    BY <1>14 DEF LlmToolCalls
  <2> QED
    BY <2>1 DEF Clean, Idle
<1>15. CASE ContinueTask
  <2>1. UNCHANGED <<asking, loop, leftover>> /\ Ran("continue")
    BY <1>15 DEF ContinueTask, loopVars
  <2>2. CASE ~HasMail(continues) \/ Ended
    BY <1>1, <1>2, <1>4, <1>15, <2>1, <2>2 DEF ContinueTask
  <2>3. CASE HasMail(continues) /\ ~Ended
    <3>1. status' = "ready" /\ "continue" \notin todo'
      BY <1>15, <2>1, <2>3 DEF ContinueTask, Ran
    <3> QED
      BY <3>1 DEF Clean, Idle
  <2> QED
    BY <2>2, <2>3
<1>16. CASE FinishTask
  BY <1>1, <1>2, <1>4, <1>16 DEF FinishTask, Clean, Idle, OneTurn, ResetIsDue, loopVars
<1>17. CASE StopTask
  <2>1. UNCHANGED loop /\ Ran("stop")
    BY <1>17 DEF StopTask
  <2>2. CASE command = "stop" /\ Stoppable
    <3>1. status' = "user" /\ interrupted' = TRUE
      BY <1>17, <2>2 DEF StopTask
    <3>2. "stop" \notin todo' /\ "reset" \in todo'
      <4>1. "stop" \in Before("reset")
        BY DEF Before
      <4> QED
        BY <1>4, <2>1, <4>1 DEF IInv, Ordered, Ran, Runnable
    <3> QED
      BY <3>1, <3>2 DEF Clean, ResetIsDue
  <2>3. CASE ~(command = "stop" /\ Stoppable)
    BY <1>1, <1>2, <1>4, <1>17, <2>1, <2>3 DEF StopTask, history
  <2> QED
    BY <2>2, <2>3
<1>18. CASE TurnReset
  <2>1. UNCHANGED <<status, asking, interrupted, leftover>> /\ Ran("reset")
    BY <1>18 DEF TurnReset, taskVars, history
  <2>2. OneTurn /\ Asked
    BY <2>1 DEF OneTurn, IInv, Turn
  <2>3. Idle => loop' = NoLoop
    BY <1>18, <2>2 DEF TurnReset, Asked, Idle, Ended, Terminal
  <2>4. loop' = loop \/ loop' = NoLoop
    BY <1>18 DEF TurnReset
  <2> QED
    BY <2>1, <2>2, <2>3, <2>4 DEF Clean, Idle, Ran
<1>19. CASE RetryReady
  <2>1. UNCHANGED <<asking, loop, interrupted, leftover>> /\ (UNCHANGED status \/ (status = "backoff" /\ status' = "ready"))
    BY <1>19 DEF RetryReady, TicketValid, loopVars, history
  <2>2. CASE UNCHANGED status
    BY <1>1, <1>2, <1>4, <1>19, <2>1, <2>2 DEF RetryReady
  <2>3. CASE status = "backoff" /\ status' = "ready"
    BY <2>1, <2>3 DEF Clean, OneTurn, Idle
  <2> QED
    BY <2>1, <2>2, <2>3
<1>20. CASE Collect
  <2>1. UNCHANGED <<asking, interrupted, leftover>> /\ Ran("collect")
    BY <1>20 DEF Collect, history
  <2>2. UNCHANGED <<status, loop>> \/ status' \in {"agent", "failed"}
    BY <1>20 DEF Collect
  <2>3. CASE UNCHANGED <<status, loop>>
    BY <1>1, <1>2, <1>4, <2>1, <2>3
  <2>4. CASE status' \in {"agent", "failed"}
    BY <2>4 DEF Clean, Idle
  <2> QED
    BY <2>2, <2>3, <2>4
<1>21. CASE Claim \/ ClaimEnded
  <2>1. UNCHANGED <<loop, interrupted, leftover>> /\ Ran("claim")
    BY <1>21 DEF Claim, ClaimEnded, history
  <2>2. \/ UNCHANGED <<status, asking>>
        \/ status' = Restored(status) /\ UNCHANGED asking
        \/ status' = "user" /\ asking' \in Slots
    BY <1>21 DEF Claim, ClaimEnded, Requests, taskVars
  <2>3. CASE UNCHANGED <<status, asking>> \/ (status' = status /\ UNCHANGED asking)
    BY <1>1, <1>2, <1>4, <2>1, <2>3
  <2>4. CASE status' # status /\ status' = Restored(status)
    BY <2>1, <2>4 DEF Restored, Clean
  <2>5. CASE status' = "user" /\ asking' \in Slots
    BY <2>5, TurnAssumption DEF Clean, Idle
  <2> QED
    BY <2>2, <2>3, <2>4, <2>5
<1>22. CASE Confirm
  <2>1. UNCHANGED <<loop, interrupted, leftover>> /\ Ran("confirm")
    BY <1>22 DEF Confirm, history
  <2>2. \/ UNCHANGED <<status, asking>>
        \/ status' = Restored(IF status = "user" THEN "tools" ELSE status) /\ asking' = NoCall
    BY <1>22 DEF Confirm
  <2>3. CASE UNCHANGED <<status, asking>>
    BY <1>1, <1>2, <1>4, <2>1, <2>3
  <2>4. CASE status = "user" /\ status' = Restored("tools")
    BY <2>1, <2>4 DEF Restored, Clean, Idle
  <2>5. CASE status # "user" /\ status' = Restored(status)
    <3>1. CASE status = "tools" /\ loop = NoLoop
      BY <2>1, <3>1 DEF Clean
    <3>2. CASE UNCHANGED status
      BY <2>1, <2>5, <3>2, <1>2, <1>4 DEF Clean, OneTurn, Idle
    <3> QED
      BY <2>5, <3>1, <3>2 DEF Restored
  <2> QED
    BY <2>2, <2>3, <2>4, <2>5
<1>23. CASE DispatchTask
  <2>1. UNCHANGED <<asking, loop, interrupted, leftover>> /\ Ran("dispatch")
        /\ (UNCHANGED status \/ status' \in {"agent", "failed"})
    BY <1>23 DEF DispatchTask, loopVars, history
  <2> QED
    BY <1>1, <1>2, <1>4, <2>1
<1>24. CASE Execute
  BY <1>1, <1>2, <1>4, <1>24 DEF Execute, loopVars, history
<1>25. CASE Cleanup
  BY <1>1, <1>2, <1>4, <1>25 DEF Cleanup, taskVars, loopVars, history
<1> QED
  BY <1>5, <1>6, <1>7, <1>8, <1>9, <1>10, <1>11, <1>12, <1>13, <1>14, <1>15,
     <1>16, <1>17, <1>18, <1>19, <1>20, <1>21, <1>22, <1>23, <1>24, <1>25 DEF Next, Frame

\* A turn starts clean, by the same facts.
LEMMA StartIsClean ==
  ASSUME IInv, Clean, Next, OneTurn, StartsTurn
  PROVE  loop = NoLoop \/ ResetIsDue
<1>1. CASE "continue" \in todo \ todo' /\ HasMail(continues) /\ ~Ended
  <2>1. status \in {"ready", "user", "jobs"} /\ asking = NoCall
    BY <1>1 DEF IInv, Turn, Turning, Asked
  <2> QED
    BY <1>1, <2>1 DEF Clean, Idle
<1>2. CASE TicketValid
  BY <1>2 DEF TicketValid, Clean
<1> QED
  BY <1>1, <1>2 DEF StartsTurn

-----------------------------------------------------------------------------
(* The theorems.                                                           *)

\* The inductive invariant holds, the types among it.
THEOREM AgentTurnInvariant == Spec => []IInv
<1>1. Init => IInv
  BY InitIInv
<1>2. IInv /\ [Next]_vars => IInv'
  BY NextStep
<1> QED
  BY <1>1, <1>2, PTL DEF Spec

\* Whatever the user, the jobs, the tools and the provider do, a task of one
\* turn never has two LLM calls.
THEOREM NoSecondCall == Spec => []OneLlmCall
<1>1. IInv => OneLlmCall
  BY DEF IInv, Turn, Turning, Active, OneLlmCall
<1> QED
  BY <1>1, AgentTurnInvariant, PTL

\* An open confirmation is the one its task names and takes the user's reply to.
THEOREM ConfirmationsAnswerable == Spec => []ApprovalAnswerable
<1>1. IInv => ApprovalAnswerable
  <2>1. SUFFICES ASSUME IInv, OneTurn, ~Ended, NEW s \in Slots, call[s] = "asking"
                 PROVE  asking = s /\ status = "user"
    BY DEF ApprovalAnswerable
  <2>2. asking = s /\ s # NoCall
    BY <2>1, TurnAssumption DEF IInv, Turn, Asked
  <2> QED
    BY <2>1, <2>2 DEF IInv, Turn, Asked
<1> QED
  BY <1>1, AgentTurnInvariant, PTL

\* At the end of every frame what a task waits for exists: no turn is stranded
\* by any order of stops, messages, answers and results.
THEOREM NoTurnStranded == Spec => []Backed
<1>1. IInv => Backed
  <2>1. SUFFICES ASSUME IInv, FrameEnd, OneTurn
                 PROVE  /\ status # "ready"
                        /\ status \in {"agent", "running"} => flights > 0 \/ gen \in results
                        /\ status = "tools" =>
                             loop.pending # {} /\ \A s \in loop.pending : call[s] # "none"
                        /\ status = "user" /\ asking # NoCall => call[asking] = "asking"
    BY DEF Backed
  <2>2. ~HasMail(continues) /\ hint = "none" /\ ~(queued > 0)
    BY <2>1 DEF IInv, InFrame, FrameEnd
  <2>3. Asked /\ Turning
    BY <2>1 DEF IInv, Turn
  <2>4. status # "ready"
    BY <2>2, <2>3 DEF Turning
  <2>5. ASSUME status \in {"agent", "running"} PROVE flights > 0 \/ gen \in results
    <3>1. Active = 1
      BY <2>3, <2>5 DEF Turning, Ended, Terminal
    <3> QED
      BY <2>1, <2>2, <3>1, SMT DEF Active, IInv, TypeOK
  <2>6. ASSUME status = "tools"
        PROVE  loop.pending # {} /\ \A s \in loop.pending : call[s] # "none"
    BY <2>3, <2>6 DEF Asked, Ended, Terminal
  <2>7. ASSUME status = "user", asking # NoCall PROVE call[asking] = "asking"
    BY <2>3, <2>7 DEF Asked, Ended, Terminal
  <2> QED
    BY <2>4, <2>5, <2>6, <2>7
<1> QED
  BY <1>1, AgentTurnInvariant, PTL

\* A stop holds until the next message, the end of a task for good.
THEOREM CancelsStay == Spec => CancelIsFinal
<1>1. IInv => StopIsFinal
  <2>1. SUFFICES ASSUME IInv, OneTurn, interrupted
                 PROVE  flights = 0 /\ queued = 0 /\ gen \notin results
    BY DEF StopIsFinal
  <2>2. Active = 0
    BY <2>1 DEF IInv, Turn, Halted
  <2> QED
    BY <2>1, <2>2, SMT DEF Active, IInv, TypeOK
<1>2. IInv /\ [Next]_vars => [OneTurn /\ Ended => status' \in Terminal]_vars
  BY EndStays DEF Ended
<1> QED
  BY <1>1, <1>2, AgentTurnInvariant, PTL DEF Spec, CancelIsFinal, EndIsFinal

\* An agent that completes its task has been given every notification.
THEOREM CompletionIsInformed == Spec => CompletionSeesNotices
<1>1. IInv /\ [Next]_vars =>
        [("llm" \in todo \ todo' /\ ~Ended /\ status' = "done")
           => jobs + silent = 0 /\ ~HasMail(inbox) /\ ~HasMail(deliveries)]_vars
  BY DoneSeesNotices
<1> QED
  BY <1>1, AgentTurnInvariant, PTL DEF Spec, CompletionSeesNotices

\* Where no job ends silently, a deferred task is woken after the last one.
THEOREM DeferredTasksWake == ~SilentJobs => (Spec => []DeferredIsWoken)
<1>1. SUFFICES ASSUME ~SilentJobs
               PROVE  Spec => []DeferredIsWoken
  OBVIOUS
<1>2. Init => Deferred
  BY DEF Init, Deferred
<1>3. IInv /\ Deferred /\ [Next]_vars => Deferred'
  BY <1>1, DeferredStep
<1>4. IInv /\ Deferred => DeferredIsWoken
  <2>1. SUFFICES ASSUME IInv, Deferred, FrameEnd, status = "jobs"
                 PROVE  jobs + silent > 0 \/ HasMail(inbox)
    BY DEF DeferredIsWoken
  <2>2. ~HasMail(continues) /\ ~HasMail(deliveries)
    BY <2>1 DEF IInv, InFrame, FrameEnd
  <2>3. jobs > 0 => jobs + silent > 0
    BY <2>1, TurnAssumption DEF IInv, TypeOK, Deferred
  <2> QED
    BY <2>1, <2>2, <2>3 DEF Deferred
<1> QED
  BY <1>2, <1>3, <1>4, AgentTurnInvariant, PTL DEF Spec

\* No turn inherits the loop of the turn before, whatever messages, stops,
\* retries and results meet in a frame, unless its message overtakes the reset
\* in the frame of the stop.
THEOREM TurnsStartClean == Spec => TurnStartsClean
<1>1. Init => Clean
  BY DEF Init, Clean, OneTurn, NoLoop
<1>2. IInv /\ Clean /\ [Next]_vars => Clean'
  <2>1. ASSUME IInv, Clean, UNCHANGED vars PROVE Clean'
    BY <2>1 DEF Clean, OneTurn, Idle, ResetIsDue, vars, taskVars, loopVars, history
  <2> QED
    BY <2>1, CleanStep
<1>3. IInv /\ Clean => (FrameEnd /\ OneTurn /\ Idle => loop = NoLoop)
  BY DEF Clean, FrameEnd, ResetIsDue
<1>4. IInv /\ Clean /\ [Next]_vars => [OneTurn /\ StartsTurn => loop = NoLoop \/ ResetIsDue]_vars
  BY StartIsClean
<1> QED
  BY <1>1, <1>2, <1>3, <1>4, AgentTurnInvariant, PTL DEF Spec, TurnStartsClean

=============================================================================

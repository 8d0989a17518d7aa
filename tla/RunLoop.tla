------------------------------- MODULE RunLoop -------------------------------
(***************************************************************************)
(* The demand-driven main loop and its doorbell (contracts/wake.rs,        *)
(* app/run_loop.rs, systems/demand.rs).                                    *)
(*                                                                         *)
(* A producer hands its payload to a queue and then rings: fetch_or on the *)
(* shared flags, try_send on a channel of capacity one.  The loop takes    *)
(* the bell (try_recv, then swap of the flags), decides whether the world  *)
(* has to be updated, and blocks on the bell, the input channel and the    *)
(* next deadline.  Each atomic operation of either side is one step.       *)
(***************************************************************************)
EXTENDS RuntimeDeadlines

CONSTANTS
  Items,   \* payloads, each sent once by a producer of its own
  Kind,    \* [Items -> {"mail", "ui", "input"}]: which queue carries it
  Batch,   \* payloads one drain takes from a queue (256 in the code)
  Depth,   \* bound: follow-up frames one payload may need
  Keys,    \* deadline keys
  MaxTime  \* bound of the clock

ASSUME RunLoopAssumption ==
  /\ Kind \in [Items -> {"mail", "ui", "input"}]
  /\ Batch \in Nat \ {0}
  /\ Depth \in Nat
  /\ MaxTime \in Nat

VARIABLES
  prod,      \* producer of each item: "idle", "sent", "raised", "done"
  mail,      \* items in the runtime queues (WakeSender)
  ui,        \* items in the UI queue, consumed by hooks.poll
  inputs,    \* items in the raw input channel the loop selects on
  buffered,  \* BufferedIngress: inputs the select received
  flags,     \* the doorbell's AtomicU8
  token,     \* the doorbell's channel holds its one token
  pc,        \* step of the loop
  reason,    \* WakeReason of this iteration
  bootstrap, \* the first update has not run
  ecs,       \* frames of follow-up work left in the world
  index,     \* RuntimeDeadlines
  due,       \* keys taken by the last take_due
  now        \* monotonic clock

queueVars == <<mail, ui, inputs, buffered>>
bellVars == <<flags, token>>
timeVars == <<index, due, now>>
vars == <<prod, queueVars, bellVars, pc, reason, bootstrap, ecs, timeVars>>

Flag(i) == IF Kind[i] = "ui" THEN "ui" ELSE "runtime"

Times == 0..MaxTime

Steps == {"take", "swap", "poll", "check", "update", "exit", "select", "stopped"}

\* What try_iter().take(256) and its like may take from queue Q.
Drains(Q) == {S \in SUBSET Q : S = Q \/ Cardinality(S) = Batch}

Init ==
  /\ prod = [i \in Items |-> "idle"]
  /\ mail = {} /\ ui = {} /\ inputs = {} /\ buffered = {}
  /\ flags = {} /\ token = FALSE
  /\ pc = "take" /\ reason = {} /\ bootstrap = TRUE /\ ecs = 0
  /\ index = Empty /\ due = {} /\ now = 0

-----------------------------------------------------------------------------
(* Producers and the clock.                                                *)

\* WakeSender::send puts the payload in its queue; a raw input sender is done.
Send(i) ==
  /\ prod[i] = "idle"
  /\ prod' = [prod EXCEPT ![i] = IF Kind[i] = "input" THEN "done" ELSE "sent"]
  /\ mail' = IF Kind[i] = "mail" THEN mail \cup {i} ELSE mail
  /\ ui' = IF Kind[i] = "ui" THEN ui \cup {i} ELSE ui
  /\ inputs' = IF Kind[i] = "input" THEN inputs \cup {i} ELSE inputs
  /\ UNCHANGED <<buffered, bellVars, pc, reason, bootstrap, ecs, timeVars>>

\* signal: fetch_or ...
RaiseFlag(i) ==
  /\ prod[i] = "sent"
  /\ prod' = [prod EXCEPT ![i] = "raised"]
  /\ flags' = flags \cup {Flag(i)}
  /\ UNCHANGED <<queueVars, token, pc, reason, bootstrap, ecs, timeVars>>

\* ... then try_send, which is lost when the slot is full.
Ring(i) ==
  /\ prod[i] = "raised"
  /\ prod' = [prod EXCEPT ![i] = "done"]
  /\ token' = TRUE
  /\ UNCHANGED <<queueVars, flags, pc, reason, bootstrap, ecs, timeVars>>

\* Time passes (std::time::Instant).
ClockTicks ==
  /\ now < MaxTime
  /\ now' = now + 1
  /\ UNCHANGED <<prod, queueVars, bellVars, pc, reason, bootstrap, ecs, index, due>>

-----------------------------------------------------------------------------
(* The loop.                                                               *)

\* take: try_recv first ...
TakeToken ==
  /\ pc = "take"
  /\ token' = FALSE
  /\ pc' = "swap"
  /\ UNCHANGED <<prod, queueVars, flags, reason, bootstrap, ecs, timeVars>>

\* ... then swap(0).
SwapFlags ==
  /\ pc = "swap"
  /\ reason' = flags
  /\ flags' = {}
  /\ pc' = "poll"
  /\ UNCHANGED <<prod, queueVars, token, bootstrap, ecs, timeVars>>

\* hooks.poll drains the UI queue, up to a batch.
Poll ==
  /\ pc = "poll"
  /\ \E U \in Drains(ui) : ui' = ui \ U
  /\ pc' = "check"
  /\ UNCHANGED <<prod, mail, inputs, buffered, bellVars, reason, bootstrap, ecs, timeVars>>

\* Mutant: the inputs the select received are forgotten.
ReadyOnBell ==
  bootstrap \/ "runtime" \in reason \/ Due(index, now) # {} \/ inputs # {}

\* Whether this iteration updates the world; UI activity alone does not.
Ready ==
  \/ bootstrap \/ "runtime" \in reason \/ Due(index, now) # {}
  \/ buffered # {} \/ inputs # {}

Check ==
  /\ pc = "check"
  /\ due' = Due(index, now)
  /\ index' = AfterDue(index, now)
  /\ pc' = IF Ready THEN "update" ELSE "exit"
  /\ UNCHANGED <<prod, queueVars, bellVars, reason, bootstrap, ecs, now>>

\* Mutant: the flag is raised without a token.
FlagOnly(cond) ==
  /\ flags' = IF cond THEN flags \cup {"runtime"} ELSE flags
  /\ UNCHANGED token

\* A component that changed, or mail left over by the batch limit, rings again.
NotifyIf(cond) ==
  /\ flags' = IF cond THEN flags \cup {"runtime"} ELSE flags
  /\ token' = (token \/ cond)

\* DemandSchedule::project and clear, at the end of the frame: a deadline is set,
\* cleared, or none.  Which one follows from components outside this module.
Project ==
  \/ \E k \in Keys, at \in Times : index' = Set(index, k, at)
  \/ \E k \in Armed(index) : index' = Remove(index, k)
  \/ UNCHANGED index

\* app.update(): the ingest systems take M of the mail and I of the inputs, the
\* world advances, and the Last schedule rings and projects; then poll again.
Update(M, I) ==
  /\ pc = "update"
  /\ mail' = mail \ M
  /\ inputs' = inputs \ I
  /\ buffered' = {}
  /\ \E U \in Drains(ui) : ui' = ui \ U
  /\ bootstrap' = FALSE
  /\ ecs' \in IF M \cup I \cup buffered # {} \/ due # {} THEN 0..Depth
              ELSE {IF ecs = 0 THEN 0 ELSE ecs - 1}
  /\ NotifyIf(ecs' > 0 \/ mail' # {})
  /\ Project
  /\ pc' = "exit"
  /\ UNCHANGED <<prod, reason, due, now>>

\* The loop ends on a quit, or on a shutdown once app_is_idle.
Exit ==
  /\ pc = "exit"
  /\ pc' \in {"select", "stopped"}
  /\ UNCHANGED <<prod, queueVars, bellVars, reason, bootstrap, ecs, timeVars>>

\* The operations of the select.
WokenByBell ==
  /\ pc = "select" /\ token
  /\ token' = FALSE
  /\ pc' = "take"
  /\ UNCHANGED <<prod, queueVars, flags, reason, bootstrap, ecs, timeVars>>

WokenByInput(i) ==
  /\ pc = "select" /\ i \in inputs
  /\ inputs' = inputs \ {i}
  /\ buffered' = buffered \cup {i}
  /\ pc' = "take"
  /\ UNCHANGED <<prod, mail, ui, bellVars, reason, bootstrap, ecs, timeVars>>

\* Mutant: the timer fires only after the deadline.
WokenTooLate ==
  /\ pc = "select"
  /\ \E at \in Times : IsNext(index, at) /\ at < now
  /\ pc' = "take"
  /\ UNCHANGED <<prod, queueVars, bellVars, reason, bootstrap, ecs, timeVars>>

WokenByDeadline ==
  /\ pc = "select"
  /\ \E at \in Times : IsNext(index, at) /\ at <= now
  /\ pc' = "take"
  /\ UNCHANGED <<prod, queueVars, bellVars, reason, bootstrap, ecs, timeVars>>

\* The heartbeat or a hook's own deadline: no property relies on them.
WokenByTimeout ==
  /\ pc = "select"
  /\ pc' = "take"
  /\ UNCHANGED <<prod, queueVars, bellVars, reason, bootstrap, ecs, timeVars>>

-----------------------------------------------------------------------------
LoopStep ==
  \/ TakeToken \/ SwapFlags \/ Poll \/ Check \/ Exit
  \/ \E M \in Drains(mail), I \in Drains(inputs) : Update(M, I)
  \/ WokenByBell \/ WokenByDeadline
  \/ \E i \in Items : WokenByInput(i)

Next ==
  \/ \E i \in Items : Send(i) \/ RaiseFlag(i) \/ Ring(i)
  \/ ClockTicks
  \/ LoopStep
  \/ WokenByTimeout

\* The loop's thread runs, and a producer inside send() returns from it.
Fairness ==
  /\ WF_vars(LoopStep)
  /\ \A i \in Items : WF_vars(RaiseFlag(i)) /\ WF_vars(Ring(i))

Spec == Init /\ [][Next]_vars
FairSpec == Spec /\ Fairness

-----------------------------------------------------------------------------
(* Properties.                                                             *)

\* Every variable keeps its type.
TypeOK ==
  /\ prod \in [Items -> {"idle", "sent", "raised", "done"}]
  /\ mail \in SUBSET Items /\ ui \in SUBSET Items
  /\ inputs \in SUBSET Items /\ buffered \in SUBSET Items
  /\ flags \in SUBSET {"runtime", "ui"} /\ reason \in SUBSET {"runtime", "ui"}
  /\ token \in BOOLEAN /\ bootstrap \in BOOLEAN
  /\ pc \in Steps
  /\ ecs \in 0..Depth
  /\ index \in Index(Keys, Times) /\ due \in SUBSET Keys
  /\ now \in Times

\* Somebody is about to put the token in the slot, or it is there.
BellComing == token \/ \E i \in Items : prod[i] = "raised"

\* Work the runtime flag must announce.
Announced == ecs > 0 \/ \E i \in mail : prod[i] # "sent"

\* No lost wakeup: the loop never blocks on work that was announced unless the
\* runtime flag is up and its token is in the slot or on its way
\* (contracts/wake.rs take/signal against run_loop's blocking select).
NoLostWakeup ==
  pc = "select" /\ Announced => "runtime" \in flags /\ BellComing

\* The same in every step of the loop: the flag is up with a token to come or
\* the swap still ahead, or this iteration has read it, or the update runs.
BellInv ==
  Announced =>
    \/ "runtime" \in flags /\ (BellComing \/ pc \in {"take", "swap"})
    \/ "runtime" \in reason /\ pc \in {"poll", "check"}
    \/ pc = "update"

\* An input the select took from its channel is never left behind while the loop
\* blocks or ends: the iteration that follows puts it in the world.
BufferedIsServed == pc \in {"exit", "select", "stopped"} => buffered = {}

\* A payload is in the queue of its kind only, and only once handed over.
Queued ==
  /\ \A i \in mail : Kind[i] = "mail" /\ prod[i] # "idle"
  /\ \A i \in ui : Kind[i] = "ui" /\ prod[i] # "idle"
  /\ \A i \in inputs \cup buffered : Kind[i] = "input" /\ prod[i] # "idle"

\* The ordered half of the deadline index holds exactly the armed deadlines: a
\* replaced or cleared one leaves nothing that could wake the loop.
NoStaleDeadline == Agree(index)

\* The inductive invariant of the loop.
LoopInv ==
  /\ TypeOK
  /\ Queued
  /\ BellInv
  /\ BufferedIsServed
  /\ NoStaleDeadline

\* The loop never blocks with UI events in their queue, the slot empty and every
\* sender gone: nothing would make it read them ("reads all pending terminal
\* events", main.rs).
UiNotStranded ==
  pc = "select" /\ ui # {} => token \/ \E i \in Items : prod[i] \in {"sent", "raised"}

\* A deadline fires when its time has come and not before, as it was last set:
\* one that was replaced or cleared wakes nothing.
FiresOnTime ==
  [][pc = "check" /\ pc' # "check" =>
       due' = {k \in Armed(index) : index.by_key[k] <= now}]_vars

\* Work nobody rings for is done all the same, and at its time: a deadline that
\* has passed is taken, or replaced by a later one, one that has not does not
\* fire, and the follow-up work of a frame gets its next frame.
DueWorkIsDone ==
  /\ FiresOnTime
  /\ \A k \in Keys : k \in Due(index, now) ~> (k \notin Due(index, now) \/ pc = "stopped")
  /\ ecs > 0 ~> (pc = "update" \/ ecs = 0 \/ pc = "stopped")

\* The loop implements the work queue its producers rely on: each payload is
\* served once, and sooner or later, whatever the timing of the bell.
WQ == INSTANCE WorkQueue WITH
  Items <- {i \in Items : Kind[i] # "ui"},
  queued <- mail \cup inputs \cup buffered,
  served <- {i \in Items : Kind[i] # "ui" /\ prod[i] # "idle"}
              \ (mail \cup inputs \cup buffered),
  open <- pc # "stopped"
ServesAll == WQ!Spec

=============================================================================

---------------------------- MODULE SessionOutput ----------------------------
(***************************************************************************)
(* The way of a monitored shell session's output to its user: reader       *)
(* threads append lines to the backend's queue of the session, the monitor *)
(* system polls the queues, gathers events into batches, hands a batch to  *)
(* the channel manager, retries on a bad receipt, and acknowledges to the  *)
(* backend what was delivered or given up.  The channel manager sends the  *)
(* entries of its queue one by one and calls back with each result.        *)
(*                                                                         *)
(* monitor_output_system is one system; its steps (receipts and poll, then *)
(* one per batch) are actions because readers, the sender and a shutdown   *)
(* run between them.                                                       *)
(***************************************************************************)
EXTENDS Naturals, Sequences, FiniteSets, Functions

CONSTANTS
  Sessions,    \* monitored sessions; their ids are ordered
  Route,       \* [Sessions -> {"platform", "tui", "none"}]
  Writes,      \* bound: [Sessions -> Nat], the lines a session's process writes
  MaxBuffered, \* unacknowledged events of a session before it overflows
  MaxPolled,   \* MAX_POLLED_EVENTS
  MaxAttempts, \* attempts per batch
  MayEnd,      \* bound: sessions whose process or task may end
  MayShutDown  \* the channel manager may be shut down

ASSUME SessionOutputAssumption ==
  /\ Sessions \subseteq Nat \ {0} /\ IsFiniteSet(Sessions)
  /\ Route \in [Sessions -> {"platform", "tui", "none"}]
  /\ Writes \in [Sessions -> Nat] /\ MaxBuffered \in Nat \ {0} /\ MaxPolled \in Nat \ {0}
  /\ MaxAttempts \in Nat \ {0} /\ MayShutDown \in BOOLEAN
  /\ MayEnd \subseteq Sessions

VARIABLES
  process,   \* per session: "running", "exited" (not yet noticed) or "over"
  reading,   \* sessions whose stdout reader still runs
  lines,     \* bound: lines read so far
  kept,      \* sessions with a PendingSessionEvents queue
  front,     \* per session: sequence number of the first unacknowledged event
  next,      \* per session: next_sequence
  overflow,  \* queues that overflowed
  stopped,   \* overflowed queues whose session was stopped
  cursor,    \* output_poll_cursor
  keys,      \* batches monitor_output_system has yet to look at in this run
  pending,   \* MonitorDeliveries: <<session, first sequence>> to batch
  receipts,  \* DeliveryReceipts not yet received
  ended,     \* sessions whose owner task has ended
  outbound,  \* OutboundEntries in the manager's queue
  sender,    \* where the manager's sender task is
  holding,   \* the entry it sends, as a sequence of at most one
  closing,   \* the manager's closing flag
  signalled, \* the shutdown broadcast was sent
  recorded,  \* history: the last event of each session with a delivery record
  confirmed  \* history: events a platform or the terminal has confirmed and
             \* that are not yet recorded

backendVars == <<process, reading, lines, kept, front, next, overflow, stopped, cursor>>
monitorVars == <<keys, pending>>
senderVars == <<outbound, sender, holding, closing, signalled>>
history == <<recorded, confirmed>>
vars == <<backendVars, monitorVars, receipts, ended, senderVars, history>>

Lines ==
  LET counts == {Writes[s] : s \in Sessions} \cup {0}
  IN  1..(CHOOSE n \in counts : \A m \in counts : m <= n)
Keys == Sessions \X Lines
Batch == [last : Lines, attempt : 0..MaxAttempts, due : BOOLEAN,
          state : {"collecting", "awaiting", "retry",
                   "delivered", "failed", "terminated"}]
Finished == {"delivered", "failed", "terminated"}
Attempt == [key : Keys, last : Lines, attempt : 1..MaxAttempts]

Init ==
  /\ process = [s \in Sessions |-> "running"] /\ reading = Sessions
  /\ lines = [s \in Sessions |-> 0] /\ kept = Sessions
  /\ front = [s \in Sessions |-> 1] /\ next = [s \in Sessions |-> 1]
  /\ overflow = {} /\ stopped = {} /\ cursor = 0
  /\ keys = {} /\ pending = [k \in {} |-> {}]
  /\ receipts = {} /\ ended = {}
  /\ outbound = <<>> /\ sender = "check" /\ holding = <<>>
  /\ closing = FALSE /\ signalled = FALSE
  /\ recorded = [s \in Sessions |-> 0] /\ confirmed = {}

-----------------------------------------------------------------------------
(* The backend.                                                            *)

Queued(s) == front[s]..(next[s] - 1)

\* PendingSessionEvents::push by the stdout reader.  The event that does not
\* fit is replaced by a notice, and the reader ends.
ReadLine(s) ==
  /\ s \in reading /\ lines[s] < Writes[s]
  /\ lines' = [lines EXCEPT ![s] = @ + 1]
  /\ IF s \in kept /\ s \notin overflow
       THEN /\ next' = [next EXCEPT ![s] = @ + 1]
            /\ overflow' = IF Cardinality(Queued(s)) >= MaxBuffered
                             THEN overflow \cup {s} ELSE overflow
            /\ reading' = IF Cardinality(Queued(s)) >= MaxBuffered
                            THEN reading \ {s} ELSE reading
       ELSE reading' = reading \ {s} /\ UNCHANGED <<next, overflow>>
  /\ UNCHANGED <<process, kept, front, stopped, cursor, monitorVars, receipts,
                 ended, senderVars, history>>

\* The process ends by itself; its reader sees the end of the pipe, unless a
\* descendant holds it open.
Exit(s) ==
  /\ s \in MayEnd /\ process[s] = "running"
  /\ process' = [process EXCEPT ![s] = "exited"]
  /\ UNCHANGED <<reading, lines, kept, front, next, overflow, stopped, cursor,
                 monitorVars, receipts, ended, senderVars, history>>

EndOfPipe(s) ==
  /\ s \in reading /\ process[s] # "running"
  /\ reading' = reading \ {s}
  /\ UNCHANGED <<process, lines, kept, front, next, overflow, stopped, cursor,
                 monitorVars, receipts, ended, senderVars, history>>

\* record_finished, reached from shell_list, shell_read, shell_stop or a task's
\* cleanup: an empty queue goes with the session.
RecordFinished(s) ==
  /\ s \in MayEnd /\ process[s] # "over"
  /\ process' = [process EXCEPT ![s] = "over"]
  /\ kept' = IF Queued(s) = {} THEN kept \ {s} ELSE kept
  /\ UNCHANGED <<reading, lines, front, next, overflow, stopped, cursor,
                 monitorVars, receipts, ended, senderVars, history>>

\* poll_output_events: sessions whose exit it notices and which it stops.
Noticed == {s \in kept \ reading : Queued(s) = {} /\ process[s] = "exited"}

\* Mutant: only sessions the registry still shows as running.
StopExited == {s \in overflow \ stopped : process[s] = "exited"}

ToStop == overflow \ stopped

Events == {e \in Keys : e[1] \in kept /\ e[2] \in Queued(e[1])}

\* Sessions are polled in the order of their ids, from the one after the
\* cursor; s comes before t.
PolledBefore(s, t) == IF (s > cursor) = (t > cursor) THEN s < t ELSE s > cursor

Precedes(e, f) ==
  \/ e[1] = f[1] /\ e[2] < f[2]
  \/ e[1] # f[1] /\ PolledBefore(e[1], f[1])

Polled == {e \in Events : Cardinality({f \in Events : Precedes(f, e)}) < MaxPolled}

BackendPolls(polled) ==
  /\ process' = [s \in Sessions |-> IF s \in Noticed \cup (ToStop \cap kept) THEN "over" ELSE process[s]]
  /\ kept' = {s \in kept : Queued(s) # {} \/ process'[s] # "over"}
  /\ stopped' = stopped \cup ToStop
  /\ cursor' = IF polled = {} THEN cursor
               ELSE (CHOOSE e \in polled : \A f \in polled \ {e} : Precedes(f, e))[1]

-----------------------------------------------------------------------------
(* The monitor.                                                            *)

\* MonitorDeliveries::receive on one batch.
Answered(b, ok) ==
  IF ok THEN [b EXCEPT !.state = "delivered"]
  ELSE IF b.attempt < MaxAttempts THEN [b EXCEPT !.state = "retry", !.due = FALSE]
  ELSE [b EXCEPT !.state = "failed"]

\* A receipt counts for the attempt it answers.
Matches(r, k) == r.key = k /\ pending[k].state = "awaiting" /\ pending[k].attempt = r.attempt

Received(k) ==
  IF \E r \in receipts : Matches(r, k)
    THEN Answered(pending[k], (CHOOSE r \in receipts : Matches(r, k)).ok)
    ELSE pending[k]

Of(s) == {k \in DOMAIN pending : k[1] = s}
LastOf(s) == CHOOSE k \in Of(s) : \A j \in Of(s) : j[2] <= k[2]
Known(e) == \E k \in Of(e[1]) : k[2] <= e[2] /\ e[2] <= pending[k].last
New(polled) == {e \in polled : ~Known(e)}

\* Mutant: any last batch takes new events.
JoinsAny(e, new) == Of(e[1]) # {}

\* New events start a batch (those in cuts) or join the one before them, which
\* may be the session's last pending one while it is collecting.
Joins(e, new) ==
  \/ \E f \in new : f[1] = e[1] /\ f[2] < e[2]
  \/ Of(e[1]) # {} /\ pending[LastOf(e[1])].state = "collecting"

\* The last event of the batch that begins with k when cuts begin others.
Reach(k, new, cuts) ==
  LET run == {n \in Lines :
                /\ <<k[1], n>> \in new \cup {k} /\ n >= k[2]
                /\ ~ \E c \in cuts : c[1] = k[1] /\ k[2] < c[2] /\ c[2] <= n}
  IN  CHOOSE n \in run : \A m \in run : m <= n

\* MonitorDeliveries::enqueue of every polled event.
Enqueued(new, cuts) ==
  [k \in DOMAIN pending \cup cuts |->
     IF k \in cuts
       THEN [last |-> Reach(k, new, cuts), attempt |-> 0, due |-> FALSE, state |-> "collecting"]
     ELSE IF k = LastOf(k[1]) /\ Reach(k, new, cuts) > pending[k].last
       THEN [pending[k] EXCEPT !.last = Reach(k, new, cuts)]
     ELSE Received(k)]

\* A run begins: receipts first, then the poll.
Poll ==
  /\ keys = {} /\ receipts' = {}
  /\ LET polled == Polled
         new == New(polled)
     IN  /\ BackendPolls(polled)
         /\ \E cuts \in SUBSET new :
              /\ \A e \in new \ cuts : Joins(e, new)
              /\ pending' = Enqueued(new, cuts)
              /\ keys' = DOMAIN pending \cup cuts
  /\ UNCHANGED <<reading, lines, front, next, overflow, ended, senderVars, history>>

\* It is not time to poll, or the backend cannot be reached.
NoPoll ==
  /\ keys = {} /\ receipts' = {} /\ DOMAIN pending # {}
  /\ keys' = DOMAIN pending
  /\ pending' = [k \in DOMAIN pending |-> Received(k)]
  /\ UNCHANGED <<backendVars, ended, senderVars, history>>

\* The batches are looked at in the order of their keys.
Turn(k) ==
  /\ k \in keys
  /\ \A j \in keys \ {k} : k[1] < j[1] \/ (k[1] = j[1] /\ k[2] < j[2])
  /\ keys' = keys \ {k}

Alive(k) == k[1] \notin ended

\* Mutant: a batch that is to be tried again is overtaken.
EarlierAwaited(k) == \E j \in Of(k[1]) : j[2] < k[2] /\ pending[j].state = "awaiting"

Earlier(k) == \E j \in Of(k[1]) : j[2] < k[2]

\* What is left of a batch whose task has ended: unless its answer is awaited,
\* it is terminated.
Seen(k) ==
  IF ~Alive(k) /\ pending[k].state \in {"collecting", "retry"}
    THEN [pending[k] EXCEPT !.state = "terminated"] ELSE pending[k]

Ready(k) == Seen(k).state \in {"collecting", "retry"} /\ Seen(k).due

\* A batch that can neither be sent nor resolved yet.
Keep(k) ==
  /\ Turn(k)
  /\ ~(~Earlier(k) /\ (Ready(k) \/ Seen(k).state \in Finished))
  /\ pending' = [pending EXCEPT ![k] = Seen(k)]
  /\ UNCHANGED <<backendVars, receipts, ended, senderVars, history>>

\* ChannelManager::enqueue, or the error it returns.
Accepts == ~closing /\ sender # "closed"

EventsOf(k, last) == {<<k[1], n>> : n \in k[2]..last}

Send(k) ==
  /\ Turn(k) /\ Ready(k) /\ ~Earlier(k)
  /\ LET a == pending[k].attempt + 1
         try == [key |-> k, last |-> pending[k].last, attempt |-> a]
         answer(ok) == receipts \cup {[key |-> k, attempt |-> a, ok |-> ok]}
     IN  /\ pending' = [pending EXCEPT ![k] = [@ EXCEPT !.attempt = a, !.state = "awaiting"]]
         /\ CASE Route[k[1]] = "tui" ->
                   /\ receipts' = answer(TRUE)
                   /\ confirmed' = confirmed \cup EventsOf(k, try.last)
                   /\ UNCHANGED outbound
              [] Route[k[1]] = "platform" /\ Accepts ->
                   outbound' = Append(outbound, try) /\ UNCHANGED <<receipts, confirmed>>
              [] OTHER ->
                   receipts' = answer(FALSE) /\ UNCHANGED <<outbound, confirmed>>
  /\ UNCHANGED <<backendVars, ended, sender, holding, closing, signalled, recorded>>

\* ack_output_events: the backend forgets events up to and including n.
Acknowledged(s, n) ==
  /\ front' = [front EXCEPT ![s] = IF @ > n THEN @ ELSE n + 1]
  /\ kept' = IF process[s] = "over" /\ next[s] = n + 1 THEN kept \ {s} ELSE kept

\* A finished first batch is acknowledged, recorded and removed.
Resolve(k) ==
  /\ Turn(k) /\ Seen(k).state \in Finished /\ ~Earlier(k)
  /\ Acknowledged(k[1], pending[k].last)
  /\ recorded' = [recorded EXCEPT ![k[1]] = pending[k].last]
  /\ confirmed' = confirmed \ EventsOf(k, pending[k].last)
  /\ pending' = Restrict(pending, DOMAIN pending \ {k})
  /\ UNCHANGED <<process, reading, lines, next, overflow, stopped, cursor,
                 receipts, ended, senderVars>>

\* The acknowledgement fails, or only its answer is lost: the batch stays.
AckFails(k) ==
  /\ Turn(k) /\ Seen(k).state \in Finished /\ ~Earlier(k)
  /\ \/ Acknowledged(k[1], pending[k].last)
     \/ UNCHANGED <<front, kept>>
  /\ pending' = [pending EXCEPT ![k] = Seen(k)]
  /\ UNCHANGED <<process, reading, lines, next, overflow, stopped, cursor,
                 receipts, ended, senderVars, history>>

\* The collection window or the backoff of a batch passes.
Elapse(k) ==
  /\ k \in DOMAIN pending /\ keys = {}
  /\ pending[k].state \in {"collecting", "retry"} /\ ~pending[k].due
  /\ pending' = [pending EXCEPT ![k].due = TRUE]
  /\ UNCHANGED <<backendVars, keys, receipts, ended, senderVars, history>>

TaskEnds(s) ==
  /\ keys = {} /\ s \in MayEnd \ ended
  /\ ended' = ended \cup {s}
  /\ UNCHANGED <<backendVars, monitorVars, receipts, senderVars, history>>

-----------------------------------------------------------------------------
(* The channel manager.                                                    *)

\* Mutant: an entry that was not sent is dropped.
FinishSent(try, ok) ==
  /\ receipts' = IF ok THEN receipts \cup {[key |-> try.key, attempt |-> try.attempt, ok |-> ok]}
                 ELSE receipts
  /\ confirmed' = confirmed

\* finish_outbound: the callback puts a receipt into the monitor's channel.
Finish(try, ok) ==
  /\ receipts' = receipts \cup {[key |-> try.key, attempt |-> try.attempt, ok |-> ok]}
  /\ confirmed' = IF ok THEN confirmed \cup EventsOf(try.key, try.last) ELSE confirmed

CheckClosing ==
  /\ sender = "check" /\ sender' = IF closing THEN "closed" ELSE "wait"
  /\ UNCHANGED <<backendVars, monitorVars, receipts, ended, outbound, holding,
                 closing, signalled, history>>

\* The select is biased: a shutdown that was signalled comes first.
Take ==
  /\ sender = "wait" /\ ~signalled /\ outbound # <<>>
  /\ outbound' = Tail(outbound)
  /\ IF closing
       THEN Finish(Head(outbound), FALSE) /\ sender' = "closed" /\ UNCHANGED holding
       ELSE /\ holding' = <<Head(outbound)>> /\ sender' = "send"
            /\ UNCHANGED <<receipts, confirmed>>
  /\ UNCHANGED <<backendVars, monitorVars, ended, closing, signalled, recorded>>

WakeToClose ==
  /\ sender = "wait" /\ signalled /\ sender' = "closed"
  /\ UNCHANGED <<backendVars, monitorVars, receipts, ended, outbound, holding,
                 closing, signalled, history>>

\* The platform answers, fails or times out, or a shutdown cuts the send short.
Sent(ok) ==
  /\ sender = "send" /\ (signalled => ~ok)
  /\ Finish(holding[1], ok)
  /\ holding' = <<>> /\ sender' = "check"
  /\ UNCHANGED <<backendVars, monitorVars, ended, outbound, closing, signalled, recorded>>

\* After the receiver was closed, every entry left is answered with an error.
Drain ==
  /\ sender = "closed" /\ outbound # <<>>
  /\ Finish(Head(outbound), FALSE) /\ outbound' = Tail(outbound)
  /\ UNCHANGED <<backendVars, monitorVars, ended, sender, holding, closing,
                 signalled, recorded>>

\* ChannelManager::shutdown: the flag, then the broadcast.
Close ==
  /\ MayShutDown /\ ~closing /\ closing' = TRUE
  /\ UNCHANGED <<backendVars, monitorVars, receipts, ended, outbound, sender,
                 holding, signalled, history>>

Signal ==
  /\ closing /\ ~signalled /\ signalled' = TRUE
  /\ UNCHANGED <<backendVars, monitorVars, receipts, ended, outbound, sender,
                 holding, closing, history>>

-----------------------------------------------------------------------------
MonitorStep ==
  \/ Poll \/ NoPoll
  \/ \E k \in DOMAIN pending : Keep(k) \/ Send(k) \/ Resolve(k) \/ AckFails(k)

SenderStep == CheckClosing \/ Take \/ WakeToClose \/ Drain \/ \E ok \in BOOLEAN : Sent(ok)

Next ==
  \/ \E s \in Sessions : ReadLine(s) \/ Exit(s) \/ EndOfPipe(s) \/ RecordFinished(s) \/ TaskEnds(s)
  \/ MonitorStep \/ SenderStep \/ Close \/ Signal
  \/ \E k \in Keys : Elapse(k)

Spec == Init /\ [][Next]_vars

\* Frames run (RunLoop) and the deadlines of the batches are registered with
\* the loop; a send has a timeout; polls and acknowledgements fail only now and
\* then.
Fairness ==
  /\ WF_vars(MonitorStep) /\ SF_vars(Poll)
  /\ SF_vars(\E k \in DOMAIN pending : Resolve(k))
  /\ SF_vars(\E k \in Keys : Elapse(k))
  /\ WF_vars(SenderStep) /\ WF_vars(Signal)

FairSpec == Spec /\ Fairness

-----------------------------------------------------------------------------
(* Properties.                                                             *)

\* Every variable keeps its type.
TypeOK ==
  /\ process \in [Sessions -> {"running", "exited", "over"}]
  /\ reading \subseteq Sessions /\ kept \subseteq Sessions
  /\ lines \in [Sessions -> Nat]
  /\ front \in [Sessions -> Nat \ {0}]
  /\ next \in [Sessions -> Nat \ {0}]
  /\ overflow \subseteq Sessions /\ stopped \subseteq overflow
  /\ cursor \in Sessions \cup {0}
  /\ keys \subseteq DOMAIN pending
  /\ DOMAIN pending \subseteq Keys /\ \A k \in DOMAIN pending : pending[k] \in Batch
  /\ \A r \in receipts : r \in [key : Keys, attempt : 1..MaxAttempts, ok : BOOLEAN]
  /\ ended \subseteq Sessions
  /\ outbound \in Seq(Attempt) /\ holding \in Seq(Attempt)
  /\ sender \in {"check", "wait", "send", "closed"}
  /\ Len(holding) = (IF sender = "send" THEN 1 ELSE 0)
  /\ closing \in BOOLEAN /\ signalled \in BOOLEAN
  /\ recorded \in [Sessions -> Nat] /\ confirmed \subseteq Keys

\* Attempts on batch k somewhere between the monitor and the receipt.
Outstanding(k) ==
  {<<"queue", i>> : i \in {j \in DOMAIN outbound : outbound[j].key = k}}
    \cup {<<"sender", i>> : i \in {j \in DOMAIN holding : holding[j].key = k}}
    \cup {<<"receipt", r>> : r \in {q \in receipts : q.key = k}}

\* Every attempt is answered exactly once, and never are two attempts of a
\* session under way: a batch awaits an answer exactly when one attempt, the
\* latest, is outstanding, and it is the session's first batch (delivery keeps
\* the order of the output although answers come from another thread).
OneAttemptAtATime ==
  \A k \in Keys :
    IF k \in DOMAIN pending /\ pending[k].state = "awaiting"
      THEN /\ Cardinality(Outstanding(k)) = 1 /\ \A j \in Of(k[1]) : k[2] <= j[2]
           /\ \A i \in DOMAIN outbound : outbound[i].key = k => outbound[i].attempt = pending[k].attempt
           /\ \A r \in receipts : r.key = k => r.attempt = pending[k].attempt
      ELSE Outstanding(k) = {}

\* What a session wrote is recorded without gap or repetition: pending batches
\* continue the records seamlessly, the backend keeps every event that is not
\* recorded (or whose acknowledgement is just being repeated), and a batch
\* recorded as delivered was confirmed.
NoGapNoRepeat ==
  \A s \in Sessions :
    /\ \A k \in Of(s) : \/ k[2] = recorded[s] + 1
                        \/ \E j \in Of(s) : pending[j].last + 1 = k[2]
    /\ \A j, k \in Of(s) : j[2] < k[2] => pending[j].last < k[2]
    /\ \A k \in Of(s) : pending[k].last >= k[2] /\ pending[k].last < next[s]
    /\ \A k \in Of(s) : pending[k].state = "delivered" => EventsOf(k, pending[k].last) \subseteq confirmed
    /\ recorded[s] < front[s]
    /\ \/ front[s] = recorded[s] + 1
       \/ \E k \in Of(s) : /\ k[2] = recorded[s] + 1 /\ front[s] = pending[k].last + 1
                           /\ pending[k].state \in Finished
    /\ s \notin kept => Queued(s) = {}

\* Every event is delivered or given up on record, an overflowing session is
\* stopped, and the queue of a session that is over is released.
OutputSettles ==
  <>[](\A s \in Sessions :
         /\ recorded[s] = next[s] - 1
         /\ s \in overflow => process[s] = "over"
         /\ process[s] = "over" => s \notin kept)

\* What the user is promised: a session's lines are shown in order and settled in
\* order, what was shown is neither shown again nor settled in part, and lines
\* are settled unseen only together and before anyone has got them, whatever
\* fails, is retried or ends on the way (OutputLog).
Log == INSTANCE OutputLog WITH
  read <- [s \in Sessions |-> next[s] - 1],
  shown <- confirmed,
  settled <- recorded

KeepsLog == Log!Spec
=============================================================================

------------------------------- MODULE Outbox -------------------------------
(***************************************************************************)
(* The outbox of push notifications: a notification is queued in the same  *)
(* change as the event it tells of, one worker claims, sends and finishes  *)
(* one at a time, and a result nobody can know is never sent again without *)
(* the user's consent.                                                     *)
(*                                                                         *)
(* Claim and finish are changes of the client store (see ClientSync): the  *)
(* file is written before the change counts, and after a failed write the  *)
(* store refuses everything until the process starts again.                *)
(***************************************************************************)
EXTENDS Store, Naturals, Sequences, FiniteSets, SequencesExt

CONSTANTS
  MaxNotes,     \* bound: notifications ever made
  Capacity,     \* notifications kept (4000)
  AutoAttempts, \* attempts before a temporary failure is final (3)
  MaxAttempts,  \* attempts altogether (20)
  DailyLimit,   \* daily_limit of a recipient
  MaxDays,      \* bound: days that pass
  MaxRetries,   \* bound: retries the user asks for
  Recipients    \* nicknames the user may be configured with

ASSUME OutboxAssumption ==
  /\ MaxNotes \in Nat /\ Capacity \in Nat \ {0} /\ AutoAttempts \in Nat \ {0} /\ MaxAttempts \in Nat \ {0}
  /\ DailyLimit \in Nat \ {0} /\ MaxDays \in Nat /\ MaxRetries \in Nat /\ Recipients # {}

VARIABLES
  notes,    \* State::notifications, in order
  quota,    \* per recipient: attempts counted today in notification_quota
  saved,    \* <<notes, quota>> in the state file
  recipient, \* the recipient configured for the user
  made,     \* notifications made so far
  worker,   \* notification_worker: "idle", "sending", "answered", "stopped"
  outcome,  \* what deliver() returns for the claimed notification
  copies,   \* messages of each id the platform has taken
  today,    \* the claimed attempt is of this day
  sent,     \* history, per recipient: messages taken for today's attempts
  allowed,  \* history: retries of an unknown result that the user allowed
  days, retries  \* bounds

store == <<notes, quota, saved, failed>>
delivery == <<worker, outcome, copies, today, sent>>
bounds == <<recipient, crashes, days, retries>>
outboxVars == <<store, delivery, made, allowed, faults, bounds>>

Ids == 1..MaxNotes
States == {"queued", "quota_wait", "sending", "accepted", "failed", "unknown"}
Outcomes == {"queued", "accepted", "failed", "unknown"}
Note == [id : Ids, state : States, due : BOOLEAN, attempts : 0..MaxAttempts, read : BOOLEAN,
         recipient : Recipients]
Unused == [r \in Recipients |-> 0]

OutboxInit ==
  /\ notes = <<>> /\ quota = Unused /\ saved = <<<<>>, Unused>> /\ failed = FALSE
  /\ made = 0 /\ worker = "idle" /\ outcome = "unknown"
  /\ copies = [n \in Ids |-> 0] /\ sent = Unused /\ today = TRUE
  /\ allowed = [n \in Ids |-> 0]
  /\ faults = 0 /\ crashes = 0 /\ days = 0 /\ retries = 0
  /\ recipient = CHOOSE r \in Recipients : TRUE

-----------------------------------------------------------------------------
\* Store::change, written.
Written(ns, q) ==
  /\ WriteSucceeds
  /\ notes' = ns /\ quota' = q /\ saved' = <<ns, q>>

\* Store::change, not written, or nobody knows.
NotWritten(ns, q) ==
  /\ WriteFails
  /\ saved' \in {saved, <<ns, q>>}
  /\ UNCHANGED <<notes, quota>>

Change(ns, q) == Written(ns, q) \/ NotWritten(ns, q)

At(i, s) == [notes EXCEPT ![i].state = s]
Positions(S) == {i \in DOMAIN notes : notes[i].state \in S}
FirstOf(S) == CHOOSE i \in S : \A j \in S : i <= j

\* Read notifications that are over make room for new ones.
Spent == {i \in Positions({"accepted", "failed"}) : notes[i].read}

\* enqueue, in the change of append_with_notification.  Without room the
\* notification is only counted.
Enqueue ==
  /\ made < MaxNotes /\ made' = made + 1
  /\ LET new == [id |-> made + 1, state |-> "queued", due |-> TRUE, attempts |-> 0, read |-> FALSE,
                 recipient |-> recipient]
         kept == IF Len(notes) < Capacity THEN notes
                 ELSE IF Spent = {} THEN notes ELSE RemoveAt(notes, FirstOf(Spent))
     IN Change(IF Len(kept) < Capacity THEN Append(kept, new) ELSE notes, quota)
  /\ UNCHANGED <<delivery, allowed, bounds>>

\* Mutant: a notification that waited for its quota is not looked at again.
WaitingToSend == {"queued"}

ToSend == {"queued", "quota_wait"}

Claimable == {i \in Positions(ToSend) : notes[i].due}

\* Mutant: one attempt too many.
FullBeyond(r) == quota[r] > DailyLimit

Full(r) == quota[r] >= DailyLimit

\* claim_notification: the attempt is counted before it is made.
Claim ==
  /\ worker = "idle" /\ Claimable # {}
  /\ LET i == FirstOf(Claimable)
         over == notes[i].attempts >= MaxAttempts \/ notes[i].recipient # recipient
         ns == IF over THEN At(i, "failed")
               ELSE IF Full(recipient) THEN [At(i, "quota_wait") EXCEPT ![i].due = FALSE]
               ELSE [At(i, "sending") EXCEPT ![i].attempts = @ + 1]
         go == ~over /\ ~Full(recipient)
         q == IF go THEN [quota EXCEPT ![recipient] = @ + 1] ELSE quota
     IN \/ Written(ns, q) /\ worker' = IF go THEN "sending" ELSE "idle"
        \/ NotWritten(ns, q) /\ worker' = "stopped"
  /\ UNCHANGED <<outcome, copies, today, sent, made, allowed, bounds>>

Claimed == FirstOf(Positions({"sending"}))

\* What deliver() makes of the answer: a connection that failed and a 429 are
\* tried again, a rejection is final, and whatever else is unknown.  External
\* assumption: after any of the first three the platform has not taken the
\* message, and it answers "accepted" only when it has.
OutcomesOf(took) ==
  IF took THEN {"accepted", "unknown"} ELSE {"queued", "failed", "unknown"}

\* The platform takes the message that is on its way.
Taken ==
  /\ copies' = [copies EXCEPT ![notes[Claimed].id] = @ + 1]
  /\ sent' = IF today THEN [sent EXCEPT ![notes[Claimed].recipient] = @ + 1] ELSE sent

\* The platform takes the message or not, and answers or not.
Deliver ==
  /\ worker = "sending"
  /\ \E took \in BOOLEAN :
       /\ outcome' \in OutcomesOf(took)
       /\ IF took THEN Taken ELSE UNCHANGED <<copies, sent>>
  /\ worker' = "answered"
  /\ today' = TRUE
  /\ UNCHANGED <<store, made, allowed, faults, bounds>>

\* A temporary failure is final after a few attempts.
Finished(i) ==
  IF outcome = "queued" /\ notes[i].attempts >= AutoAttempts THEN "failed" ELSE outcome

\* finish_notification
Finish ==
  /\ worker = "answered"
  /\ LET ns == [At(Claimed, Finished(Claimed)) EXCEPT ![Claimed].due = FALSE]
     IN \/ Written(ns, quota) /\ worker' = "idle"
        \/ NotWritten(ns, quota) /\ worker' = "stopped"
        \/ failed /\ worker' = "stopped" /\ UNCHANGED <<store, faults>>
  /\ outcome' = "unknown"
  /\ UNCHANGED <<copies, today, sent, made, allowed, bounds>>

\* The worker finds the store refusing.
WorkerStops ==
  /\ worker = "idle" /\ failed /\ Claimable # {}
  /\ worker' = "stopped"
  /\ UNCHANGED <<store, outcome, copies, today, sent, made, allowed, faults, bounds>>

\* next_attempt_at comes.
Due(i) ==
  /\ i \in Positions({"queued"}) /\ ~notes[i].due
  /\ notes' = [notes EXCEPT ![i].due = TRUE]
  /\ saved' = IF failed THEN saved ELSE <<notes', quota>>
  /\ UNCHANGED <<quota, failed, delivery, made, allowed, faults, bounds>>

\* Midnight at the configured offset: another quota, and what waited for it is due.
NextDay ==
  /\ days < MaxDays \/ Positions({"quota_wait"}) # {}
  /\ days' = IF days < MaxDays THEN days + 1 ELSE days
  /\ quota' = Unused /\ sent' = Unused /\ today' = (worker # "sending")
  /\ notes' = [i \in DOMAIN notes |-> [notes[i] EXCEPT !.due = @ \/ notes[i].state = "quota_wait"]]
  /\ saved' = <<IF failed THEN saved[1] ELSE notes', Unused>>
  /\ UNCHANGED <<failed, worker, outcome, copies, recipient, made, allowed, faults, crashes, retries>>

-----------------------------------------------------------------------------
\* acknowledge_notification.  read_at may be set in any state, but is looked
\* at only when the notification is over: to have read it earlier is here to
\* read it as soon as it is over.
Read(i) ==
  /\ i \in Positions({"accepted", "failed"}) /\ ~notes[i].read
  /\ Change([notes EXCEPT ![i].read = TRUE], quota)
  /\ UNCHANGED <<delivery, made, allowed, bounds>>

\* retry_notification: of an unknown result only with allow_unknown.
Retry(i) ==
  /\ retries < MaxRetries /\ retries' = retries + 1
  /\ i \in Positions({"failed", "unknown"}) /\ notes[i].attempts < MaxAttempts
  /\ Change([At(i, "queued") EXCEPT ![i].due = TRUE], quota)
  /\ allowed' = IF notes[i].state = "unknown"
                  THEN [allowed EXCEPT ![notes[i].id] = @ + 1] ELSE allowed
  /\ UNCHANGED <<delivery, made, recipient, crashes, days>>

\* Mutant: what was being sent is sent again.
RecoveredQueued(ns) ==
  [i \in DOMAIN ns |-> IF ns[i].state = "sending" THEN [ns[i] EXCEPT !.state = "queued"]
                                                  ELSE ns[i]]

\* Store::open
Recovered(ns) ==
  [i \in DOMAIN ns |-> IF ns[i].state = "sending" THEN [ns[i] EXCEPT !.state = "unknown"]
                                                  ELSE ns[i]]

\* The process ends, the platform perhaps having taken a message that is on
\* its way, and starts again.
OutboxRestart ==
  /\ Reopen
  /\ notes' = Recovered(saved[1]) /\ quota' = saved[2] /\ saved' = <<notes', quota'>>
  /\ worker' = "idle" /\ recipient' \in Recipients
  /\ \/ UNCHANGED <<copies, sent>>
     \/ worker = "sending" /\ Taken
  /\ outcome' = "unknown" /\ today' = TRUE
  /\ UNCHANGED <<made, allowed, faults, days, retries>>

WorkerStep == Claim \/ Deliver \/ Finish \/ WorkerStops

OutboxNext ==
  \/ Enqueue \/ WorkerStep \/ NextDay \/ OutboxRestart
  \/ \E i \in 1..Capacity : Due(i) \/ Read(i) \/ Retry(i)

OutboxSpec == OutboxInit /\ [][OutboxNext]_outboxVars

\* The worker is a task of its own whose request times out, it sleeps no longer
\* than until the next attempt, and days pass.
OutboxFairness ==
  WF_outboxVars(WorkerStep) /\ WF_outboxVars(NextDay) /\ WF_outboxVars(\E i \in 1..Capacity : Due(i))
OutboxFairSpec == OutboxSpec /\ OutboxFairness

-----------------------------------------------------------------------------
(* Properties.                                                             *)

\* Every variable keeps its type.
OutboxTypeOK ==
  /\ notes \in Seq(Note) /\ Len(notes) <= Capacity /\ quota \in [Recipients -> 0..DailyLimit]
  /\ failed \in BOOLEAN /\ (~failed => saved = <<notes, quota>>)
  /\ made \in 0..MaxNotes /\ recipient \in Recipients /\ worker \in {"idle", "sending", "answered", "stopped"}
  /\ outcome \in Outcomes /\ copies \in [Ids -> Nat] /\ allowed \in [Ids -> Nat] /\ sent \in [Recipients -> Nat]
  /\ today \in BOOLEAN

\* The platform takes a notification once, and once more only for each retry
\* of an unknown result the user has allowed, through restarts and failed
\* writes; and what a notification says of itself is so.
NoSilentDuplicate ==
  /\ \A n \in Ids : copies[n] <= 1 + allowed[n]
  /\ \A i \in DOMAIN notes : allowed[notes[i].id] = 0 =>
       /\ notes[i].state = "accepted" => copies[notes[i].id] = 1
       /\ notes[i].state \in {"queued", "quota_wait", "failed"} => copies[notes[i].id] = 0

\* Of the attempts of one day for a recipient, no more than the limit reach the platform: the
\* quota survives a restart, and an unknown result has used it.
QuotaKept == \A r \in Recipients : sent[r] <= DailyLimit

Pending(n) == \E i \in DOMAIN notes :
                notes[i].id = n /\ notes[i].state \in {"queued", "quota_wait", "sending"}

\* Every notification comes to a result, unless the storage fails.
NotesSettle == \A n \in Ids : Pending(n) ~> (failed \/ ~Pending(n))
=============================================================================

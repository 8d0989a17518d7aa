----------------------------- MODULE Schedules -----------------------------
(***************************************************************************)
(* Scheduled tasks: the timer thread, the routing of its triggers, the     *)
(* accounting of their runs, the ledger and the definitions file, edits by *)
(* the agent's tools and by clients, and a crash with restart.             *)
(*                                                                         *)
(* `phase` is the system that runs next in a frame; the timer, the         *)
(* delivery of results, the clock and a crash are interleaved with it.     *)
(* Times are abstracted to what the decisions tell apart: a once schedule  *)
(* is ahead, due, or past its catch-up window.                             *)
(***************************************************************************)
EXTENDS Naturals, FiniteSets

CONSTANTS
  Ids,         \* schedule ids
  MaxRuns,     \* scheduled runs that may be under way together
  MaxVersion,  \* changes of a definition's schedule
  MaxEdits,    \* edits by agents and clients
  MaxTriggers, \* cron occurrences and manual runs
  MaxFaults,   \* failing appends, saves and context reads
  MaxCrashes,  \* crashes
  MaxStreak,   \* consecutive failures counted
  MaxQueued    \* triggers of one id and kind that wait to be routed

ASSUME SchedulesAssumption ==
  /\ IsFiniteSet(Ids)
  /\ {MaxVersion, MaxEdits, MaxTriggers, MaxFaults, MaxCrashes, MaxStreak, MaxQueued,
      MaxRuns} \subseteq Nat
  /\ MaxQueued # 0

CONSTANTS NoDef, NoItem
ASSUME NoItemAssumption == NoItem \notin Ids \cup 0..MaxVersion

Slots == 1..MaxRuns
Phases == {"route", "edit", "skips", "runs", "complete", "persist", "effects"}
Fires == {"timer", "catchup", "manual"}

\* What the systems read of a ScheduleDefinition: enabled, the kind of its
\* schedule, whether last_fired_at is set, consecutive_failures (alerting
\* follows from it), and which schedule it is.
Definitions ==
  [on : BOOLEAN, once : BOOLEAN, fired : BOOLEAN, fails : 0..MaxStreak, ver : 0..MaxVersion]
    \cup {NoDef}

\* A PendingScheduleRecord; an expired one carries the version it saw.
Skips == [id : Ids, expired : 0..MaxVersion \cup {NoItem}]

VARIABLES
  phase,    \* the system that runs next
  mem,      \* SchedulerState
  dirty,    \* mem changed since schedule_persist_system saw it, or a retry
  file,     \* schedules.json
  clock,    \* where the current schedule of a once definition stands
  list,     \* the timer's copy: per id the version it waits for, or NoItem
  stale,    \* the watch channel holds a state the timer has not read
  msgs,     \* triggers on their way to the routing system
  skips,    \* PendingScheduleRecords
  run,      \* per slot: "none", "running", "sending" or "over"
  of,       \* its schedule
  bad,      \* slots whose run or delivery has failed
  past,     \* ids with a recorded run whose task is still there
  edits, triggers, faults, crashes,   \* events so far
  unborn,   \* ids not used yet
  logged,   \* per slot: lines of its run in the ledger
  history   \* what the properties remember of each id

queue == <<msgs, skips>>
runVars == <<run, of, bad, past, logged>>
counters == <<edits, triggers, faults, crashes, unborn>>
timer == <<list, stale>>
vars == <<phase, mem, dirty, file, clock, timer, queue, runVars, counters, history>>

\* Remembered of an id: automatic runs since its schedule was set; whether a
\* trigger was routed since; failures in a row; a line in the ledger.
Histories == [auto : 0..2, served : BOOLEAN, streak : 0..MaxStreak, inLedger : BOOLEAN]

Known(id) == mem[id] # NoDef
Free == {s \in Slots : run[s] = "none" /\ \A t \in 1..(s - 1) : run[t] # "none"}

\* Mutant: only runs whose task has not ended.
ActiveTask(id) == \E s \in Slots : run[s] = "running" /\ of[s] = id

\* Runs that a new one would overlap: not ended, or ended but not recorded.
Active(id) == \E s \in Slots : run[s] # "none" /\ of[s] = id

Init ==
  /\ phase = "route"
  /\ mem = [i \in Ids |-> NoDef] /\ dirty = TRUE
  /\ file = [i \in Ids |-> NoDef]
  /\ clock = [i \in Ids |-> "ahead"]
  /\ list = [i \in Ids |-> NoItem] /\ stale = FALSE
  /\ msgs = [m \in Ids \X Fires |-> 0] /\ skips = {}
  /\ run = [s \in Slots |-> "none"] /\ of = [s \in Slots |-> NoItem] /\ bad = {}
  /\ past = {} /\ logged = [s \in Slots |-> 0]
  /\ edits = 0 /\ triggers = 0 /\ faults = 0 /\ crashes = 0
  /\ unborn = Ids
  /\ history = [i \in Ids |-> [auto |-> 0, served |-> FALSE, streak |-> 0,
                               inLedger |-> FALSE]]

-----------------------------------------------------------------------------
(* Helpers.                                                                *)

\* Mutant: the timer is not told.
ApplyUntold(defs) == mem' = defs /\ dirty' = TRUE /\ UNCHANGED stale

\* update_scheduler_state: the new definitions, and a notice to the timer.
Apply(defs) == mem' = defs /\ dirty' = TRUE /\ stale' = TRUE

\* Bounded by MaxStreak.
Bump(n) == IF n < MaxStreak THEN n + 1 ELSE n

\* Mutant: what has fired already may fire again after the next reload.
SchedulableAgain(d) == d # NoDef /\ d.on

\* build_all_schedules: enabled definitions, once definitions until they fire.
Schedulable(d) == d # NoDef /\ d.on /\ ~(d.once /\ d.fired)

\* What is remembered of i, with its automatic runs and whether it was served.
Noted(i, auto, served) ==
  [history EXCEPT ![i] = [auto |-> auto, served |-> served,
                          streak |-> @.streak, inLedger |-> @.inLedger]]

Built(defs) == [i \in Ids |-> IF Schedulable(defs[i]) THEN defs[i].ver ELSE NoItem]

-----------------------------------------------------------------------------
(* The timer thread and the clock.                                         *)

\* Time passes for a once schedule.
TimePasses(i) ==
  /\ Known(i) /\ mem[i].once
  /\ \/ clock[i] = "ahead" /\ clock' = [clock EXCEPT ![i] = "due"]
     \/ clock[i] = "due" /\ clock' = [clock EXCEPT ![i] = "expired"]
  /\ UNCHANGED <<phase, mem, dirty, file, timer, queue, runVars, counters, history>>

\* The timer's copy may be of an earlier schedule, whose time came by itself.
ItemDue(i) == list[i] # NoItem /\ (Known(i) /\ list[i] = mem[i].ver => clock[i] # "ahead")

\* A once item fires and leaves the copy.
TimerOnce(i) ==
  /\ ItemDue(i) /\ (Known(i) => mem[i].once) /\ msgs[<<i, "timer">>] < MaxQueued
  /\ msgs' = [msgs EXCEPT ![<<i, "timer">>] = @ + 1]
  /\ list' = [list EXCEPT ![i] = NoItem]
  /\ UNCHANGED <<phase, mem, dirty, file, clock, stale, skips, runVars, counters,
                 history>>

\* A cron item fires and waits for its next occurrence.
TimerCron(i) ==
  /\ list[i] # NoItem /\ Known(i) /\ ~mem[i].once
  /\ triggers < MaxTriggers /\ msgs[<<i, "timer">>] < MaxQueued
  /\ msgs' = [msgs EXCEPT ![<<i, "timer">>] = @ + 1]
  /\ triggers' = triggers + 1
  /\ UNCHANGED <<phase, mem, dirty, file, clock, timer, skips, runVars, edits,
                 faults, crashes, unborn, history>>

\* reload_state: the copy is rebuilt from the latest state.
Reload ==
  /\ stale
  /\ list' = Built(mem) /\ stale' = FALSE
  /\ UNCHANGED <<phase, mem, dirty, file, clock, queue, runVars, counters, history>>

-----------------------------------------------------------------------------
(* Signal: routing of triggers.                                            *)

Took(i, f) ==
  /\ phase = "route" /\ msgs[<<i, f>>] > 0
  /\ msgs' = [msgs EXCEPT ![<<i, f>>] = @ - 1]

\* Unknown, or paused and not started by hand.
RouteDropped(i, f) ==
  /\ Took(i, f)
  /\ Known(i) => ~mem[i].on /\ f # "manual"
  /\ UNCHANGED <<phase, mem, dirty, file, clock, timer, skips, runVars, counters,
                 history>>

Wanted(i, f) == Known(i) /\ (mem[i].on \/ f = "manual")

RouteOverlap(i, f) ==
  /\ Took(i, f) /\ Wanted(i, f) /\ Active(i)
  /\ skips' = skips \cup {[id |-> i, expired |-> NoItem]}
  /\ UNCHANGED <<phase, mem, dirty, file, clock, timer, runVars, counters, history>>

TooLate(i, f) == f = "timer" /\ mem[i].once /\ clock[i] = "expired"

\* Beyond the catch-up window: nothing runs, the definition goes when the
\* ledger has it.  last_fired_at keeps the timer quiet until then.
RouteExpired(i, f) ==
  /\ Took(i, f) /\ Wanted(i, f) /\ ~Active(i) /\ TooLate(i, f)
  /\ skips' = skips \cup {[id |-> i, expired |-> mem[i].ver]}
  /\ Apply([mem EXCEPT ![i].fired = TRUE])
  /\ history' = Noted(i, history[i].auto, TRUE)
  /\ UNCHANGED <<phase, file, clock, list, runVars, counters>>

\* A run; if the ledger cannot be read its task fails at once.
RouteRuns(i, f) ==
  /\ Took(i, f) /\ Wanted(i, f) /\ ~Active(i) /\ ~TooLate(i, f)
  /\ \E s \in Free :
       /\ of' = [of EXCEPT ![s] = i]
       /\ logged' = [logged EXCEPT ![s] = 0]
       /\ \/ /\ run' = [run EXCEPT ![s] = "running"] /\ bad' = bad \ {s}
             /\ UNCHANGED faults
          \/ /\ faults < MaxFaults /\ faults' = faults + 1
             /\ run' = [run EXCEPT ![s] = "over"] /\ bad' = bad \cup {s}
  /\ Apply([mem EXCEPT ![i].fired = TRUE])
  /\ LET auto == history[i].auto
     IN  history' = Noted(i, IF f = "manual" \/ auto = 2 THEN auto ELSE auto + 1, TRUE)
  /\ UNCHANGED <<phase, file, clock, list, skips, past, edits, triggers, crashes,
                 unborn>>

Routed ==
  /\ phase = "route" /\ \A m \in Ids \X Fires : msgs[m] = 0
  /\ phase' = "edit"
  /\ UNCHANGED <<mem, dirty, file, clock, timer, queue, runVars, counters, history>>

-----------------------------------------------------------------------------
(* Transform: runs end, clients edit.  Maintenance: tool effects edit.     *)

\* A run ends, with or without messages whose receipt it must wait for.
RunEnds(s, ok) ==
  /\ phase = "edit" /\ run[s] = "running"
  /\ \E st \in {"sending", "over"} : run' = [run EXCEPT ![s] = st]
  /\ bad' = IF ok THEN bad ELSE bad \cup {s}
  /\ UNCHANGED <<phase, mem, dirty, file, clock, timer, queue, of, past, logged,
                 counters, history>>

\* The last receipt comes back from the platform.
Delivered(s, ok) ==
  /\ run[s] = "sending"
  /\ run' = [run EXCEPT ![s] = "over"]
  /\ bad' = IF ok THEN bad ELSE bad \cup {s}
  /\ UNCHANGED <<phase, mem, dirty, file, clock, timer, queue, of, past, logged,
                 counters, history>>

New(once, on) == [on |-> on, once |-> once, fired |-> FALSE, fails |-> 0, ver |-> 0]

\* A definition with its schedule set: the health, last_fired_at included,
\* stays as it is.
Reset(d, once, on) ==
  [on |-> on, once |-> once, fired |-> d.fired, fails |-> d.fails, ver |-> d.ver + 1]

\* The definitions an edit of i may leave.
Edited(i) ==
  IF ~Known(i) THEN {New(once, on) : once \in BOOLEAN, on \in {o \in BOOLEAN : i \in unborn}}
  ELSE {NoDef, [mem[i] EXCEPT !.on = ~@]}
         \cup {Reset(mem[i], once, on) :
                 once \in BOOLEAN, on \in {o \in BOOLEAN : mem[i].ver < MaxVersion}}

Rescheduled(i, d) == d # NoDef /\ (~Known(i) \/ d.ver # mem[i].ver)

EditNoted(i, d) ==
  /\ edits < MaxEdits /\ edits' = edits + 1
  /\ unborn' = unborn \ {i}
  /\ clock' = IF Rescheduled(i, d) THEN [clock EXCEPT ![i] = "ahead"] ELSE clock

Remember(i, d) == IF Rescheduled(i, d) THEN Noted(i, 0, FALSE) ELSE history

\* client_schedule_request_system: saved first, then applied.
ClientEdit(i, d) ==
  /\ phase = "edit" /\ EditNoted(i, d)
  /\ LET defs == [mem EXCEPT ![i] = d]
     IN  Apply(defs) /\ file' = defs /\ history' = Remember(i, d)
  /\ UNCHANGED <<phase, list, queue, runVars, triggers, faults, crashes>>

\* apply_effect of schedule_task (which creates enabled ones),
\* update_scheduled_task and delete_scheduled_task: applied, and saved by the
\* next frame.
ToolEdit(i, d) ==
  /\ phase = "effects" /\ EditNoted(i, d)
  /\ ~Known(i) => d.on
  /\ Apply([mem EXCEPT ![i] = d]) /\ history' = Remember(i, d)
  /\ UNCHANGED <<phase, file, list, queue, runVars, triggers, faults, crashes>>

\* update_scheduled_task with run_now.
RunNow(i) ==
  /\ phase = "effects" /\ Known(i)
  /\ triggers < MaxTriggers /\ triggers' = triggers + 1
  /\ msgs[<<i, "manual">>] < MaxQueued /\ msgs' = [msgs EXCEPT ![<<i, "manual">>] = @ + 1]
  /\ Apply(mem)
  /\ UNCHANGED <<phase, file, clock, list, skips, runVars, edits, faults, crashes,
                 unborn, history>>

-----------------------------------------------------------------------------
(* Output: accounting, removal of finished once definitions, saving.       *)

\* Mutant: whatever the definition has become.
ExpiredAnyway(k) == k.expired # NoItem /\ Known(k.id)

\* An old expired event must not delete a newer schedule.
StillExpired(k) == k.expired # NoItem /\ Known(k.id) /\ mem[k.id].ver = k.expired

\* The skipped records: append, then (for an expired definition) save without
\* it, then apply.  One that fails stays for a later frame.
AccountSkips ==
  /\ phase = "skips" /\ phase' = "runs"
  /\ \E ok \in SUBSET skips, appended \in SUBSET skips :
       /\ ok \subseteq appended
       /\ \A k \in appended \ ok : StillExpired(k)
       /\ faults + Cardinality(skips \ ok) <= MaxFaults
       /\ faults' = faults + Cardinality(skips \ ok)
       /\ skips' = skips \ ok
       /\ LET gone == {k.id : k \in {k \in ok : StillExpired(k)}}
              defs == [i \in Ids |-> IF i \in gone THEN NoDef ELSE mem[i]]
              ids == {k.id : k \in appended}
              h == [i \in Ids |-> [history[i] EXCEPT !.inLedger = @ \/ i \in ids]]
          IN  /\ history' = h
              /\ IF gone = {} THEN UNCHANGED <<mem, dirty, file, stale>>
                 ELSE Apply(defs) /\ file' = defs
  /\ UNCHANGED <<clock, list, msgs, runVars, edits, triggers, crashes, unborn>>

\* append_run keeps one line per task, however often it is retried.
Appended(s) == IF logged[s] = 0 THEN 1 ELSE logged[s]

\* Mutant: a success leaves the failures counted.
HealthyLater(d, ss) ==
  IF d = NoDef \/ ss \cap bad = {} THEN d ELSE [d EXCEPT !.fails = Bump(@)]

\* The health of a definition after runs ss of it were recorded.
Healthy(d, ss) ==
  IF d = NoDef \/ ss = {} THEN d
  ELSE [d EXCEPT !.fails = IF ss \cap bad # {} THEN Bump(@) ELSE 0]

\* Ended runs without receipts outstanding: append, then save the health in a
\* copy, then apply it and mark the run recorded.
AccountRuns ==
  /\ phase = "runs" /\ phase' = "complete"
  /\ LET over == {s \in Slots : run[s] = "over"}
     IN  \E ok \in SUBSET over, appended \in SUBSET over :
           /\ ok \subseteq appended
           /\ \A s \in appended \ ok : Known(of[s])
           /\ faults + Cardinality(over \ ok) <= MaxFaults
           /\ faults' = faults + Cardinality(over \ ok)
           /\ run' = [s \in Slots |-> IF s \in ok THEN "none" ELSE run[s]]
           /\ of' = [s \in Slots |-> IF s \in ok THEN NoItem ELSE of[s]]
           /\ bad' = bad \ ok
           /\ past' = past \cup {of[s] : s \in ok}
           /\ logged' = [s \in Slots |-> IF s \in appended THEN Appended(s) ELSE logged[s]]
           /\ LET ended(i) == {s \in ok : of[s] = i}
                  defs == [i \in Ids |-> Healthy(mem[i], ended(i))]
                  h == [i \in Ids |->
                         [auto |-> history[i].auto, served |-> history[i].served,
                          streak |-> IF ended(i) = {} THEN history[i].streak
                                     ELSE IF ended(i) \cap bad # {} THEN Bump(history[i].streak) ELSE 0,
                          inLedger |-> history[i].inLedger \/ \E s \in appended : of[s] = i]]
              IN  /\ history' = h
                  /\ IF \E s \in ok : Known(of[s]) THEN Apply(defs) /\ file' = defs
                     ELSE UNCHANGED <<mem, dirty, file, stale>>
  /\ UNCHANGED <<clock, list, queue, edits, triggers, crashes, unborn>>

\* A recorded run of the schedule is among the tasks.
Finished(i) == i \in past

\* once_schedule_completion_system.
Complete ==
  /\ phase = "complete" /\ phase' = "persist"
  /\ LET gone == {i \in Ids : Finished(i) /\ Known(i) /\ mem[i].once}
     IN  IF gone = {} THEN UNCHANGED <<mem, dirty, stale>>
         ELSE Apply([i \in Ids |-> IF i \in gone THEN NoDef ELSE mem[i]])
  /\ UNCHANGED <<file, clock, list, queue, runVars, counters, history>>

\* terminal_task_retention_system: recorded runs go in the end.
Reclaimed(i) ==
  /\ phase = "effects" /\ i \in past /\ past' = past \ {i}
  /\ UNCHANGED <<phase, mem, dirty, file, clock, timer, queue, run, of, bad, logged,
                 counters, history>>

\* schedule_persist_system.
Persist ==
  /\ phase = "persist" /\ phase' = "effects"
  /\ \/ ~dirty /\ UNCHANGED <<file, dirty, faults>>
     \/ dirty /\ dirty' = FALSE /\ file' = mem /\ UNCHANGED faults
     \/ dirty /\ faults < MaxFaults /\ faults' = faults + 1 /\ UNCHANGED <<file, dirty>>
  /\ UNCHANGED <<mem, clock, timer, queue, runVars, edits, triggers, crashes, unborn,
                 history>>

\* The systems that had nothing (more) to do.
NextPhase ==
  /\ \/ phase = "edit" /\ phase' = "skips"
     \/ phase = "effects" /\ phase' = "route"
  /\ UNCHANGED <<mem, dirty, file, clock, timer, queue, runVars, counters, history>>

-----------------------------------------------------------------------------
(* Crash and restart.                                                      *)

\* A once definition that had fired is paused: its run was interrupted.
Resumed(d) ==
  IF d # NoDef /\ d.on /\ d.once /\ d.fired THEN [d EXCEPT !.on = FALSE] ELSE d

\* The process dies at any point and starts again from the file; cron
\* definitions may have missed occurrences, within the catch-up window
\* (caught up once) or beyond it (recorded as missed).
Crash ==
  /\ crashes < MaxCrashes /\ crashes' = crashes + 1
  /\ phase' = "route"
  /\ mem' = [i \in Ids |-> Resumed(file[i])] /\ dirty' = TRUE
  /\ list' = Built(mem') /\ stale' = FALSE
  /\ \E late \in SUBSET {i \in Ids : file[i] # NoDef /\ file[i].on /\ ~file[i].once} :
       \E lost \in SUBSET late :
         /\ msgs' = [m \in Ids \X Fires |->
                       IF m[1] \in late \ lost /\ m[2] = "catchup" THEN 1 ELSE 0]
         /\ skips' = {[id |-> i, expired |-> NoItem] : i \in lost}
  /\ run' = [s \in Slots |-> "none"] /\ of' = [s \in Slots |-> NoItem] /\ bad' = {} /\ past' = {}
  /\ logged' = [s \in Slots |-> 0]
  /\ history' = [i \in Ids |->
       [auto |-> IF file[i] # NoDef /\ file[i].fired /\ Known(i) /\ file[i].ver = mem[i].ver
                   THEN history[i].auto ELSE 0,
        served |-> history[i].served,
        streak |-> IF file[i] = NoDef THEN 0 ELSE file[i].fails,
        inLedger |-> history[i].inLedger]]
  /\ UNCHANGED <<file, clock, edits, triggers, faults, unborn>>

-----------------------------------------------------------------------------
Engine ==
  \/ \E i \in Ids, f \in Fires :
       RouteDropped(i, f) \/ RouteOverlap(i, f) \/ RouteExpired(i, f) \/ RouteRuns(i, f)
  \/ Routed \/ AccountSkips \/ AccountRuns \/ Complete \/ Persist \/ NextPhase

\* The timer thread's once items and the receipts of the channels.
Threads ==
  Reload \/ (\E i \in Ids : TimerOnce(i)) \/ (\E s \in Slots, ok \in BOOLEAN : Delivered(s, ok))

Next ==
  \/ Engine \/ Threads
  \/ \E i \in Ids : TimePasses(i) \/ TimerCron(i) \/ RunNow(i) \/ Reclaimed(i)
  \/ \E i \in Ids : \E d \in Edited(i) : ClientEdit(i, d) \/ ToolEdit(i, d)
  \/ \E s \in Slots, ok \in BOOLEAN : RunEnds(s, ok)
  \/ Crash

Spec == Init /\ [][Next]_vars

\* The main loop runs a frame while there is work; the timer thread reads what
\* it is sent and fires what is due, and every receipt comes back (their work
\* is finite, so that one of them at a time is enough).  A run need not end.
Fairness == WF_vars(Engine) /\ WF_vars(Threads)

FairSpec == Spec /\ Fairness

-----------------------------------------------------------------------------
(* Properties.                                                             *)

\* Every variable keeps its type.
TypeOK ==
  /\ phase \in Phases
  /\ mem \in [Ids -> Definitions] /\ file \in [Ids -> Definitions] /\ dirty \in BOOLEAN
  /\ clock \in [Ids -> {"ahead", "due", "expired"}]
  /\ list \in [Ids -> 0..MaxVersion \cup {NoItem}] /\ stale \in BOOLEAN
  /\ msgs \in [Ids \X Fires -> 0..MaxQueued] /\ skips \subseteq Skips
  /\ run \in [Slots -> {"none", "running", "sending", "over"}] /\ of \in [Slots -> Ids \cup {NoItem}]
  /\ bad \subseteq Slots /\ past \subseteq Ids /\ unborn \subseteq Ids
  /\ logged \in [Slots -> 0..1]
  /\ edits \in 0..MaxEdits /\ triggers \in 0..MaxTriggers
  /\ faults \in 0..MaxFaults /\ crashes \in 0..MaxCrashes
  /\ history \in [Ids -> Histories]

\* Two runs of one schedule never overlap, whichever way they were started
\* (timer, catch-up, run_now): the next one starts after the accounting of the
\* one before, so that its context counts that run.
NoOverlap ==
  \A s, t \in Slots : s # t /\ run[s] # "none" /\ run[t] # "none" => of[s] # of[t]

\* A once schedule starts one run by itself, although the timer may send its
\* trigger again after every reload, and although a restart finds a definition
\* whose run was interrupted; only a crash before the firing was saved lets it
\* run again.
OnceRunsOnce == \A i \in Ids : Known(i) /\ mem[i].once => history[i].auto <= 1

\* The system removes a definition only for cause: the ledger has a line of it
\* by then, although writes fail and are retried, and an expired trigger does
\* not remove a definition that was rescheduled while its record was retried.
RemovedForCause ==
  [][\A i \in Ids :
       phase \in {"skips", "complete"} /\ phase' # "route" /\ Known(i) /\ mem'[i] = NoDef =>
         /\ history'[i].inLedger
         /\ phase = "skips" => history[i].served]_vars

\* A run is counted once in the definition's health, however often the ledger
\* or the definitions file had to be written again, and no edit undoes it.
CountedOnce == \A i \in Ids : Known(i) => mem[i].fails = history[i].streak

Waiting(i) ==
  Known(i) /\ mem[i].on /\ mem[i].once /\ ~mem[i].fired /\ clock[i] # "ahead"

\* A due once schedule is run, recorded as missed, paused or removed; an ended
\* run is recorded; and the file catches up with the definitions in memory.
EverythingSettles ==
  /\ \A i \in Ids : Waiting(i) ~> ~Waiting(i)
  /\ \A s \in Slots : run[s] = "over" ~> run[s] # "over"
  /\ file # mem ~> file = mem

\* What the comment on expired records asks for, said of every removal: what
\* happened to an earlier schedule never deletes a definition that was
\* rescheduled since.
RescheduledSurvives ==
  [][\A i \in Ids :
       phase = "complete" /\ phase' # "route" /\ Known(i) /\ mem'[i] = NoDef =>
         history[i].served]_vars
=============================================================================

-------------------------- MODULE Schedules_proofs --------------------------
(***************************************************************************)
(* Runs of a schedule do not overlap, a once schedule starts one run by    *)
(* itself, and a run is counted once in the health of its definition: for  *)
(* any number of schedules, runs, edits, failed writes and restarts.       *)
(***************************************************************************)
EXTENDS Schedules, FiniteSetTheorems, TLAPS

-----------------------------------------------------------------------------
(* The inductive invariant.                                                *)

\* What is left of the last run once it is recorded: nothing can start the
\* schedule by itself again.
Spent(i) == list[i] = NoItem /\ msgs[<<i, "timer">>] = 0 /\ msgs[<<i, "catchup">>] = 0

\* A once schedule that has run is still running, or about to be removed, or
\* (after a restart) has nothing that would start it.
Started ==
  \A i \in Ids : Known(i) /\ mem[i].once /\ history[i].auto # 0 =>
    /\ mem[i].fired /\ history[i].auto = 1
    /\ Active(i) \/ (phase = "complete" /\ i \in past) \/ Spent(i)

\* An id that was not used yet has left no trace.
Untouched ==
  \A i \in unborn : mem[i] = NoDef /\ file[i] = NoDef /\ history[i].streak = 0 /\ ~Active(i)

\* The file has the definition in memory or an earlier one.
Saved ==
  \A i \in Ids : Known(i) /\ file[i] # NoDef =>
    /\ file[i].ver <= mem[i].ver
    /\ file[i].ver = mem[i].ver => file[i].once = mem[i].once

\* Every run is of a schedule.
Owned == \A s \in Slots : run[s] # "none" => of[s] \in Ids

IInv == TypeOK /\ NoOverlap /\ Started /\ Untouched /\ CountedOnce /\ Saved /\ Owned

-----------------------------------------------------------------------------
LEMMA ConstantsAre ==
  ASSUME SchedulesAssumption
  PROVE  /\ MaxVersion \in Nat /\ MaxEdits \in Nat /\ MaxTriggers \in Nat /\ MaxFaults \in Nat
         /\ MaxCrashes \in Nat /\ MaxStreak \in Nat /\ MaxQueued \in Nat /\ MaxRuns \in Nat
         /\ MaxQueued # 0
  BY DEF SchedulesAssumption

LEMMA InitIInv ==
  ASSUME SchedulesAssumption, NoItemAssumption, Init
  PROVE  IInv
<1>1. TypeOK
  <2>1. phase \in Phases /\ dirty \in BOOLEAN /\ stale \in BOOLEAN
    BY DEF Init, Phases
  <2>2. mem \in [Ids -> Definitions] /\ file \in [Ids -> Definitions]
    BY DEF Init, Definitions
  <2>3. msgs \in [Ids \X Fires -> 0..MaxQueued] /\ logged \in [Slots -> 0..1]
    BY ConstantsAre, SMT DEF Init
  <2>4. /\ edits \in 0..MaxEdits /\ triggers \in 0..MaxTriggers
        /\ faults \in 0..MaxFaults /\ crashes \in 0..MaxCrashes
    BY ConstantsAre, SMT DEF Init
  <2>5. history \in [Ids -> Histories]
    BY ConstantsAre, SMT DEF Init, Histories
  <2> QED
    BY <2>1, <2>2, <2>3, <2>4, <2>5 DEF Init, TypeOK
<1>2. NoOverlap /\ CountedOnce /\ Untouched /\ Started /\ Saved /\ Owned
  BY DEF Init, NoOverlap, CountedOnce, Untouched, Started, Saved, Owned, Known, Active
<1> QED
  BY <1>1, <1>2 DEF IInv

-----------------------------------------------------------------------------
(* Steps of the timer and of the clock.                                    *)

\* A step that leaves definitions, runs and what is remembered as they are.
LEMMA KeptStep ==
  ASSUME SchedulesAssumption, IInv, TypeOK', UNCHANGED <<mem, run, of, unborn, history>>,
         file' \in {file, mem}, phase = "complete" => UNCHANGED <<phase, past>>,
         \A i \in Ids : Known(i) /\ mem[i].once /\ mem[i].fired /\ Spent(i) => Spent(i)'
  PROVE  IInv'
<1>1. NoOverlap' /\ CountedOnce'
  BY DEF IInv, NoOverlap, CountedOnce, Known
<1>2. Untouched'
  BY DEF IInv, Untouched, Active
<1>3. Started'
  BY DEF IInv, Started, Known, Active
<1>4. Saved' /\ Owned'
  <2>1. \A i \in Ids : Known(i) => mem[i].ver \in 0..MaxVersion
    BY DEF IInv, TypeOK, Definitions, Known
  <2>2. \A i \in Ids : Known(i) => mem[i].ver <= mem[i].ver
    BY <2>1, ConstantsAre, SMT
  <2> QED
    BY <2>2 DEF IInv, Saved, Owned, Known
<1> QED
  BY <1>1, <1>2, <1>3, <1>4 DEF IInv

LEMMA ClockSteps ==
  ASSUME SchedulesAssumption, IInv, NEW i \in Ids, TimePasses(i)
  PROVE  IInv'
<1>1. TypeOK'
  BY DEF TimePasses, IInv, TypeOK, timer, queue, runVars, counters
<1> QED
  BY <1>1, KeptStep DEF TimePasses, timer, queue, runVars, counters, Spent

LEMMA ReclaimedStep ==
  ASSUME SchedulesAssumption, IInv, NEW i \in Ids, Reclaimed(i)
  PROVE  IInv'
<1>1. /\ UNCHANGED <<phase, mem, dirty, file, clock, timer, queue, run, of, bad, logged, counters, history>>
      /\ phase = "effects" /\ past' \subseteq past
  BY DEF Reclaimed
<1>2. TypeOK'
  BY <1>1 DEF IInv, TypeOK, timer, queue, counters
<1> QED
  BY <1>1, <1>2, KeptStep DEF timer, queue, counters, Spent

LEMMA QueueOne ==
  ASSUME SchedulesAssumption, IInv, NEW i \in Ids, NEW f \in Fires,
         msgs[<<i, f>>] < MaxQueued /\ msgs' = [msgs EXCEPT ![<<i, f>>] = @ + 1]
  PROVE  /\ msgs' \in [Ids \X Fires -> 0..MaxQueued]
         /\ \A j \in Ids, g \in Fires : j # i \/ g # f => msgs'[<<j, g>>] = msgs[<<j, g>>]
<1>1. msgs \in [Ids \X Fires -> 0..MaxQueued] /\ <<i, f>> \in Ids \X Fires /\ MaxQueued \in Nat
  BY ConstantsAre DEF IInv, TypeOK
<1>2. msgs[<<i, f>>] + 1 \in 0..MaxQueued
  BY <1>1, SMT
<1> QED
  BY <1>1, <1>2

LEMMA TimerOnceStep ==
  ASSUME SchedulesAssumption, NoItemAssumption, IInv, NEW i \in Ids, TimerOnce(i)
  PROVE  IInv'
<1>1. "timer" \in Fires /\ "catchup" \in Fires
  BY DEF Fires
<1>2. /\ UNCHANGED <<phase, mem, dirty, file, clock, stale, skips, runVars, counters, history>>
      /\ msgs[<<i, "timer">>] < MaxQueued /\ msgs' = [msgs EXCEPT ![<<i, "timer">>] = @ + 1]
      /\ list[i] # NoItem /\ list' = [list EXCEPT ![i] = NoItem]
  BY DEF TimerOnce, ItemDue
<1>3. /\ msgs' \in [Ids \X Fires -> 0..MaxQueued]
      /\ \A j \in Ids, g \in Fires : j # i \/ g # "timer" => msgs'[<<j, g>>] = msgs[<<j, g>>]
  BY <1>1, <1>2, QueueOne
<1>4. list' \in [Ids -> 0..MaxVersion \cup {NoItem}] /\ \A j \in Ids : j # i => list'[j] = list[j]
  BY <1>2 DEF IInv, TypeOK
<1>5. TypeOK'
  BY <1>2, <1>3, <1>4 DEF IInv, TypeOK, runVars, counters
<1>6. \A j \in Ids : Spent(j) => Spent(j)'
  BY <1>1, <1>2, <1>3, <1>4 DEF Spent
<1> QED
  BY <1>2, <1>5, <1>6, KeptStep DEF runVars, counters

LEMMA TimerCronStep ==
  ASSUME SchedulesAssumption, NoItemAssumption, IInv, NEW i \in Ids, TimerCron(i)
  PROVE  IInv'
<1>1. "timer" \in Fires /\ "catchup" \in Fires
  BY DEF Fires
<1>2. /\ UNCHANGED <<phase, mem, dirty, file, clock, timer, skips, runVars, edits,
                 faults, crashes, unborn, history>>
      /\ msgs[<<i, "timer">>] < MaxQueued /\ msgs' = [msgs EXCEPT ![<<i, "timer">>] = @ + 1]
      /\ list[i] # NoItem /\ triggers < MaxTriggers /\ triggers' = triggers + 1
  BY DEF TimerCron
<1>3. /\ msgs' \in [Ids \X Fires -> 0..MaxQueued]
      /\ \A j \in Ids, g \in Fires : j # i \/ g # "timer" => msgs'[<<j, g>>] = msgs[<<j, g>>]
  BY <1>1, <1>2, QueueOne
<1>4. triggers' \in 0..MaxTriggers
  BY <1>2, ConstantsAre, SMT DEF IInv, TypeOK
<1>5. TypeOK'
  BY <1>2, <1>3, <1>4 DEF IInv, TypeOK, timer, runVars
<1>6. \A j \in Ids : Spent(j) => Spent(j)'
  BY <1>1, <1>2, <1>3 DEF Spent, timer
<1> QED
  BY <1>2, <1>5, <1>6, KeptStep DEF runVars

LEMMA ReloadStep ==
  ASSUME SchedulesAssumption, NoItemAssumption, IInv, Reload
  PROVE  IInv'
<1>1. /\ UNCHANGED <<phase, mem, dirty, file, clock, queue, runVars, counters, history>>
      /\ list' = Built(mem) /\ stale' = FALSE
  BY DEF Reload
<1>2. list' \in [Ids -> 0..MaxVersion \cup {NoItem}]
  BY <1>1 DEF IInv, TypeOK, Built, Schedulable, Definitions
<1>3. TypeOK'
  BY <1>1, <1>2 DEF IInv, TypeOK, queue, runVars, counters
<1>4. \A j \in Ids : mem[j].once /\ mem[j].fired /\ Spent(j) => Spent(j)'
  BY <1>1 DEF Spent, Built, Schedulable, queue
<1> QED
  BY <1>1, <1>3, <1>4, KeptStep DEF runVars, counters

LEMMA RunNowStep ==
  ASSUME SchedulesAssumption, NoItemAssumption, IInv, NEW i \in Ids, RunNow(i)
  PROVE  IInv'
<1>1. {"timer", "catchup", "manual"} \subseteq Fires
  BY DEF Fires
<1>2. /\ UNCHANGED <<phase, mem, file, clock, list, skips, runVars, edits, faults, crashes, unborn, history>>
      /\ dirty' = TRUE /\ stale' = TRUE /\ triggers < MaxTriggers /\ triggers' = triggers + 1
      /\ msgs[<<i, "manual">>] < MaxQueued /\ msgs' = [msgs EXCEPT ![<<i, "manual">>] = @ + 1]
  BY DEF RunNow, Apply
<1>3. /\ msgs' \in [Ids \X Fires -> 0..MaxQueued]
      /\ \A j \in Ids, g \in Fires : j # i \/ g # "manual" => msgs'[<<j, g>>] = msgs[<<j, g>>]
  BY <1>1, <1>2, QueueOne
<1>4. triggers' \in 0..MaxTriggers
  BY <1>2, ConstantsAre, SMT DEF IInv, TypeOK
<1>5. TypeOK'
  BY <1>2, <1>3, <1>4 DEF IInv, TypeOK, runVars
<1>6. \A j \in Ids : Spent(j) => Spent(j)'
  BY <1>1, <1>2, <1>3 DEF Spent
<1> QED
  BY <1>2, <1>5, <1>6, KeptStep DEF runVars

-----------------------------------------------------------------------------
(* Routing.                                                                *)

LEMMA TookIs ==
  ASSUME SchedulesAssumption, IInv, NEW i \in Ids, NEW f \in Fires, Took(i, f)
  PROVE  /\ phase = "route" /\ msgs' \in [Ids \X Fires -> 0..MaxQueued] /\ msgs[<<i, f>>] # 0
         /\ \A j \in Ids, g \in Fires : msgs[<<j, g>>] = 0 => msgs'[<<j, g>>] = 0
<1>1. /\ msgs \in [Ids \X Fires -> 0..MaxQueued] /\ <<i, f>> \in Ids \X Fires /\ MaxQueued \in Nat
      /\ phase = "route" /\ msgs[<<i, f>>] > 0 /\ msgs' = [msgs EXCEPT ![<<i, f>>] = @ - 1]
  BY ConstantsAre DEF IInv, TypeOK, Took
<1>2. msgs[<<i, f>>] - 1 \in 0..MaxQueued /\ msgs[<<i, f>>] # 0
  BY <1>1, SMT
<1> QED
  BY <1>1, <1>2

LEMMA SpentKept ==
  ASSUME UNCHANGED list, \A j \in Ids, g \in Fires : msgs[<<j, g>>] = 0 => msgs'[<<j, g>>] = 0
  PROVE  \A j \in Ids : Spent(j) => Spent(j)'
  BY DEF Spent, Fires

LEMMA DroppedStep ==
  ASSUME SchedulesAssumption, IInv, NEW i \in Ids, NEW f \in Fires, RouteDropped(i, f)
  PROVE  IInv'
<1>1. /\ phase = "route" /\ msgs' \in [Ids \X Fires -> 0..MaxQueued]
      /\ \A j \in Ids, g \in Fires : msgs[<<j, g>>] = 0 => msgs'[<<j, g>>] = 0
  BY TookIs DEF RouteDropped
<1>2. UNCHANGED <<phase, mem, dirty, file, clock, timer, skips, runVars, counters, history>>
  BY DEF RouteDropped
<1>3. TypeOK'
  BY <1>1, <1>2 DEF IInv, TypeOK, timer, runVars, counters
<1>4. \A j \in Ids : Spent(j) => Spent(j)'
  BY <1>1, <1>2, SpentKept DEF timer
<1> QED
  BY <1>2, <1>3, <1>4, KeptStep DEF runVars, counters

LEMMA OverlapStep ==
  ASSUME SchedulesAssumption, IInv, NEW i \in Ids, NEW f \in Fires, RouteOverlap(i, f)
  PROVE  IInv'
<1>1. /\ phase = "route" /\ msgs' \in [Ids \X Fires -> 0..MaxQueued]
      /\ \A j \in Ids, g \in Fires : msgs[<<j, g>>] = 0 => msgs'[<<j, g>>] = 0
  BY TookIs DEF RouteOverlap
<1>2. /\ UNCHANGED <<phase, mem, dirty, file, clock, timer, runVars, counters, history>>
      /\ skips' = skips \cup {[id |-> i, expired |-> NoItem]}
  BY DEF RouteOverlap
<1>3. TypeOK'
  BY <1>1, <1>2 DEF IInv, TypeOK, timer, runVars, counters, Skips
<1>4. \A j \in Ids : Spent(j) => Spent(j)'
  BY <1>1, <1>2, SpentKept DEF timer
<1> QED
  BY <1>2, <1>3, <1>4, KeptStep DEF runVars, counters

\* What is noted of a trigger.
LEMMA NotedIs ==
  ASSUME TypeOK, NEW i \in Ids, NEW auto \in 0..2, NEW served \in BOOLEAN, history' = Noted(i, auto, served)
  PROVE  /\ history' \in [Ids -> Histories]
         /\ history'[i].auto = auto /\ history'[i].streak = history[i].streak
         /\ \A j \in Ids : j # i => history'[j] = history[j]
<1>1. history[i] \in Histories /\ history \in [Ids -> Histories]
  BY DEF TypeOK
<1>2. history' = [history EXCEPT ![i] = [auto |-> auto, served |-> served,
                    streak |-> history[i].streak, inLedger |-> history[i].inLedger]]
  BY DEF Noted
<1>3. [auto |-> auto, served |-> served,
       streak |-> history[i].streak, inLedger |-> history[i].inLedger] \in Histories
  BY <1>1 DEF Histories
<1> QED
  BY <1>1, <1>2, <1>3

\* A definition that has fired.
LEMMA FiredIs ==
  ASSUME TypeOK, NEW i \in Ids, Known(i), mem' = [mem EXCEPT ![i].fired = TRUE]
  PROVE  /\ mem' \in [Ids -> Definitions]
         /\ mem'[i].fired /\ mem'[i].fails = mem[i].fails
         /\ mem'[i].once = mem[i].once /\ mem'[i].ver = mem[i].ver
         /\ \A j \in Ids : j # i => mem'[j] = mem[j]
<1>1. mem[i] \in [on : BOOLEAN, once : BOOLEAN, fired : BOOLEAN, fails : 0..MaxStreak, ver : 0..MaxVersion]
  BY DEF TypeOK, Definitions, Known
<1>2. mem' = [mem EXCEPT ![i] = [mem[i] EXCEPT !.fired = TRUE]]
  OBVIOUS
<1>3. PICK d : d = [mem[i] EXCEPT !.fired = TRUE]
  OBVIOUS
<1>4. d \in Definitions /\ d.fired /\ d.fails = mem[i].fails /\ d.once = mem[i].once /\ d.ver = mem[i].ver
  BY <1>1, <1>3 DEF Definitions
<1> QED
  BY <1>2, <1>3, <1>4 DEF TypeOK

LEMMA ExpiredStep ==
  ASSUME SchedulesAssumption, IInv, NEW i \in Ids, NEW f \in Fires, RouteExpired(i, f)
  PROVE  IInv'
<1>1. /\ phase = "route" /\ msgs' \in [Ids \X Fires -> 0..MaxQueued] /\ msgs[<<i, f>>] # 0
      /\ \A j \in Ids, g \in Fires : msgs[<<j, g>>] = 0 => msgs'[<<j, g>>] = 0
  BY TookIs DEF RouteExpired
<1>2. /\ UNCHANGED <<phase, file, clock, list, runVars, counters>>
      /\ skips' = skips \cup {[id |-> i, expired |-> mem[i].ver]}
      /\ dirty' = TRUE /\ stale' = TRUE
      /\ Known(i) /\ ~Active(i) /\ f = "timer"
  BY DEF RouteExpired, Apply, Wanted, TooLate
<1>3. /\ mem' = [mem EXCEPT ![i].fired = TRUE]
      /\ history' = Noted(i, history[i].auto, TRUE)
  BY DEF RouteExpired, Apply
<1>4. TypeOK /\ history[i].auto \in 0..2 /\ mem[i].ver \in 0..MaxVersion
  BY <1>2 DEF IInv, TypeOK, Histories, Definitions, Known
<1>5. /\ history' \in [Ids -> Histories]
      /\ history'[i].auto = history[i].auto /\ history'[i].streak = history[i].streak
      /\ \A j \in Ids : j # i => history'[j] = history[j]
  BY <1>3, <1>4, NotedIs
<1>6. /\ mem' \in [Ids -> Definitions]
      /\ mem'[i].fired /\ mem'[i].fails = mem[i].fails
         /\ mem'[i].once = mem[i].once /\ mem'[i].ver = mem[i].ver
      /\ \A j \in Ids : j # i => mem'[j] = mem[j]
  BY <1>3, <1>2, <1>4, FiredIs
<1>7. \A j \in Ids : Spent(j) => Spent(j)'
  BY <1>1, <1>2, SpentKept
<1>8. TypeOK'
  BY <1>1, <1>2, <1>4, <1>5, <1>6 DEF TypeOK, runVars, counters, Skips
<1>9. NoOverlap' /\ CountedOnce'
  BY <1>2, <1>5, <1>6 DEF IInv, NoOverlap, CountedOnce, Known, runVars
<1>10. Untouched'
  <2>1. i \notin unborn
    BY <1>2 DEF IInv, Untouched, Known
  <2>2. unborn \subseteq Ids
    BY <1>4 DEF TypeOK
  <2> QED
    BY <1>2, <1>5, <1>6, <2>1, <2>2 DEF IInv, Untouched, Active, runVars, counters
<1>11. Started'
  <2>1. mem[i].once => history[i].auto = 0
    BY <1>1, <1>2 DEF IInv, Started, Spent
  <2> QED
    BY <1>2, <1>5, <1>6, <1>7, <2>1 DEF IInv, Started, Known, Active, runVars
<1>12. Saved' /\ Owned'
  BY <1>2, <1>6 DEF IInv, Saved, Owned, Known, runVars
<1> QED
  BY <1>8, <1>9, <1>10, <1>11, <1>12 DEF IInv

LEMMA RunsStep ==
  ASSUME SchedulesAssumption, NoItemAssumption, IInv, NEW i \in Ids, NEW f \in Fires, RouteRuns(i, f)
  PROVE  IInv'
<1> DEFINE auto == history[i].auto
           more == IF f = "manual" \/ auto = 2 THEN auto ELSE auto + 1
<1>1. /\ phase = "route" /\ msgs' \in [Ids \X Fires -> 0..MaxQueued] /\ msgs[<<i, f>>] # 0
      /\ \A j \in Ids, g \in Fires : msgs[<<j, g>>] = 0 => msgs'[<<j, g>>] = 0
  BY TookIs DEF RouteRuns
<1>2. /\ UNCHANGED <<phase, file, clock, list, skips, past, edits, triggers, crashes, unborn>>
      /\ dirty' = TRUE /\ stale' = TRUE
      /\ Known(i) /\ ~Active(i)
  BY DEF RouteRuns, Apply, Wanted
<1>3. /\ mem' = [mem EXCEPT ![i].fired = TRUE]
      /\ history' = Noted(i, more, TRUE)
  BY DEF RouteRuns, Apply
<1>4. PICK s \in Slots, st \in {"running", "over"} :
        /\ run[s] = "none" /\ of' = [of EXCEPT ![s] = i] /\ logged' = [logged EXCEPT ![s] = 0]
        /\ run' = [run EXCEPT ![s] = st] /\ bad' \subseteq bad \cup {s}
        /\ faults' = faults \/ (faults < MaxFaults /\ faults' = faults + 1)
  BY DEF RouteRuns, Free
<1>5. TypeOK /\ auto \in 0..2
  BY DEF IInv, TypeOK, Histories
<1>6. more \in 0..2 /\ (f # "manual" /\ auto = 0 => more = 1) /\ (f = "manual" => more = auto)
  BY <1>5, SMT
<1> HIDE DEF more
<1>7. /\ history' \in [Ids -> Histories]
      /\ history'[i].auto = more /\ history'[i].streak = history[i].streak
      /\ \A j \in Ids : j # i => history'[j] = history[j]
  BY <1>3, <1>5, <1>6, NotedIs
<1>8. /\ mem' \in [Ids -> Definitions]
      /\ mem'[i].fired /\ mem'[i].fails = mem[i].fails
         /\ mem'[i].once = mem[i].once /\ mem'[i].ver = mem[i].ver
      /\ \A j \in Ids : j # i => mem'[j] = mem[j]
  BY <1>3, <1>2, <1>5, FiredIs
<1>9. /\ run' \in [Slots -> {"none", "running", "sending", "over"}]
      /\ of' \in [Slots -> Ids \cup {NoItem}] /\ logged' \in [Slots -> 0..1]
      /\ run'[s] # "none" /\ of'[s] = i
      /\ \A t \in Slots : t # s => run'[t] = run[t] /\ of'[t] = of[t]
  BY <1>4, <1>5, SMT DEF TypeOK
<1>10. faults' \in 0..MaxFaults
  BY <1>4, <1>5, ConstantsAre, SMT DEF TypeOK
<1>11. TypeOK'
  BY <1>1, <1>2, <1>4, <1>5, <1>7, <1>8, <1>9, <1>10 DEF TypeOK
<1>12. NoOverlap' /\ CountedOnce'
  BY <1>2, <1>7, <1>8, <1>9 DEF IInv, NoOverlap, CountedOnce, Known, Active
<1>13. Untouched'
  <2>1. i \notin unborn
    BY <1>2 DEF IInv, Untouched, Known
  <2>2. unborn \subseteq Ids
    BY <1>5 DEF TypeOK
  <2> QED
    BY <1>2, <1>7, <1>8, <1>9, <2>1, <2>2 DEF IInv, Untouched, Active
<1>14. Started'
  <2>1. f \in {"timer", "catchup"} /\ mem[i].once => auto = 0
    BY <1>1, <1>2 DEF IInv, Started, Spent
  <2>2. mem[i].once => more \in {0, 1}
    <3>1. mem[i].once /\ auto # 0 => auto = 1
      BY <1>2 DEF IInv, Started
    <3> QED
      BY <1>6, <2>1, <3>1 DEF Fires
  <2>3. Active(i)'
    BY <1>9 DEF Active
  <2>4. \A j \in Ids : j # i /\ Active(j) => Active(j)'
    BY <1>4, <1>9 DEF Active
  <2>5. \A j \in Ids : Spent(j) => Spent(j)'
    BY <1>1, <1>2, SpentKept
  <2> QED
    BY <1>1, <1>2, <1>7, <1>8, <2>2, <2>3, <2>4, <2>5 DEF IInv, Started, Known
<1>15. Saved' /\ Owned'
  BY <1>2, <1>8, <1>9 DEF IInv, Saved, Owned, Known
<1> QED
  BY <1>11, <1>12, <1>13, <1>14, <1>15 DEF IInv

LEMMA RoutedStep ==
  ASSUME SchedulesAssumption, IInv, Routed \/ NextPhase
  PROVE  IInv'
<1>1. /\ UNCHANGED <<mem, dirty, file, clock, timer, queue, runVars, counters, history>>
      /\ phase' \in Phases /\ phase # "complete"
  BY DEF Routed, NextPhase, Phases
<1>2. TypeOK'
  BY <1>1 DEF IInv, TypeOK, timer, queue, runVars, counters
<1> QED
  BY <1>1, <1>2, KeptStep DEF timer, queue, runVars, counters, Spent

LEMMA PersistStep ==
  ASSUME SchedulesAssumption, IInv, Persist
  PROVE  IInv'
<1>1. /\ UNCHANGED <<mem, clock, timer, queue, runVars, edits, triggers, crashes, unborn, history>>
      /\ phase' \in Phases /\ phase # "complete" /\ file' \in {file, mem} /\ dirty' \in BOOLEAN
      /\ faults' = faults \/ (faults < MaxFaults /\ faults' = faults + 1)
  BY DEF Persist, Phases, IInv, TypeOK
<1>2. faults' \in 0..MaxFaults
  BY <1>1, ConstantsAre, SMT DEF IInv, TypeOK
<1>3. TypeOK'
  BY <1>1, <1>2 DEF IInv, TypeOK, timer, queue, runVars
<1> QED
  BY <1>1, <1>3, KeptStep DEF timer, queue, runVars, Spent

-----------------------------------------------------------------------------
(* The end of a run, and edits.                                            *)

LEMMA EndStep ==
  ASSUME SchedulesAssumption, IInv, NEW s \in Slots, NEW ok \in BOOLEAN, RunEnds(s, ok) \/ Delivered(s, ok)
  PROVE  IInv'
<1>1. /\ UNCHANGED <<phase, mem, dirty, file, clock, timer, queue, of, past, logged, counters, history>>
      /\ run[s] # "none" /\ bad' \subseteq bad \cup {s}
  BY DEF RunEnds, Delivered
<1>2. PICK st \in {"sending", "over"} : run' = [run EXCEPT ![s] = st]
  BY DEF RunEnds, Delivered
<1>3. /\ run' \in [Slots -> {"none", "running", "sending", "over"}]
      /\ \A t \in Slots : run'[t] # "none" <=> run[t] # "none"
  BY <1>1, <1>2 DEF IInv, TypeOK
<1>4. TypeOK'
  BY <1>1, <1>3 DEF IInv, TypeOK, timer, queue, counters
<1>5. NoOverlap' /\ CountedOnce' /\ Saved' /\ Owned'
  BY <1>1, <1>3 DEF IInv, NoOverlap, CountedOnce, Saved, Owned, Known
<1>6. \A i : Active(i)' <=> Active(i)
  BY <1>1, <1>3 DEF Active
<1>7. Untouched' /\ Started'
  BY <1>1, <1>6 DEF IInv, Untouched, Started, Known, Spent, timer, queue, counters
<1> QED
  BY <1>4, <1>5, <1>7 DEF IInv

\* What an edit leaves of a definition.
LEMMA EditedIs ==
  ASSUME SchedulesAssumption, IInv, NEW i \in Ids, NEW d \in Edited(i)
  PROVE  /\ d \in Definitions
         /\ d # NoDef => d.fails = history[i].streak
         /\ d # NoDef => IF Rescheduled(i, d) THEN Known(i) => d.ver > mem[i].ver
                         ELSE Known(i) /\ d.once = mem[i].once /\ d.fired = mem[i].fired /\ d.ver = mem[i].ver
         /\ ~Known(i) => i \in unborn
<1>1. CASE ~Known(i)
  <2>1. i \in unborn /\ history[i].streak = 0 /\ \E once, on \in BOOLEAN : d = New(once, on)
    BY <1>1 DEF Edited, IInv, Untouched
  <2>2. PICK once \in BOOLEAN, on \in BOOLEAN : d = New(once, on)
    BY <2>1
  <2>3. 0 \in 0..MaxStreak /\ 0 \in 0..MaxVersion
    BY ConstantsAre, SMT
  <2>4. d.fails = 0 /\ d \in Definitions
    BY <2>2, <2>3 DEF New, Definitions
  <2>5. d # NoDef => Rescheduled(i, d)
    BY <1>1 DEF Rescheduled
  <2> QED
    BY <1>1, <2>1, <2>4, <2>5, Zenon
<1>2. CASE Known(i)
  <2>1. mem[i] \in [on : BOOLEAN, once : BOOLEAN, fired : BOOLEAN, fails : 0..MaxStreak, ver : 0..MaxVersion]
    BY <1>2 DEF IInv, TypeOK, Definitions, Known
  <2>2. mem[i].fails = history[i].streak
    BY <1>2 DEF IInv, CountedOnce
  <2>3. CASE d = NoDef
    BY <1>2, <2>3 DEF Definitions
  <2>4. CASE d = [mem[i] EXCEPT !.on = ~@]
    <3>1. d \in Definitions /\ d.fails = mem[i].fails /\ d.ver = mem[i].ver
      BY <2>1, <2>4 DEF Definitions
    <3>2. d.once = mem[i].once /\ d.fired = mem[i].fired
      BY <2>1, <2>4
    <3> QED
      BY <1>2, <2>2, <3>1, <3>2 DEF Rescheduled
  <2>5. CASE d # NoDef /\ d # [mem[i] EXCEPT !.on = ~@]
    <3>1. PICK once \in BOOLEAN, on \in BOOLEAN :
            /\ mem[i].ver < MaxVersion
            /\ d = [on |-> on, once |-> once, fired |-> mem[i].fired, fails |-> mem[i].fails,
                    ver |-> mem[i].ver + 1]
      <4>1. PICK once \in BOOLEAN, on \in BOOLEAN : mem[i].ver < MaxVersion /\ d = Reset(mem[i], once, on)
        BY <1>2, <2>5 DEF Edited
      <4> QED
        BY <4>1 DEF Reset
    <3>2. mem[i].ver + 1 \in 0..MaxVersion /\ mem[i].ver + 1 > mem[i].ver /\ mem[i].ver + 1 # mem[i].ver
      BY <2>1, <3>1, ConstantsAre, SMT
    <3>3. mem[i].fired \in BOOLEAN /\ mem[i].fails \in 0..MaxStreak
      BY <2>1
    <3>4. d \in Definitions /\ d.fails = mem[i].fails /\ d.ver = mem[i].ver + 1
      BY <3>1, <3>2, <3>3 DEF Definitions
    <3> QED
      BY <1>2, <2>2, <2>5, <3>2, <3>4 DEF Rescheduled
  <2> QED
    BY <2>3, <2>4, <2>5
<1> QED
  BY <1>1, <1>2

LEMMA EditStep ==
  ASSUME SchedulesAssumption, NoItemAssumption, IInv, NEW i \in Ids, NEW d \in Edited(i),
         ClientEdit(i, d) \/ ToolEdit(i, d)
  PROVE  IInv'
<1>1. /\ UNCHANGED <<phase, list, queue, runVars, triggers, faults, crashes>>
      /\ dirty' = TRUE /\ stale' = TRUE /\ edits < MaxEdits /\ edits' = edits + 1
      /\ unborn' = unborn \ {i} /\ phase # "complete"
      /\ history' = IF Rescheduled(i, d) THEN Noted(i, 0, FALSE) ELSE history
      /\ clock' \in {clock, [clock EXCEPT ![i] = "ahead"]}
      /\ mem' = [mem EXCEPT ![i] = d] /\ file' \in {file, mem'}
  BY DEF ClientEdit, ToolEdit, Apply, EditNoted, Remember
<1>2. /\ d \in Definitions
      /\ d # NoDef => d.fails = history[i].streak
      /\ d # NoDef => IF Rescheduled(i, d) THEN Known(i) => d.ver > mem[i].ver
                      ELSE Known(i) /\ d.once = mem[i].once /\ d.fired = mem[i].fired /\ d.ver = mem[i].ver
      /\ ~Known(i) => i \in unborn
  BY EditedIs
<1>3. TypeOK
  BY DEF IInv
<1>4. mem' \in [Ids -> Definitions] /\ mem'[i] = d /\ \A j \in Ids : j # i => mem'[j] = mem[j]
  BY <1>1, <1>2, <1>3 DEF TypeOK
<1>5. /\ history' \in [Ids -> Histories] /\ history'[i].streak = history[i].streak
      /\ history'[i].auto = IF Rescheduled(i, d) THEN 0 ELSE history[i].auto
      /\ \A j \in Ids : j # i => history'[j] = history[j]
  <2>1. 0 \in 0..2 /\ FALSE \in BOOLEAN
    BY SMT
  <2>2. CASE Rescheduled(i, d)
    BY <1>1, <1>3, <2>1, <2>2, NotedIs
  <2>3. CASE ~Rescheduled(i, d)
    BY <1>1, <1>3, <2>3 DEF TypeOK
  <2> QED
    BY <2>2, <2>3
<1>6. TypeOK'
  <2>1. edits' \in 0..MaxEdits
    BY <1>1, <1>3, ConstantsAre, SMT DEF TypeOK
  <2>2. clock' \in [Ids -> {"ahead", "due", "expired"}]
    BY <1>1, <1>3 DEF TypeOK
  <2> QED
    BY <1>1, <1>3, <1>4, <1>5, <2>1, <2>2 DEF TypeOK, queue, runVars
<1>7. NoOverlap' /\ CountedOnce' /\ Owned'
  <2>1. NoOverlap' /\ Owned'
    BY <1>1 DEF IInv, NoOverlap, Owned, runVars
  <2>2. \A j \in Ids : mem'[j] # NoDef => mem'[j].fails = history'[j].streak
    <3>1. SUFFICES ASSUME NEW j \in Ids, mem'[j] # NoDef
                   PROVE  mem'[j].fails = history'[j].streak
      OBVIOUS
    <3>2. CASE j = i
      BY <1>2, <1>4, <1>5, <3>1, <3>2
    <3>3. CASE j # i
      BY <1>4, <1>5, <3>1, <3>3 DEF IInv, CountedOnce, Known
    <3> QED
      BY <3>2, <3>3
  <2> QED
    BY <2>1, <2>2 DEF CountedOnce, Known
<1>8. Untouched'
  BY <1>1, <1>3, <1>4, <1>5 DEF IInv, TypeOK, Untouched, Active, runVars
<1>9. Saved'
  <2>1. \A j \in Ids : mem'[j] # NoDef => mem'[j].ver \in Nat /\ mem'[j].ver <= mem'[j].ver
    BY <1>4, ConstantsAre, SMT DEF Definitions
  <2>2. CASE file' = mem'
    BY <2>1, <2>2 DEF Saved
  <2>3. CASE file' = file
    <3>1. SUFFICES ASSUME NEW j \in Ids, mem'[j] # NoDef, file[j] # NoDef
                   PROVE  /\ file[j].ver <= mem'[j].ver
                          /\ file[j].ver = mem'[j].ver => file[j].once = mem'[j].once
      BY <2>3 DEF Saved, Known
    <3>2. CASE j # i
      BY <1>4, <3>1, <3>2 DEF IInv, Saved, Known
    <3>3. CASE j = i
      <4>1. Known(i)
        BY <1>2, <3>1, <3>3 DEF IInv, Untouched
      <4>2. /\ file[i].ver <= mem[i].ver
            /\ file[i].ver = mem[i].ver => file[i].once = mem[i].once
        BY <3>1, <3>3, <4>1 DEF IInv, Saved
      <4>3. CASE Rescheduled(i, d)
        <5>1. file[i].ver \in 0..MaxVersion /\ mem[i].ver \in 0..MaxVersion /\ d.ver \in 0..MaxVersion
          BY <1>2, <1>3, <1>4, <3>1, <3>3, <4>1 DEF TypeOK, Definitions, Known
        <5>2. d.ver > mem[i].ver
          BY <1>2, <1>4, <3>1, <3>3, <4>1, <4>3
        <5>3. file[i].ver <= d.ver /\ file[i].ver # d.ver
          BY <4>2, <5>1, <5>2, ConstantsAre, SMT
        <5> QED
          BY <1>4, <3>3, <5>3
      <4>4. CASE ~Rescheduled(i, d)
        BY <1>2, <1>4, <3>1, <3>3, <4>2, <4>4
      <4> QED
        BY <4>3, <4>4
    <3> QED
      BY <3>2, <3>3
  <2> QED
    BY <1>1, <2>2, <2>3
<1>10. Started'
  <2>1. SUFFICES ASSUME NEW j \in Ids, Known(j)', mem'[j].once, history'[j].auto # 0
                 PROVE  /\ mem'[j].fired /\ history'[j].auto = 1
                        /\ Active(j)' \/ Spent(j)'
    BY <1>1 DEF Started
  <2>2. Known(j) /\ mem[j].once = mem'[j].once /\ mem[j].fired = mem'[j].fired /\ history'[j].auto = history[j].auto
    BY <1>2, <1>4, <1>5, <2>1 DEF Known
  <2> QED
    BY <1>1, <2>1, <2>2 DEF IInv, Started, Active, Spent, queue, runVars
<1> QED
  BY <1>6, <1>7, <1>8, <1>9, <1>10 DEF IInv

-----------------------------------------------------------------------------
(* Accounting, removal and restart.                                        *)

LEMMA SlotsFinite ==
  ASSUME SchedulesAssumption, NEW S \in SUBSET Slots
  PROVE  Cardinality(S) \in Nat
<1>1. 1 \in Int /\ MaxRuns \in Int
  BY ConstantsAre, SMT
<1>2. IsFiniteSet(Slots)
  BY <1>1, FS_Interval DEF Slots
<1>3. IsFiniteSet(S)
  BY <1>2, FS_Subset
<1> QED
  BY <1>3, FS_CardinalityType

LEMMA SkipsFinite ==
  ASSUME SchedulesAssumption, NEW S \in SUBSET Skips
  PROVE  Cardinality(S) \in Nat
<1> DEFINE V == 0..MaxVersion \cup {NoItem}
           f == [p \in Ids \X V |-> [id |-> p[1], expired |-> p[2]]]
<1>1. IsFiniteSet(0..MaxVersion) /\ IsFiniteSet({NoItem})
  <2>1. 0 \in Int /\ MaxVersion \in Int
    BY ConstantsAre, SMT
  <2>2. IsFiniteSet(0..MaxVersion)
    BY <2>1, FS_Interval
  <2> QED
    BY <2>2, FS_Singleton
<1>2. IsFiniteSet(V)
  BY <1>1, FS_Union
<1>3. IsFiniteSet(Ids \X V)
  BY <1>2, FS_Product DEF SchedulesAssumption
<1>4. f \in Surjection(Ids \X V, Skips)
  <2>1. f \in [Ids \X V -> Skips]
    BY DEF Skips
  <2>2. ASSUME NEW k \in Skips
        PROVE  \E p \in Ids \X V : f[p] = k
    <3>1. k.id \in Ids /\ k.expired \in V /\ k = [id |-> k.id, expired |-> k.expired]
      BY DEF Skips
    <3>2. <<k.id, k.expired>> \in Ids \X V /\ f[<<k.id, k.expired>>] = k
      BY <3>1
    <3> QED
      BY <3>2
  <2> QED
    BY <2>1, <2>2 DEF Surjection
<1>5. IsFiniteSet(Skips)
  BY <1>3, <1>4, FS_Surjection
<1>6. IsFiniteSet(S)
  BY <1>5, FS_Subset
<1> QED
  BY <1>6, FS_CardinalityType

\* A step that only removes definitions, or none.
LEMMA RemovingStep ==
  ASSUME SchedulesAssumption, IInv, TypeOK', UNCHANGED <<run, of, unborn>>,
         \A j \in Ids : mem'[j] = mem[j] \/ mem'[j] = NoDef,
         file' \in {file, mem'},
         \A j \in Ids : history'[j].auto = history[j].auto /\ history'[j].streak = history[j].streak,
         \A j \in Ids : mem'[j] = mem[j] /\ Known(j) /\ mem[j].once => j \notin past \/ phase # "complete",
         UNCHANGED <<list, msgs>>
  PROVE  IInv'
<1>1. NoOverlap' /\ CountedOnce' /\ Owned'
  BY DEF IInv, NoOverlap, CountedOnce, Owned, Known
<1>2. Untouched'
  BY DEF IInv, TypeOK, Untouched, Active
<1>3. Saved'
  <2>1. \A j \in Ids : mem'[j] # NoDef => mem'[j].ver \in Nat /\ mem'[j].ver <= mem'[j].ver
    BY ConstantsAre, SMT DEF TypeOK, Definitions
  <2> QED
    BY <2>1 DEF IInv, Saved, Known
<1>4. Started'
  BY DEF IInv, Started, Known, Active, Spent
<1> QED
  BY <1>1, <1>2, <1>3, <1>4 DEF IInv

LEMMA CompleteStep ==
  ASSUME SchedulesAssumption, IInv, Complete
  PROVE  IInv'
<1> DEFINE gone == {i \in Ids : Finished(i) /\ Known(i) /\ mem[i].once}
<1>1. /\ phase = "complete" /\ phase' = "persist"
      /\ UNCHANGED <<file, clock, list, queue, runVars, counters, history>>
      /\ IF gone = {} THEN UNCHANGED <<mem, dirty, stale>>
         ELSE Apply([i \in Ids |-> IF i \in gone THEN NoDef ELSE mem[i]])
  BY DEF Complete
<1>2. /\ mem' \in [Ids -> Definitions] /\ dirty' \in BOOLEAN /\ stale' \in BOOLEAN
      /\ \A j \in Ids : IF j \in gone THEN mem'[j] = NoDef ELSE mem'[j] = mem[j]
  <2>1. CASE gone = {}
    BY <1>1, <2>1 DEF IInv, TypeOK
  <2>2. CASE gone # {}
    BY <1>1, <2>2 DEF IInv, TypeOK, Apply, Definitions
  <2> QED
    BY <2>1, <2>2
<1>3. TypeOK'
  BY <1>1, <1>2 DEF IInv, TypeOK, queue, runVars, counters, Phases
<1>4. \A j \in Ids : mem'[j] = mem[j] /\ Known(j) /\ mem[j].once => j \notin past
  BY <1>2 DEF Finished, Known
<1> QED
  BY <1>1, <1>2, <1>3, <1>4, RemovingStep DEF queue, runVars, counters

LEMMA SkipsStep ==
  ASSUME SchedulesAssumption, IInv, AccountSkips
  PROVE  IInv'
<1>1. /\ phase = "skips" /\ phase' = "runs"
      /\ UNCHANGED <<clock, list, msgs, runVars, edits, triggers, crashes, unborn>>
  BY DEF AccountSkips
<1>2. PICK ok \in SUBSET skips, appended \in SUBSET skips :
        /\ faults + Cardinality(skips \ ok) <= MaxFaults
        /\ faults' = faults + Cardinality(skips \ ok)
        /\ skips' = skips \ ok
        /\ LET gone == {k.id : k \in {k \in ok : StillExpired(k)}}
               defs == [i \in Ids |-> IF i \in gone THEN NoDef ELSE mem[i]]
               ids == {k.id : k \in appended}
               h == [i \in Ids |-> [history[i] EXCEPT !.inLedger = @ \/ i \in ids]]
           IN  /\ history' = h
               /\ IF gone = {} THEN UNCHANGED <<mem, dirty, file, stale>>
                  ELSE Apply(defs) /\ file' = defs
  BY DEF AccountSkips
<1> DEFINE gone == {k.id : k \in {k \in ok : StillExpired(k)}}
           defs == [i \in Ids |-> IF i \in gone THEN NoDef ELSE mem[i]]
           ids == {k.id : k \in appended}
<1>3. TypeOK
  BY DEF IInv
<1>4. faults' \in 0..MaxFaults
  <2>1. Cardinality(skips \ ok) \in Nat
    BY <1>3, SkipsFinite DEF TypeOK
  <2> QED
    BY <1>2, <1>3, <2>1, ConstantsAre, SMT DEF TypeOK
<1>5. /\ mem' \in [Ids -> Definitions] /\ file' \in {file, mem'} /\ file' \in [Ids -> Definitions]
      /\ dirty' \in BOOLEAN /\ stale' \in BOOLEAN
      /\ \A j \in Ids : mem'[j] = mem[j] \/ mem'[j] = NoDef
  <2>1. defs \in [Ids -> Definitions] /\ \A j \in Ids : defs[j] \in {mem[j], NoDef}
    BY <1>3 DEF TypeOK, Definitions
  <2>2. \/ UNCHANGED <<mem, dirty, file, stale>>
        \/ Apply(defs) /\ file' = defs
    BY <1>2
  <2> HIDE DEF defs
  <2> QED
    BY <1>3, <2>1, <2>2 DEF TypeOK, Apply
<1>6. /\ history' \in [Ids -> Histories]
      /\ \A j \in Ids : history'[j].auto = history[j].auto /\ history'[j].streak = history[j].streak
  <2>1. history' = [i \in Ids |-> [history[i] EXCEPT !.inLedger = @ \/ i \in ids]]
    BY <1>2
  <2> HIDE DEF ids
  <2>2. ASSUME NEW j \in Ids
        PROVE  /\ history'[j] \in Histories
               /\ history'[j].auto = history[j].auto /\ history'[j].streak = history[j].streak
    <3>1. PICK b \in BOOLEAN : b = (history[j].inLedger \/ j \in ids)
      OBVIOUS
    <3>2. history'[j] = [history[j] EXCEPT !.inLedger = b]
      BY <2>1, <3>1
    <3> QED
      BY <1>3, <3>2 DEF TypeOK, Histories
  <2> QED
    BY <2>1, <2>2
<1>7. skips' \subseteq Skips
  BY <1>2, <1>3 DEF TypeOK
<1>8. TypeOK'
  BY <1>1, <1>3, <1>4, <1>5, <1>6, <1>7 DEF TypeOK, runVars, Phases
<1> HIDE DEF gone, defs, ids
<1> QED
  BY <1>1, <1>5, <1>6, <1>8, RemovingStep DEF runVars

LEMMA BumpIs ==
  ASSUME SchedulesAssumption, NEW n \in 0..MaxStreak
  PROVE  Bump(n) \in 0..MaxStreak /\ 0 \in 0..MaxStreak
<1>1. n \in 0..MaxStreak /\ MaxStreak \in Nat
  BY ConstantsAre
<1> QED
  BY <1>1, SMT DEF Bump

\* Health after runs S were recorded.
LEMMA HealthyIs ==
  ASSUME SchedulesAssumption, NEW d \in Definitions, d # NoDef, NEW S, NEW h,
         h = Healthy(d, S)
  PROVE  /\ h \in Definitions
         /\ h.once = d.once /\ h.fired = d.fired /\ h.ver = d.ver
         /\ h.fails = IF S = {} THEN d.fails ELSE IF S \cap bad # {} THEN Bump(d.fails) ELSE 0
<1>1. d \in [on : BOOLEAN, once : BOOLEAN, fired : BOOLEAN, fails : 0..MaxStreak, ver : 0..MaxVersion]
  BY DEF Definitions
<1>2. Bump(d.fails) \in 0..MaxStreak /\ 0 \in 0..MaxStreak
  BY <1>1, BumpIs
<1>3. CASE S = {}
  BY <1>3 DEF Healthy
<1>4. CASE S # {}
  <2>1. PICK n : n = (IF S \cap bad # {} THEN Bump(d.fails) ELSE 0)
    OBVIOUS
  <2>2. n \in 0..MaxStreak
    BY <1>2, <2>1
  <2>3. h = [d EXCEPT !.fails = n]
    BY <1>4, <2>1 DEF Healthy
  <2>4. h \in Definitions /\ h.once = d.once /\ h.fired = d.fired /\ h.ver = d.ver /\ h.fails = n
    BY <1>1, <2>2, <2>3 DEF Definitions
  <2> QED
    BY <1>4, <2>1, <2>4
<1> QED
  BY <1>3, <1>4

LEMMA RecordedStep ==
  ASSUME SchedulesAssumption, NoItemAssumption, IInv, AccountRuns
  PROVE  IInv'
<1> DEFINE over == {s \in Slots : run[s] = "over"}
<1>1. /\ phase = "runs" /\ phase' = "complete"
      /\ UNCHANGED <<clock, list, queue, edits, triggers, crashes, unborn>>
  BY DEF AccountRuns
<1>2. PICK ok \in SUBSET over, appended \in SUBSET over :
        /\ ok \subseteq appended
        /\ \A s \in appended \ ok : Known(of[s])
        /\ faults + Cardinality(over \ ok) <= MaxFaults
        /\ faults' = faults + Cardinality(over \ ok)
        /\ run' = [s \in Slots |-> IF s \in ok THEN "none" ELSE run[s]]
        /\ of' = [s \in Slots |-> IF s \in ok THEN NoItem ELSE of[s]]
        /\ bad' = bad \ ok
        /\ past' = past \cup {of[s] : s \in ok}
        /\ logged' = [s \in Slots |-> IF s \in appended THEN Appended(s) ELSE logged[s]]
        /\ LET ended(i) == {s \in ok : of[s] = i}
               defs == [i \in Ids |-> Healthy(mem[i], ended(i))]
               h == [i \in Ids |->
                      [auto |-> history[i].auto, served |-> history[i].served,
                       streak |-> IF ended(i) = {} THEN history[i].streak
                                  ELSE IF ended(i) \cap bad # {} THEN Bump(history[i].streak) ELSE 0,
                       inLedger |-> history[i].inLedger \/ \E s \in appended : of[s] = i]]
           IN  /\ history' = h
               /\ IF \E s \in ok : Known(of[s]) THEN Apply(defs) /\ file' = defs
                  ELSE UNCHANGED <<mem, dirty, file, stale>>
  BY Zenon DEF AccountRuns
<1> DEFINE ended(i) == {s \in ok : of[s] = i}
           defs == [i \in Ids |-> Healthy(mem[i], ended(i))]
           count(i) == IF ended(i) = {} THEN history[i].streak
                       ELSE IF ended(i) \cap bad # {} THEN Bump(history[i].streak) ELSE 0
<1>3. TypeOK /\ ok \subseteq Slots /\ (\A s \in ok : run[s] = "over" /\ of[s] \in Ids)
  BY DEF IInv, Owned
<1>4. faults' \in 0..MaxFaults
  <2>1. Cardinality(over \ ok) \in Nat
    BY SlotsFinite
  <2> QED
    BY <1>2, <1>3, <2>1, ConstantsAre, SMT DEF TypeOK
<1>5. /\ run' \in [Slots -> {"none", "running", "sending", "over"}]
      /\ of' \in [Slots -> Ids \cup {NoItem}]
      /\ bad' \subseteq Slots /\ past' \subseteq Ids
      /\ \A s \in Slots : run'[s] # "none" => s \notin ok /\ run'[s] = run[s] /\ of'[s] = of[s]
      /\ \A s \in Slots \ ok : run'[s] = run[s] /\ of'[s] = of[s]
  BY <1>2, <1>3 DEF TypeOK
<1>6. logged' \in [Slots -> 0..1]
  <2>1. \A s \in Slots : logged[s] \in 0..1 /\ Appended(s) \in 0..1
    BY <1>3, SMT DEF TypeOK, Appended
  <2> QED
    BY <1>2, <2>1
<1>7. /\ history' \in [Ids -> Histories]
      /\ \A i \in Ids : history'[i].auto = history[i].auto /\ history'[i].streak = count(i)
  <2>1. history' = [i \in Ids |->
                      [auto |-> history[i].auto, served |-> history[i].served, streak |-> count(i),
                       inLedger |-> history[i].inLedger \/ \E s \in appended : of[s] = i]]
    BY <1>2
  <2>2. \A i \in Ids : count(i) \in 0..MaxStreak
    BY <1>3, BumpIs DEF TypeOK, Histories
  <2> HIDE DEF count
  <2>3. \A i \in Ids : history[i].auto \in 0..2 /\ history[i].served \in BOOLEAN /\ history[i].inLedger \in BOOLEAN
    BY <1>3 DEF TypeOK, Histories
  <2>4. \A i \in Ids : (history[i].inLedger \/ \E s \in appended : of[s] = i) \in BOOLEAN
    OBVIOUS
  <2> QED
    BY <2>1, <2>2, <2>3, <2>4 DEF Histories
<1>8. /\ mem' \in [Ids -> Definitions] /\ file' \in [Ids -> Definitions]
      /\ dirty' \in BOOLEAN /\ stale' \in BOOLEAN /\ (file' = mem' \/ UNCHANGED <<mem, file>>)
      /\ \A i \in Ids : IF Known(i) THEN mem'[i] = Healthy(mem[i], ended(i)) ELSE mem'[i] = NoDef
  <2>1. \A i \in Ids : ~Known(i) => Healthy(mem[i], ended(i)) = NoDef
    BY DEF Known, Healthy
  <2>2. defs \in [Ids -> Definitions]
    <3>1. \A i \in Ids : Known(i) => Healthy(mem[i], ended(i)) \in Definitions
      BY <1>3, HealthyIs DEF TypeOK, Known
    <3>2. \A i \in Ids : Healthy(mem[i], ended(i)) \in Definitions
      BY <2>1, <3>1 DEF Definitions
    <3> QED
      BY <3>2
  <2>3. CASE \E s \in ok : Known(of[s])
    <3>1. mem' = defs /\ file' = defs /\ dirty' = TRUE /\ stale' = TRUE
      BY <1>2, <2>3 DEF Apply
    <3> QED
      BY <2>1, <2>2, <3>1
  <2>4. CASE ~\E s \in ok : Known(of[s])
    <3>1. UNCHANGED <<mem, dirty, file, stale>>
      BY <1>2, <2>4
    <3>2. \A i \in Ids : Known(i) => ended(i) = {}
      BY <2>4
    <3>3. \A i \in Ids : Known(i) => Healthy(mem[i], ended(i)) = mem[i]
      BY <3>2 DEF Healthy
    <3> HIDE DEF ended
    <3> QED
      BY <1>3, <3>1, <3>3 DEF TypeOK, Known
  <2> QED
    BY <2>3, <2>4
<1>9. TypeOK'
  BY <1>1, <1>3, <1>4, <1>5, <1>6, <1>7, <1>8 DEF TypeOK, queue, Phases
<1>10. NoOverlap' /\ Owned'
  BY <1>5 DEF IInv, NoOverlap, Owned
<1>11. \A i \in Ids : Known(i) =>
         /\ mem'[i].once = mem[i].once /\ mem'[i].fired = mem[i].fired /\ mem'[i].ver = mem[i].ver
         /\ mem'[i].fails = IF ended(i) = {} THEN mem[i].fails
                            ELSE IF ended(i) \cap bad # {} THEN Bump(mem[i].fails) ELSE 0
  <2> HIDE DEF ended
  <2> QED
    BY <1>3, <1>8, HealthyIs DEF TypeOK, Known
<1>12. CountedOnce'
  <2>1. SUFFICES ASSUME NEW i \in Ids, mem'[i] # NoDef
                 PROVE  mem'[i].fails = history'[i].streak
    BY DEF CountedOnce, Known
  <2>2. Known(i) /\ mem[i].fails = history[i].streak
    BY <1>8, <2>1 DEF IInv, CountedOnce
  <2> HIDE DEF ended
  <2> QED
    BY <1>7, <1>11, <2>2
<1> HIDE DEF over
<1>13. Untouched'
  <2>1. \A i \in unborn : i \in Ids /\ ~Known(i) /\ ended(i) = {} /\ history[i].streak = 0 /\ file[i] = NoDef /\ ~Active(i)
    <3>1. \A i \in unborn : i \in Ids /\ mem[i] = NoDef /\ history[i].streak = 0 /\ file[i] = NoDef /\ ~Active(i)
      BY <1>3 DEF IInv, Untouched, TypeOK
    <3>2. \A i \in unborn : ended(i) = {}
      BY <1>3, <3>1 DEF Active
    <3> QED
      BY <3>1, <3>2 DEF Known
  <2>2. \A i \in unborn : mem'[i] = NoDef /\ file'[i] = NoDef
    BY <1>8, <2>1
  <2>3. \A i \in unborn : history'[i].streak = 0
    BY <1>7, <2>1
  <2>4. \A i \in unborn : ~Active(i)'
    BY <1>5, <2>1 DEF Active
  <2> QED
    BY <1>1, <2>2, <2>3, <2>4 DEF Untouched
<1>14. Saved'
  <2>1. \A i \in Ids : mem'[i] # NoDef => mem'[i].ver \in Nat /\ mem'[i].ver <= mem'[i].ver
    BY <1>8, ConstantsAre, SMT DEF Definitions
  <2> HIDE DEF ended
  <2> QED
    BY <1>8, <2>1 DEF IInv, Saved, Known
<1>15. Started'
  <2>1. SUFFICES ASSUME NEW i \in Ids, mem'[i] # NoDef, mem'[i].once, history'[i].auto # 0
                 PROVE  /\ mem'[i].fired /\ history'[i].auto = 1
                        /\ Active(i)' \/ i \in past' \/ Spent(i)'
    BY <1>1 DEF Started, Known
  <2>2. Known(i) /\ mem[i].once /\ mem[i].fired = mem'[i].fired /\ history[i].auto = history'[i].auto
    BY <1>7, <1>8, <1>11, <2>1
  <2>3. mem[i].fired /\ history[i].auto = 1 /\ (Active(i) \/ Spent(i))
    BY <1>1, <2>1, <2>2 DEF IInv, Started
  <2>4. Active(i) => Active(i)' \/ i \in past'
    <3>1. SUFFICES ASSUME NEW s \in Slots, run[s] # "none", of[s] = i
                   PROVE  Active(i)' \/ i \in past'
      BY DEF Active
    <3>2. CASE s \in ok
      BY <1>2, <3>1, <3>2
    <3>3. CASE s \notin ok
      BY <1>5, <3>1, <3>3 DEF Active
    <3> QED
      BY <3>2, <3>3
  <2> QED
    BY <1>1, <2>2, <2>3, <2>4 DEF Spent, queue
<1> QED
  BY <1>9, <1>10, <1>12, <1>13, <1>14, <1>15 DEF IInv

\* What a restart makes of a definition in the file.
LEMMA ResumedIs ==
  ASSUME NEW d \in Definitions, NEW r, r = Resumed(d)
  PROVE  /\ r \in Definitions
         /\ d = NoDef => r = NoDef
         /\ d # NoDef => /\ r.once = d.once /\ r.fired = d.fired /\ r.ver = d.ver /\ r.fails = d.fails
                         /\ ~(r.on /\ r.once /\ r.fired)
<1>1. CASE d = NoDef
  BY <1>1 DEF Resumed
<1>2. CASE d # NoDef
  <2>1. d \in [on : BOOLEAN, once : BOOLEAN, fired : BOOLEAN, fails : 0..MaxStreak, ver : 0..MaxVersion]
    BY <1>2 DEF Definitions
  <2>2. CASE d.on /\ d.once /\ d.fired
    <3>1. r = [d EXCEPT !.on = FALSE]
      BY <1>2, <2>2 DEF Resumed
    <3> QED
      BY <1>2, <2>1, <3>1 DEF Definitions
  <2>3. CASE ~(d.on /\ d.once /\ d.fired)
    BY <1>2, <2>1, <2>3 DEF Resumed
  <2> QED
    BY <2>2, <2>3
<1> QED
  BY <1>1, <1>2

LEMMA CrashStep ==
  ASSUME SchedulesAssumption, NoItemAssumption, IInv, Crash
  PROVE  IInv'
<1>1. /\ crashes < MaxCrashes /\ crashes' = crashes + 1 /\ phase' = "route" /\ dirty' = TRUE /\ stale' = FALSE
      /\ mem' = [i \in Ids |-> Resumed(file[i])] /\ list' = Built(mem')
      /\ run' = [s \in Slots |-> "none"] /\ of' = [s \in Slots |-> NoItem] /\ bad' = {} /\ past' = {}
      /\ logged' = [s \in Slots |-> 0]
      /\ UNCHANGED <<file, clock, edits, triggers, faults, unborn>>
  BY DEF Crash
<1> DEFINE missed == {i \in Ids : file[i] # NoDef /\ file[i].on /\ ~file[i].once}
<1>2. PICK late \in SUBSET missed : \E lost \in SUBSET late :
         /\ msgs' = [m \in Ids \X Fires |->
                       IF m[1] \in late \ lost /\ m[2] = "catchup" THEN 1 ELSE 0]
         /\ skips' = {[id |-> i, expired |-> NoItem] : i \in lost}
  BY Zenon DEF Crash
<1>3. history' = [i \in Ids |->
       [auto |-> IF file[i] # NoDef /\ file[i].fired /\ Known(i) /\ file[i].ver = mem[i].ver
                   THEN history[i].auto ELSE 0,
        served |-> history[i].served,
        streak |-> IF file[i] = NoDef THEN 0 ELSE file[i].fails,
        inLedger |-> history[i].inLedger]]
  BY DEF Crash
<1>4. TypeOK
  BY DEF IInv
<1>5. \A i \in Ids : file[i] \in Definitions
  BY <1>4 DEF TypeOK
<1>6. \A i \in Ids :
        /\ mem'[i] \in Definitions
        /\ file[i] = NoDef => mem'[i] = NoDef
        /\ file[i] # NoDef => /\ mem'[i].once = file[i].once /\ mem'[i].fired = file[i].fired
                              /\ mem'[i].ver = file[i].ver /\ mem'[i].fails = file[i].fails
                              /\ ~(mem'[i].on /\ mem'[i].once /\ mem'[i].fired)
  BY <1>1, <1>5, ResumedIs
<1>7. list' \in [Ids -> 0..MaxVersion \cup {NoItem}]
      /\ \A i \in Ids : ~Schedulable(mem'[i]) => list'[i] = NoItem
  BY <1>1, <1>6 DEF Built, Schedulable, Definitions
<1>8. msgs' \in [Ids \X Fires -> 0..MaxQueued]
      /\ \A i \in Ids : msgs'[<<i, "timer">>] = 0 /\ (i \notin late => msgs'[<<i, "catchup">>] = 0)
  <2>1. 0 \in 0..MaxQueued /\ 1 \in 0..MaxQueued
    BY ConstantsAre, SMT
  <2>2. \A i \in Ids : <<i, "timer">> \in Ids \X Fires /\ <<i, "catchup">> \in Ids \X Fires
    BY DEF Fires
  <2> QED
    BY <1>2, <2>1, <2>2
<1>9. skips' \subseteq Skips
  BY <1>2 DEF Skips
<1>10. /\ history' \in [Ids -> Histories]
       /\ \A i \in Ids :
            /\ history'[i].auto # 0 => /\ file[i] # NoDef /\ file[i].fired /\ Known(i) /\ file[i].ver = mem[i].ver
                                       /\ history'[i].auto = history[i].auto
            /\ history'[i].streak = IF file[i] = NoDef THEN 0 ELSE file[i].fails
  <2> DEFINE auto(i) == IF file[i] # NoDef /\ file[i].fired /\ Known(i) /\ file[i].ver = mem[i].ver
                          THEN history[i].auto ELSE 0
             streak(i) == IF file[i] = NoDef THEN 0 ELSE file[i].fails
  <2>1. \A i \in Ids : history[i].auto \in 0..2 /\ history[i].served \in BOOLEAN /\ history[i].inLedger \in BOOLEAN
    BY <1>4 DEF TypeOK, Histories
  <2>2. \A i \in Ids : auto(i) \in 0..2
    BY <2>1, SMT
  <2>3. \A i \in Ids : streak(i) \in 0..MaxStreak
    BY <1>5, ConstantsAre, SMT DEF Definitions
  <2>4. history' = [i \in Ids |-> [auto |-> auto(i), served |-> history[i].served, streak |-> streak(i),
                                   inLedger |-> history[i].inLedger]]
    BY <1>3
  <2>5. \A i \in Ids : auto(i) # 0 => /\ file[i] # NoDef /\ file[i].fired /\ Known(i) /\ file[i].ver = mem[i].ver
                                      /\ auto(i) = history[i].auto
    OBVIOUS
  <2>6. \A i \in Ids : streak(i) = IF file[i] = NoDef THEN 0 ELSE file[i].fails
    OBVIOUS
  <2> HIDE DEF auto, streak
  <2>7. history' \in [Ids -> Histories] /\ \A i \in Ids : history'[i].auto = auto(i) /\ history'[i].streak = streak(i)
    BY <2>1, <2>2, <2>3, <2>4 DEF Histories
  <2> QED
    BY <2>5, <2>6, <2>7
<1>11. TypeOK'
  <2>1. crashes' \in 0..MaxCrashes /\ logged' \in [Slots -> 0..1]
    BY <1>1, <1>4, ConstantsAre, SMT DEF TypeOK
  <2>2. mem' \in [Ids -> Definitions]
    BY <1>1, <1>6
  <2> QED
    BY <1>1, <1>4, <1>7, <1>8, <1>9, <1>10, <2>1, <2>2 DEF TypeOK, Phases
<1>12. NoOverlap' /\ Owned'
  BY <1>1 DEF NoOverlap, Owned
<1>13. CountedOnce'
  BY <1>6, <1>10 DEF CountedOnce, Known
<1>14. Untouched'
  BY <1>1, <1>4, <1>6, <1>10 DEF IInv, Untouched, Active, TypeOK
<1>15. Saved'
  <2>1. \A i \in Ids : mem'[i] # NoDef => mem'[i].ver \in Nat /\ mem'[i].ver <= mem'[i].ver
    BY <1>6, ConstantsAre, SMT DEF Definitions
  <2> QED
    BY <1>1, <1>6, <2>1 DEF Saved, Known
<1>16. Started'
  <2>1. SUFFICES ASSUME NEW i \in Ids, mem'[i] # NoDef, mem'[i].once, history'[i].auto # 0
                 PROVE  mem'[i].fired /\ history'[i].auto = 1 /\ Spent(i)'
    BY DEF Started, Known
  <2>2. file[i] # NoDef /\ file[i].fired /\ Known(i) /\ file[i].ver = mem[i].ver /\ history'[i].auto = history[i].auto
    BY <1>10, <2>1
  <2>3. file[i].once /\ mem'[i].fired /\ ~mem'[i].on
    BY <1>6, <2>1, <2>2
  <2>4. mem[i].once
    BY <2>2, <2>3 DEF IInv, Saved
  <2>5. history[i].auto = 1
    BY <2>1, <2>2, <2>4 DEF IInv, Started
  <2>6. i \notin late
    BY <2>3
  <2> QED
    BY <1>7, <1>8, <2>2, <2>3, <2>5, <2>6 DEF Spent, Schedulable
<1> QED
  BY <1>11, <1>12, <1>13, <1>14, <1>15, <1>16 DEF IInv

-----------------------------------------------------------------------------
(* Theorems.                                                               *)

LEMMA NextStep ==
  ASSUME SchedulesAssumption, NoItemAssumption, IInv, [Next]_vars
  PROVE  IInv'
<1>1. ASSUME Engine
      PROVE  IInv'
  BY <1>1, DroppedStep, OverlapStep, ExpiredStep, RunsStep, RoutedStep, SkipsStep, RecordedStep, CompleteStep,
     PersistStep DEF Engine
<1>2. ASSUME Threads
      PROVE  IInv'
  BY <1>2, ReloadStep, TimerOnceStep, EndStep DEF Threads
<1>3. ASSUME NEW i \in Ids, TimePasses(i) \/ TimerCron(i) \/ RunNow(i) \/ Reclaimed(i)
      PROVE  IInv'
  BY <1>3, ClockSteps, TimerCronStep, RunNowStep, ReclaimedStep
<1>4. ASSUME NEW i \in Ids, NEW d \in Edited(i), ClientEdit(i, d) \/ ToolEdit(i, d)
      PROVE  IInv'
  BY <1>4, EditStep
<1>5. ASSUME NEW s \in Slots, NEW ok \in BOOLEAN, RunEnds(s, ok)
      PROVE  IInv'
  BY <1>5, EndStep
<1>6. ASSUME UNCHANGED vars
      PROVE  IInv'
  <2>1. UNCHANGED <<phase, mem, dirty, file, clock, list, stale, msgs, skips, run, of, bad, past, logged, edits,
                    triggers, faults, crashes, unborn, history>>
    BY <1>6 DEF vars, timer, queue, runVars, counters
  <2>2. TypeOK'
    BY <2>1 DEF IInv, TypeOK
  <2> QED
    BY <2>1, <2>2, KeptStep DEF Spent
<1> QED
  BY <1>1, <1>2, <1>3, <1>4, <1>5, <1>6, CrashStep DEF Next

\* The strengthened invariant holds: every variable keeps its type, a once
\* schedule that has run has nothing left that would start it, and the file
\* has the definition in memory or an earlier one.
THEOREM SchedulesInvariant ==
  Spec => []IInv
<1>1. Init => IInv
  BY InitIInv, SchedulesAssumption, NoItemAssumption
<1>2. IInv /\ [Next]_vars => IInv'
  BY NextStep, SchedulesAssumption, NoItemAssumption
<1> QED
  BY <1>1, <1>2, PTL DEF Spec

\* Two runs of one schedule never overlap, however they were started and
\* whatever was edited, failed or was restarted in between.
THEOREM RunsDoNotOverlap ==
  Spec => []NoOverlap
<1>1. IInv => NoOverlap
  BY DEF IInv
<1> QED
  BY <1>1, SchedulesInvariant, PTL

\* A once schedule starts at most one run by itself since it was set; only a
\* crash before its firing was saved lets it start again.
THEOREM OnceIsOnce ==
  Spec => []OnceRunsOnce
<1>1. IInv => OnceRunsOnce
  <2>1. SUFFICES ASSUME IInv, NEW i \in Ids, Known(i), mem[i].once
                 PROVE  history[i].auto <= 1
    BY DEF OnceRunsOnce
  <2>2. history[i].auto \in {0, 1}
    BY <2>1 DEF IInv, Started
  <2> QED
    BY <2>2, SMT
<1> QED
  BY <1>1, SchedulesInvariant, PTL

\* The failures counted in a definition are those recorded in a row, however
\* often the ledger or the file had to be written again.
THEOREM HealthIsExact ==
  Spec => []CountedOnce
<1>1. IInv => CountedOnce
  BY DEF IInv
<1> QED
  BY <1>1, SchedulesInvariant, PTL

-----------------------------------------------------------------------------
(* What a definition may be removed for.                                   *)

\* A record of an expired trigger names the schedule it saw or an earlier one,
\* and that one was served; the runs that are recorded are in the ledger.
Caused ==
  /\ \A k \in skips : k.expired # NoItem =>
       /\ k.id \notin unborn
       /\ Known(k.id) => /\ k.expired <= mem[k.id].ver
                         /\ k.expired = mem[k.id].ver => history[k.id].served
  /\ \A i \in past : history[i].inLedger

LEMMA CausedInit == Init => Caused
BY DEF Init, Caused

\* A step that adds no expired record and forgets neither a line in the ledger
\* nor, unless the definition goes, that a trigger was served.
LEMMA CausedKept ==
  ASSUME TypeOK, Caused, unborn' \subseteq unborn, past' \subseteq past,
         \A k \in skips' : k.expired # NoItem => k \in skips,
         \A i \in Ids : mem'[i] = NoDef \/ (mem[i] # NoDef /\ mem'[i].ver = mem[i].ver),
         \A i \in Ids : /\ history[i].served => history'[i].served
                        /\ history[i].inLedger => history'[i].inLedger
  PROVE  Caused'
<1>1. \A k \in skips : k.id \in Ids
  BY DEF TypeOK, Skips
<1>2. past \subseteq Ids
  BY DEF TypeOK
<1> QED BY <1>1, <1>2 DEF Caused, Known

\* Noting a trigger or an edit keeps what the ledger holds.
LEMMA NotedKeeps ==
  ASSUME TypeOK, NEW i \in Ids, NEW auto \in 0..2, NEW served \in BOOLEAN, history' = Noted(i, auto, served)
  PROVE  /\ history'[i].served = served /\ history'[i].inLedger = history[i].inLedger
         /\ \A j \in Ids : j # i => history'[j] = history[j]
<1>1. history' = [history EXCEPT ![i] = [auto |-> auto, served |-> served,
                    streak |-> history[i].streak, inLedger |-> history[i].inLedger]]
  BY DEF Noted
<1> QED BY <1>1 DEF TypeOK

LEMMA CausedExpired ==
  ASSUME SchedulesAssumption, NoItemAssumption, IInv, Caused, NEW i \in Ids, NEW f \in Fires, RouteExpired(i, f)
  PROVE  Caused'
<1>1. /\ UNCHANGED <<past, unborn>> /\ Known(i)
      /\ skips' = skips \cup {[id |-> i, expired |-> mem[i].ver]}
      /\ mem' = [mem EXCEPT ![i].fired = TRUE]
      /\ history' = Noted(i, history[i].auto, TRUE)
  BY DEF RouteExpired, Apply, Wanted, runVars, counters
<1>2. TypeOK /\ history[i].auto \in 0..2 /\ mem[i].ver \in 0..MaxVersion
  BY <1>1 DEF IInv, TypeOK, Histories, Definitions, Known
<1>3. /\ history'[i].served /\ history'[i].inLedger = history[i].inLedger
      /\ \A j \in Ids : j # i => history'[j] = history[j]
  BY <1>1, <1>2, NotedKeeps
<1>4. /\ mem'[i].ver = mem[i].ver
      /\ \A j \in Ids : j # i => mem'[j] = mem[j]
  BY <1>1, <1>2, FiredIs
<1>5. i \notin unborn
  BY <1>1 DEF IInv, Untouched, Known
<1>6. PICK new : new = [id |-> i, expired |-> mem[i].ver]
  OBVIOUS
<1>7. new.id = i /\ new.expired = mem[i].ver /\ mem[i].ver <= mem[i].ver
  BY <1>2, <1>6, ConstantsAre
<1>8. ASSUME NEW k \in skips', k.expired # NoItem
      PROVE  /\ k.id \notin unborn'
             /\ Known(k.id)' => /\ k.expired <= mem'[k.id].ver
                                /\ k.expired = mem'[k.id].ver => history'[k.id].served
  <2>1. CASE k = new
    BY <1>1, <1>3, <1>4, <1>5, <1>7, <2>1
  <2>2. CASE k # new
    <3>1. k \in skips /\ k.id \in Ids
      BY <1>1, <1>2, <1>6, <1>8, <2>2 DEF TypeOK, Skips
    <3>2. CASE k.id = i
      BY <1>1, <1>3, <1>4, <1>8, <3>1, <3>2 DEF Caused
    <3>3. CASE k.id # i
      BY <1>1, <1>3, <1>4, <1>8, <3>1, <3>3 DEF Caused, Known
    <3> QED BY <3>2, <3>3
  <2> QED BY <2>1, <2>2
<1>9. \A j \in past' : history'[j].inLedger
  BY <1>1, <1>2, <1>3 DEF Caused, TypeOK
<1> QED BY <1>8, <1>9 DEF Caused

LEMMA CausedRuns ==
  ASSUME SchedulesAssumption, NoItemAssumption, IInv, Caused, NEW i \in Ids, NEW f \in Fires, RouteRuns(i, f)
  PROVE  Caused'
<1> DEFINE more == IF f = "manual" \/ history[i].auto = 2 THEN history[i].auto ELSE history[i].auto + 1
<1>1. /\ UNCHANGED <<skips, past, unborn>> /\ Known(i)
      /\ mem' = [mem EXCEPT ![i].fired = TRUE]
      /\ history' = Noted(i, more, TRUE)
  BY DEF RouteRuns, Apply, Wanted
<1>2. TypeOK /\ history[i].auto \in 0..2
  BY DEF IInv, TypeOK, Histories
<1>3. more \in 0..2
  BY <1>2, SMT
<1> HIDE DEF more
<1>4. /\ history'[i].served /\ history'[i].inLedger = history[i].inLedger
      /\ \A j \in Ids : j # i => history'[j] = history[j]
  BY <1>1, <1>2, <1>3, NotedKeeps
<1>5. /\ mem'[i].ver = mem[i].ver
      /\ \A j \in Ids : j # i => mem'[j] = mem[j]
  BY <1>1, <1>2, FiredIs
<1>6. \A j \in Ids : mem'[j] = NoDef \/ (mem[j] # NoDef /\ mem'[j].ver = mem[j].ver)
  BY <1>1, <1>5 DEF Known
<1>7. \A j \in Ids : /\ history[j].served => history'[j].served
                     /\ history[j].inLedger => history'[j].inLedger
  BY <1>4
<1> QED BY <1>1, <1>2, <1>6, <1>7, CausedKept

LEMMA CausedEdit ==
  ASSUME SchedulesAssumption, NoItemAssumption, IInv, Caused, NEW i \in Ids, NEW d \in Edited(i),
         ClientEdit(i, d) \/ ToolEdit(i, d)
  PROVE  Caused'
<1>1. /\ UNCHANGED <<skips, past>> /\ unborn' = unborn \ {i}
      /\ history' = IF Rescheduled(i, d) THEN Noted(i, 0, FALSE) ELSE history
      /\ mem' = [mem EXCEPT ![i] = d]
  BY DEF ClientEdit, ToolEdit, Apply, EditNoted, Remember, queue, runVars
<1>2. /\ d # NoDef => IF Rescheduled(i, d) THEN Known(i) => d.ver > mem[i].ver
                      ELSE Known(i) /\ d.ver = mem[i].ver
      /\ ~Known(i) => i \in unborn
  BY EditedIs
<1>3. TypeOK /\ mem'[i] = d /\ \A j \in Ids : j # i => mem'[j] = mem[j]
  BY <1>1 DEF IInv, TypeOK
<1>4. \A j \in Ids : history'[j].inLedger = history[j].inLedger /\ (j # i => history'[j] = history[j])
  <2>1. CASE Rescheduled(i, d)
    <3>1. history' = Noted(i, 0, FALSE) /\ 0 \in 0..2
      BY <1>1, <2>1
    <3> QED BY <3>1, <1>3, NotedKeeps
  <2>2. CASE ~Rescheduled(i, d)
    BY <1>1, <2>2
  <2> QED BY <2>1, <2>2
<1>5. ASSUME NEW k \in skips', k.expired # NoItem
      PROVE  /\ k.id \notin unborn'
             /\ Known(k.id)' => /\ k.expired <= mem'[k.id].ver
                                /\ k.expired = mem'[k.id].ver => history'[k.id].served
  <2>1. k \in skips /\ k.id \in Ids /\ k.expired \in 0..MaxVersion /\ k.id \notin unborn
    BY <1>1, <1>3, <1>5 DEF TypeOK, Skips, Caused
  <2>2. CASE k.id # i
    BY <1>1, <1>3, <1>4, <1>5, <2>1, <2>2 DEF Caused, Known
  <2>3. CASE k.id = i /\ d # NoDef
    <3>1. Known(i) /\ k.expired <= mem[i].ver /\ (k.expired = mem[i].ver => history[i].served)
      BY <1>2, <1>5, <2>1, <2>3 DEF Caused
    <3>2. CASE Rescheduled(i, d)
      <4>1. d.ver > mem[i].ver /\ mem[i].ver \in 0..MaxVersion
        BY <1>2, <1>3, <2>3, <3>1, <3>2 DEF TypeOK, Definitions, Known
      <4>2. d \in Definitions
        BY EditedIs
      <4>3. d.ver \in 0..MaxVersion
        BY <4>2, <2>3 DEF Definitions
      <4>4. k.expired < d.ver
        BY <2>1, <3>1, <4>1, <4>3, ConstantsAre, SMT
      <4>5. k.expired <= d.ver /\ k.expired # d.ver
        BY <2>1, <4>3, <4>4, ConstantsAre, SMT
      <4> QED BY <1>1, <1>3, <2>1, <2>3, <4>5
    <3>3. CASE ~Rescheduled(i, d)
      BY <1>1, <1>2, <1>3, <2>1, <2>3, <3>1, <3>3
    <3> QED BY <3>2, <3>3
  <2>4. CASE k.id = i /\ d = NoDef
    BY <1>1, <1>3, <2>1, <2>4 DEF Known
  <2> QED BY <2>2, <2>3, <2>4
<1>6. \A j \in past' : history'[j].inLedger
  BY <1>1, <1>3, <1>4 DEF Caused, TypeOK
<1> QED BY <1>5, <1>6 DEF Caused

\* Accounting of skipped triggers: what it removes has a line in the ledger and
\* was served.
LEMMA CausedSkips ==
  ASSUME SchedulesAssumption, IInv, Caused, AccountSkips
  PROVE  /\ Caused'
         /\ \A i \in Ids : Known(i) /\ mem'[i] = NoDef => history'[i].inLedger /\ history[i].served
<1>1. UNCHANGED <<past, unborn>>
  BY DEF AccountSkips, runVars
<1>2. PICK ok \in SUBSET skips, appended \in SUBSET skips :
        /\ ok \subseteq appended
        /\ skips' = skips \ ok
        /\ LET gone == {k.id : k \in {k \in ok : StillExpired(k)}}
               defs == [i \in Ids |-> IF i \in gone THEN NoDef ELSE mem[i]]
               ids == {k.id : k \in appended}
               h == [i \in Ids |-> [history[i] EXCEPT !.inLedger = @ \/ i \in ids]]
           IN  /\ history' = h
               /\ IF gone = {} THEN UNCHANGED <<mem, dirty, file, stale>>
                  ELSE Apply(defs) /\ file' = defs
  BY DEF AccountSkips
<1>3. PICK ids : ids = {k.id : k \in appended}
  OBVIOUS
<1>4. PICK gone : gone = {k.id : k \in {k \in ok : StillExpired(k)}}
  OBVIOUS
<1>5. TypeOK
  BY DEF IInv
<1>6. \A i \in Ids : IF i \in gone THEN mem'[i] = NoDef ELSE mem'[i] = mem[i]
  <2>1. \/ gone = {} /\ mem' = mem
        \/ mem' = [i \in Ids |-> IF i \in gone THEN NoDef ELSE mem[i]]
    BY <1>2, <1>4 DEF Apply
  <2> QED BY <2>1
<1>7. ASSUME NEW i \in Ids
      PROVE  /\ history'[i].served = history[i].served
             /\ history'[i].inLedger = (history[i].inLedger \/ i \in ids)
  <2>1. history' = [j \in Ids |-> [history[j] EXCEPT !.inLedger = @ \/ j \in ids]]
    BY <1>2, <1>3
  <2>2. PICK b \in BOOLEAN : b = (history[i].inLedger \/ i \in ids)
    OBVIOUS
  <2>3. history'[i] = [history[i] EXCEPT !.inLedger = b]
    BY <2>1, <2>2
  <2>4. history'[i].served = history[i].served /\ history'[i].inLedger = b
    BY <1>5, <2>3 DEF TypeOK, Histories
  <2> QED BY <2>2, <2>4
<1>8. Caused'
  <2>1. \A i \in Ids : mem'[i] = NoDef \/ (mem[i] # NoDef /\ mem'[i].ver = mem[i].ver)
    BY <1>6
  <2>2. \A i \in Ids : /\ history[i].served => history'[i].served
                       /\ history[i].inLedger => history'[i].inLedger
    BY <1>7
  <2> QED BY <1>1, <1>2, <1>5, <2>1, <2>2, CausedKept
<1>9. ASSUME NEW i \in Ids, Known(i), mem'[i] = NoDef
      PROVE  history'[i].inLedger /\ history[i].served
  <2>1. i \in gone
    BY <1>6, <1>9 DEF Known
  <2>2. PICK k \in ok : k.id = i /\ StillExpired(k)
    BY <1>4, <2>1
  <2>3. i \in ids
    BY <1>2, <1>3, <2>2
  <2>4. history[i].served
    BY <2>2 DEF Caused, StillExpired
  <2> QED BY <1>7, <2>3, <2>4
<1> QED BY <1>8, <1>9

\* Recorded runs are in the ledger.
LEMMA CausedRecorded ==
  ASSUME SchedulesAssumption, IInv, Caused, AccountRuns
  PROVE  Caused'
<1>1. UNCHANGED <<skips, unborn>>
  BY DEF AccountRuns, queue
<1>2. PICK ok \in SUBSET {s \in Slots : run[s] = "over"}, appended \in SUBSET {s \in Slots : run[s] = "over"} :
        /\ ok \subseteq appended
        /\ past' = past \cup {of[s] : s \in ok}
        /\ LET ended(i) == {s \in ok : of[s] = i}
               defs == [i \in Ids |-> Healthy(mem[i], ended(i))]
               h == [i \in Ids |->
                      [auto |-> history[i].auto, served |-> history[i].served,
                       streak |-> IF ended(i) = {} THEN history[i].streak
                                  ELSE IF ended(i) \cap bad # {} THEN Bump(history[i].streak) ELSE 0,
                       inLedger |-> history[i].inLedger \/ \E s \in appended : of[s] = i]]
           IN  /\ history' = h
               /\ IF \E s \in ok : Known(of[s]) THEN Apply(defs) /\ file' = defs
                  ELSE UNCHANGED <<mem, dirty, file, stale>>
  BY Zenon DEF AccountRuns
<1>3. TypeOK
  BY DEF IInv
<1>4. ASSUME NEW i \in Ids
      PROVE  history'[i].served = history[i].served
             /\ history'[i].inLedger = (history[i].inLedger \/ \E s \in appended : of[s] = i)
  BY <1>2
<1>5. ASSUME NEW i \in Ids
      PROVE  mem'[i] = NoDef \/ (mem[i] # NoDef /\ mem'[i].ver = mem[i].ver)
  <2>1. CASE UNCHANGED mem
    BY <2>1
  <2>2. CASE mem' = [j \in Ids |-> Healthy(mem[j], {s \in ok : of[s] = j})]
    <3>1. PICK S : S = {s \in ok : of[s] = i}
      OBVIOUS
    <3>2. mem'[i] = Healthy(mem[i], S)
      BY <2>2, <3>1
    <3>3. CASE mem[i] = NoDef
      BY <3>2, <3>3 DEF Healthy
    <3>4. CASE mem[i] # NoDef
      <4>1. mem[i] \in Definitions
        BY <1>3 DEF TypeOK
      <4> QED BY <3>2, <3>4, <4>1, HealthyIs
    <3> QED BY <3>3, <3>4
  <2> QED BY <1>2, <2>1, <2>2 DEF Apply
<1>6. ASSUME NEW j \in past'
      PROVE  history'[j].inLedger
  <2>1. CASE j \in past
    BY <1>3, <1>4, <2>1 DEF Caused, TypeOK
  <2>2. CASE j \notin past
    <3>1. PICK s \in ok : of[s] = j
      BY <1>2, <1>6, <2>2
    <3>2. j \in Ids
      BY <3>1 DEF IInv, Owned
    <3> QED BY <1>2, <1>4, <3>1, <3>2
  <2> QED BY <2>1, <2>2
<1>7. \A k \in skips : k.id \in Ids
  BY <1>3 DEF TypeOK, Skips
<1>8. \A k \in skips : k.expired # NoItem =>
        /\ k.id \notin unborn
        /\ mem'[k.id] # NoDef => /\ k.expired <= mem'[k.id].ver
                                 /\ k.expired = mem'[k.id].ver => history'[k.id].served
  BY <1>4, <1>5, <1>7 DEF Caused, Known
<1> QED BY <1>1, <1>6, <1>8 DEF Caused, Known

\* Only a once definition of which a run is recorded is removed after it.
LEMMA CausedComplete ==
  ASSUME IInv, Caused, Complete
  PROVE  /\ Caused'
         /\ \A i \in Ids : Known(i) /\ mem'[i] = NoDef => history'[i].inLedger
<1> DEFINE gone == {i \in Ids : Finished(i) /\ Known(i) /\ mem[i].once}
<1>1. UNCHANGED <<skips, past, unborn, history>>
  BY DEF Complete, queue, runVars, counters
<1>2. \A j \in Ids : IF j \in gone THEN mem'[j] = NoDef ELSE mem'[j] = mem[j]
  <2>1. \/ gone = {} /\ mem' = mem
        \/ mem' = [i \in Ids |-> IF i \in gone THEN NoDef ELSE mem[i]]
    BY DEF Complete, Apply
  <2> QED BY <2>1
<1>3. \A j \in Ids : mem'[j] = NoDef \/ (mem[j] # NoDef /\ mem'[j].ver = mem[j].ver)
  BY <1>2 DEF Known
<1>4. TypeOK
  BY DEF IInv
<1>5. Caused'
  BY <1>1, <1>3, <1>4, CausedKept
<1>6. \A i \in Ids : Known(i) /\ mem'[i] = NoDef => i \in past
  BY <1>2 DEF Finished, Known
<1> QED BY <1>1, <1>5, <1>6 DEF Caused

LEMMA CausedCrash ==
  ASSUME Caused, Crash
  PROVE  Caused'
<1>1. past' = {}
  BY DEF Crash
<1>2. \A k \in skips' : k.expired = NoItem
  BY DEF Crash
<1> QED BY <1>1, <1>2 DEF Caused

\* Nothing else removes a definition.
LEMMA CausedStep ==
  ASSUME SchedulesAssumption, NoItemAssumption, IInv, Caused, [Next]_vars
  PROVE  /\ Caused'
         /\ \A i \in Ids :
              phase \in {"skips", "complete"} /\ phase' # "route" /\ Known(i) /\ mem'[i] = NoDef =>
                /\ history'[i].inLedger
                /\ phase = "skips" => history[i].served
<1> DEFINE ForCause ==
             \A i \in Ids :
               phase \in {"skips", "complete"} /\ phase' # "route" /\ Known(i) /\ mem'[i] = NoDef =>
                 /\ history'[i].inLedger
                 /\ phase = "skips" => history[i].served
<1>1. TypeOK
  BY DEF IInv
<1>2. ASSUME UNCHANGED <<mem, unborn, history>>, past' \subseteq past,
             \A k \in skips' : k.expired # NoItem => k \in skips
      PROVE  Caused' /\ ForCause
  <2>1. ASSUME NEW j \in Ids
        PROVE  mem'[j] = NoDef \/ (mem[j] # NoDef /\ mem'[j].ver = mem[j].ver)
    BY <1>2
  <2> QED BY <1>1, <1>2, <2>1, CausedKept DEF Known
<1>3. CASE \/ \E i \in Ids, f \in Fires : RouteDropped(i, f) \/ RouteOverlap(i, f)
           \/ Routed \/ Persist \/ NextPhase \/ Threads
           \/ \E i \in Ids : TimePasses(i) \/ TimerCron(i) \/ RunNow(i) \/ Reclaimed(i)
           \/ \E s \in Slots, ok \in BOOLEAN : RunEnds(s, ok)
           \/ UNCHANGED vars
  <2>1. UNCHANGED <<mem, unborn, history>> /\ past' \subseteq past
    BY <1>3 DEF RouteDropped, RouteOverlap, Routed, Persist, NextPhase, Threads, Reload, TimerOnce, Delivered,
       TimePasses, TimerCron, RunNow, Reclaimed, Apply, RunEnds, vars, runVars, counters
  <2>2. skips' = skips \/ \E i \in Ids : skips' = skips \cup {[id |-> i, expired |-> NoItem]}
    BY <1>3 DEF RouteDropped, RouteOverlap, Routed, Persist, NextPhase, Threads, Reload, TimerOnce, Delivered,
       TimePasses, TimerCron, RunNow, Reclaimed, Apply, RunEnds, vars, queue
  <2>3. \A k \in skips' : k.expired # NoItem => k \in skips
    BY <2>2
  <2> QED BY <1>2, <2>1, <2>3
<1>4. ASSUME NEW i \in Ids, NEW f \in Fires, RouteExpired(i, f) \/ RouteRuns(i, f)
      PROVE  Caused' /\ ForCause
  <2>1. phase = "route"
    BY <1>4 DEF RouteExpired, RouteRuns, Took
  <2> QED BY <1>4, <2>1, CausedExpired, CausedRuns
<1>5. CASE AccountSkips
  BY <1>5, CausedSkips
<1>6. CASE AccountRuns
  <2>1. phase = "runs"
    BY <1>6 DEF AccountRuns
  <2> QED BY <1>6, <2>1, CausedRecorded
<1>7. CASE Complete
  <2>1. phase = "complete"
    BY <1>7 DEF Complete
  <2> QED BY <1>7, <2>1, CausedComplete
<1>8. ASSUME NEW i \in Ids, NEW d \in Edited(i), ClientEdit(i, d) \/ ToolEdit(i, d)
      PROVE  Caused' /\ ForCause
  <2>1. phase \in {"edit", "effects"}
    BY <1>8 DEF ClientEdit, ToolEdit
  <2> QED BY <1>8, <2>1, CausedEdit
<1>9. CASE Crash
  <2>1. phase' = "route"
    BY <1>9 DEF Crash
  <2> QED BY <1>9, <2>1, CausedCrash
<1> QED BY <1>3, <1>4, <1>5, <1>6, <1>7, <1>8, <1>9 DEF Next, Engine

\* The system removes a definition only for cause: the ledger has a line of it
\* by then, whatever failed and was retried, and the record of an expired
\* trigger does not remove a definition that was rescheduled meanwhile.
THEOREM RemovalHasCause ==
  Spec => RemovedForCause
<1>1. Init => Caused
  BY CausedInit
<1>2. IInv /\ Caused /\ [Next]_vars => Caused'
  BY CausedStep, SchedulesAssumption, NoItemAssumption
<1>3. IInv /\ Caused /\ [Next]_vars =>
        [\A i \in Ids :
           phase \in {"skips", "complete"} /\ phase' # "route" /\ Known(i) /\ mem'[i] = NoDef =>
             /\ history'[i].inLedger
             /\ phase = "skips" => history[i].served]_vars
  BY CausedStep, SchedulesAssumption, NoItemAssumption
<1> QED
  BY <1>1, <1>2, <1>3, SchedulesInvariant, PTL DEF Spec, RemovedForCause

=============================================================================

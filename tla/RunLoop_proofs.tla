--------------------------- MODULE RunLoop_proofs ---------------------------
(***************************************************************************)
(* Proofs about the main loop, for any set of producers, batch size, set   *)
(* of deadline keys and clock bound: the deadline index never goes stale,  *)
(* no announced work is slept on, and every step is a step of WorkQueue.   *)
(***************************************************************************)
EXTENDS RunLoop, TLAPS

-----------------------------------------------------------------------------
(* The deadline index (contracts/wake.rs RuntimeDeadlines).                *)

\* The empty index is well formed.
LEMMA EmptyIndex ==
  ASSUME NEW K, NEW T
  PROVE  Empty \in Index(K, T) /\ Agree(Empty)
<1>1. Empty.by_key \in [{} -> T] /\ {} \in SUBSET K
  BY DEF Empty
<1>2. Empty.by_key \in UNION {[D -> T] : D \in SUBSET K}
  BY <1>1
<1> QED BY <1>2 DEF Empty, Index, Agree, Armed

\* What it takes for a record to be an index.
LEMMA IndexIs ==
  ASSUME NEW K, NEW T, NEW D \in SUBSET K, NEW f \in [D -> T],
         NEW E \in SUBSET (T \X K)
  PROVE  [by_key |-> f, by_time |-> E] \in Index(K, T)
  BY DEF Index

\* An index's map is a function from its armed keys to instants.
LEMMA IndexHas ==
  ASSUME NEW K, NEW T, NEW x \in Index(K, T)
  PROVE  /\ x = [by_key |-> x.by_key, by_time |-> x.by_time]
         /\ Armed(x) \in SUBSET K
         /\ x.by_key \in [Armed(x) -> T]
         /\ x.by_time \in SUBSET (T \X K)
  BY DEF Index, Armed

\* remove keeps the two halves of the index in step.
LEMMA RemoveKeeps ==
  ASSUME NEW K, NEW T, NEW x \in Index(K, T), Agree(x), NEW k
  PROVE  /\ Remove(x, k) \in Index(K, T)
         /\ Agree(Remove(x, k))
         /\ Armed(Remove(x, k)) = Armed(x) \ {k}
<1>1. CASE k \notin Armed(x)
  BY <1>1 DEF Remove
<1>2. CASE k \in Armed(x)
  <2> DEFINE f == [j \in Armed(x) \ {k} |-> x.by_key[j]]
             E == x.by_time \ {<<x.by_key[k], k>>}
  <2>1. Remove(x, k) = [by_key |-> f, by_time |-> E]
    BY <1>2 DEF Remove
  <2>2. f \in [Armed(x) \ {k} -> T] /\ Armed(x) \ {k} \in SUBSET K
    BY IndexHas
  <2>3. E \in SUBSET (T \X K)
    BY IndexHas
  <2>4. E = {<<f[j], j>> : j \in Armed(x) \ {k}}
    BY DEF Agree
  <2> HIDE DEF f, E
  <2>5. Remove(x, k) \in Index(K, T)
    BY <2>1, <2>2, <2>3, IndexIs
  <2>6. Armed(Remove(x, k)) = Armed(x) \ {k}
    BY <2>1, <2>2 DEF Armed
  <2>7. Agree(Remove(x, k))
    BY <2>1, <2>4, <2>6 DEF Agree
  <2> QED BY <2>5, <2>6, <2>7
<1> QED BY <1>1, <1>2

\* set leaves one entry for the key, whatever it was before.
LEMMA SetKeeps ==
  ASSUME NEW K, NEW T, NEW x \in Index(K, T), Agree(x), NEW k \in K, NEW at \in T
  PROVE  Set(x, k, at) \in Index(K, T) /\ Agree(Set(x, k, at))
<1> DEFINE y == Remove(x, k)
           f == [j \in Armed(y) \cup {k} |-> IF j = k THEN at ELSE y.by_key[j]]
           E == y.by_time \cup {<<at, k>>}
<1>1. y \in Index(K, T) /\ Agree(y) /\ k \notin Armed(y)
  BY RemoveKeeps
<1>2. Set(x, k, at) = [by_key |-> f, by_time |-> E]
  BY DEF Set
<1> HIDE DEF y
<1>3. f \in [Armed(y) \cup {k} -> T] /\ Armed(y) \cup {k} \in SUBSET K
  BY <1>1, IndexHas
<1>4. E \in SUBSET (T \X K)
  BY <1>1, IndexHas
<1>5. E = {<<f[j], j>> : j \in Armed(y) \cup {k}}
  BY <1>1 DEF Agree
<1> HIDE DEF f, E
<1>6. Set(x, k, at) \in Index(K, T)
  BY <1>2, <1>3, <1>4, IndexIs
<1>7. Agree(Set(x, k, at))
  BY <1>2, <1>3, <1>5 DEF Agree, Armed
<1> QED BY <1>6, <1>7

\* take_due pops the same keys from both halves.
LEMMA AfterDueKeeps ==
  ASSUME NEW K, NEW x \in Index(K, Times), Agree(x), NEW t \in Times
  PROVE  /\ AfterDue(x, t) \in Index(K, Times)
         /\ Agree(AfterDue(x, t))
         /\ Due(x, t) \in SUBSET K
<1> DEFINE D == Armed(x) \ Due(x, t)
           f == [j \in D |-> x.by_key[j]]
           E == x.by_time \ Popped(x, t)
<1>1. AfterDue(x, t) = [by_key |-> f, by_time |-> E]
  BY DEF AfterDue
<1>2. f \in [D -> Times] /\ D \in SUBSET K
  BY IndexHas
<1>3. E \in SUBSET (Times \X K)
  BY IndexHas
<1>4. Due(x, t) \in SUBSET K
  BY IndexHas DEF Due, Popped
<1>5. ASSUME NEW j \in Armed(x)
      PROVE  j \in Due(x, t) <=> x.by_key[j] <= t
  <2>1. <<x.by_key[j], j>> \in x.by_time
    BY DEF Agree
  <2>2. ASSUME x.by_key[j] <= t PROVE j \in Due(x, t)
    <3>1. <<x.by_key[j], j>> \in Popped(x, t)
      BY <2>1, <2>2 DEF Popped
    <3>2. j = <<x.by_key[j], j>>[2]
      OBVIOUS
    <3> QED BY <3>1, <3>2 DEF Due
  <2>3. ASSUME j \in Due(x, t) PROVE x.by_key[j] <= t
    <3>1. PICK e \in Popped(x, t) : j = e[2]
      BY <2>3 DEF Due
    <3>2. e \in x.by_time /\ e[1] <= t
      BY <3>1 DEF Popped
    <3>3. PICK k \in Armed(x) : e = <<x.by_key[k], k>>
      BY <3>2 DEF Agree
    <3> QED BY <3>1, <3>2, <3>3
  <2> QED BY <2>2, <2>3
<1>6. E = {<<f[j], j>> : j \in D}
  BY <1>5 DEF Agree, Popped
<1> HIDE DEF D, f, E
<1>7. AfterDue(x, t) \in Index(K, Times)
  BY <1>1, <1>2, <1>3, IndexIs
<1>8. Agree(AfterDue(x, t))
  BY <1>1, <1>2, <1>6 DEF Agree, Armed
<1> QED BY <1>4, <1>7, <1>8

-----------------------------------------------------------------------------
(* The loop.                                                               *)

\* The index of the loop stays well formed and in step.
LEMMA IndexStep ==
  ASSUME TypeOK, Agree(index), [Next]_vars
  PROVE  /\ index' \in Index(Keys, Times)
         /\ due' \in SUBSET Keys
         /\ now' \in Times
         /\ Agree(index')
<1> USE RunLoopAssumption
<1>0. index \in Index(Keys, Times) /\ due \in SUBSET Keys /\ now \in Times
  BY DEF TypeOK
<1>1. CASE UNCHANGED timeVars
  BY <1>0, <1>1 DEF timeVars
<1>2. CASE ClockTicks
  <2>1. now' \in Times
    BY <1>0, <1>2 DEF ClockTicks, Times
  <2> QED BY <1>0, <1>2, <2>1 DEF ClockTicks
<1>3. CASE Check
  <2>1. index' = AfterDue(index, now) /\ due' = Due(index, now) /\ now' = now
    BY <1>3 DEF Check
  <2> QED BY <1>0, <2>1, AfterDueKeeps
<1>4. ASSUME NEW M \in Drains(mail), NEW I \in Drains(inputs), Update(M, I)
      PROVE  /\ index' \in Index(Keys, Times) /\ due' \in SUBSET Keys
             /\ now' \in Times /\ Agree(index')
  <2>1. due' = due /\ now' = now /\ Project
    BY <1>4 DEF Update
  <2>2. CASE \E k \in Keys, at \in Times : index' = Set(index, k, at)
    BY <1>0, <2>1, <2>2, SetKeeps
  <2>3. CASE \E k \in Armed(index) : index' = Remove(index, k)
    BY <1>0, <2>1, <2>3, RemoveKeeps
  <2>4. CASE UNCHANGED index
    BY <1>0, <2>1, <2>4
  <2> QED BY <2>1, <2>2, <2>3, <2>4 DEF Project
<1> QED
  BY <1>1, <1>2, <1>3, <1>4 DEF Next, LoopStep, Send, RaiseFlag, Ring, TakeToken,
     SwapFlags, Poll, Exit, WokenByBell, WokenByInput, WokenByDeadline,
     WokenByTimeout, vars, timeVars

\* One step of the loop, of a producer or of the clock keeps the queues typed,
\* the buffered inputs served and the bell up while work is announced.
LEMMA BellStep ==
  ASSUME TypeOK, Queued, BellInv, BufferedIsServed, Agree(index), [Next]_vars
  PROVE  TypeOK' /\ Queued' /\ BellInv' /\ BufferedIsServed'
<1> USE RunLoopAssumption
<1>1. index' \in Index(Keys, Times) /\ due' \in SUBSET Keys /\ now' \in Times
  BY IndexStep
<1>2. CASE UNCHANGED vars
  BY <1>2 DEF vars, queueVars, bellVars, timeVars, TypeOK, Queued, BellInv,
     BufferedIsServed, Announced, BellComing
<1>3. ASSUME NEW i \in Items, Send(i)
      PROVE  TypeOK' /\ Queued' /\ BellInv' /\ BufferedIsServed'
  <2>1. TypeOK'
    BY <1>1, <1>3 DEF Send, TypeOK, bellVars, timeVars
  <2>2. Queued'
    BY <1>3 DEF Send, TypeOK, Queued
  <2>3. Announced' => Announced
    BY <1>3 DEF Send, TypeOK, Queued, Announced
  <2>4. BellComing => BellComing'
    BY <1>3 DEF Send, TypeOK, BellComing, bellVars
  <2>5. BellInv'
    BY <1>3, <2>3, <2>4 DEF Send, BellInv, bellVars
  <2> QED BY <1>3, <2>1, <2>2, <2>5 DEF Send, BufferedIsServed
<1>4. ASSUME NEW i \in Items, RaiseFlag(i)
      PROVE  TypeOK' /\ Queued' /\ BellInv' /\ BufferedIsServed'
  <2>1. Flag(i) \in {"runtime", "ui"}
    BY DEF Flag
  <2>2. TypeOK'
    BY <1>1, <1>4, <2>1 DEF RaiseFlag, TypeOK, queueVars, timeVars
  <2>3. Queued'
    BY <1>4 DEF RaiseFlag, TypeOK, Queued, queueVars
  <2>4. BellComing'
    BY <1>4 DEF RaiseFlag, TypeOK, BellComing
  <2>5. CASE i \in mail
    <3>1. "runtime" \in flags'
      BY <1>4, <2>5 DEF RaiseFlag, Queued, Flag
    <3> QED BY <1>4, <2>2, <2>3, <2>4, <3>1 DEF RaiseFlag, BellInv, BufferedIsServed, queueVars
  <2>6. CASE i \notin mail
    <3>1. Announced' => Announced
      BY <1>4, <2>6 DEF RaiseFlag, TypeOK, Announced, queueVars
    <3>2. BellInv'
      BY <1>4, <2>4, <3>1 DEF RaiseFlag, BellInv
    <3> QED BY <1>4, <2>2, <2>3, <3>2 DEF RaiseFlag, BufferedIsServed, queueVars
  <2> QED BY <2>5, <2>6
<1>5. ASSUME NEW i \in Items, Ring(i)
      PROVE  TypeOK' /\ Queued' /\ BellInv' /\ BufferedIsServed'
  <2>1. TypeOK'
    BY <1>1, <1>5 DEF Ring, TypeOK, queueVars, timeVars
  <2>2. Queued'
    BY <1>5 DEF Ring, TypeOK, Queued, queueVars
  <2>3. BellComing' /\ (Announced' => Announced)
    BY <1>5 DEF Ring, TypeOK, BellComing, Announced, queueVars
  <2>4. BellInv'
    BY <1>5, <2>3 DEF Ring, BellInv
  <2> QED BY <1>5, <2>1, <2>2, <2>4 DEF Ring, BufferedIsServed, queueVars
<1>6. CASE ClockTicks
  <2>1. TypeOK'
    BY <1>1, <1>6 DEF ClockTicks, TypeOK, queueVars, bellVars
  <2> QED BY <1>6, <2>1 DEF ClockTicks, queueVars, bellVars, Queued, BellInv,
             BufferedIsServed, Announced, BellComing
<1>7. CASE TakeToken
  <2>1. TypeOK'
    BY <1>1, <1>7 DEF TakeToken, TypeOK, queueVars, timeVars, Steps
  <2> QED BY <1>7, <2>1 DEF TakeToken, queueVars, Queued, BellInv,
             BufferedIsServed, Announced, BellComing
<1>8. CASE SwapFlags
  <2>1. TypeOK'
    BY <1>1, <1>8 DEF SwapFlags, TypeOK, queueVars, timeVars, Steps
  <2>2. Announced' => Announced
    BY <1>8 DEF SwapFlags, Announced, queueVars
  <2>3. Announced => "runtime" \in flags
    BY <1>8 DEF SwapFlags, BellInv
  <2> QED BY <1>8, <2>1, <2>2, <2>3 DEF SwapFlags, queueVars, Queued, BellInv,
             BufferedIsServed
<1>9. CASE Poll
  <2>1. ui' \subseteq ui
    BY <1>9 DEF Poll
  <2>2. TypeOK'
    BY <1>1, <1>9, <2>1 DEF Poll, TypeOK, bellVars, timeVars, Steps
  <2>3. Queued'
    BY <1>9, <2>1 DEF Poll, Queued
  <2> QED BY <1>9, <2>2, <2>3 DEF Poll, bellVars, BellInv, BufferedIsServed,
             Announced, BellComing
<1>10. CASE Check
  <2>1. TypeOK'
    BY <1>1, <1>10 DEF Check, TypeOK, queueVars, bellVars, Steps
  <2>2. Queued'
    BY <1>10 DEF Check, Queued, queueVars
  <2>3. Announced' => Announced
    BY <1>10 DEF Check, Announced, queueVars
  <2>4. BellComing' <=> BellComing
    BY <1>10 DEF Check, BellComing, bellVars
  <2>5. CASE Ready
    <3>1. pc' = "update" /\ BufferedIsServed'
      BY <1>10, <2>5 DEF Check, BufferedIsServed
    <3> QED BY <2>1, <2>2, <3>1 DEF BellInv
  <2>6. CASE ~Ready
    <3>1. pc' = "exit" /\ buffered' = {} /\ "runtime" \notin reason
      BY <1>10, <2>6 DEF Check, Ready, queueVars
    <3>2. BellInv'
      BY <1>10, <2>3, <2>4, <3>1 DEF Check, BellInv, bellVars
    <3> QED BY <2>1, <2>2, <3>1, <3>2 DEF BufferedIsServed
  <2> QED BY <2>5, <2>6
<1>11. ASSUME NEW M \in Drains(mail), NEW I \in Drains(inputs), Update(M, I)
       PROVE  TypeOK' /\ Queued' /\ BellInv' /\ BufferedIsServed'
  <2>1. mail' \subseteq mail /\ inputs' \subseteq inputs /\ ui' \subseteq ui
    BY <1>11 DEF Update
  <2>2. ecs' \in 0..Depth
    BY <1>11 DEF Update, TypeOK
  <2>3. flags' \in SUBSET {"runtime", "ui"} /\ token' \in BOOLEAN
    BY <1>11 DEF Update, NotifyIf, TypeOK
  <2>4. TypeOK'
    BY <1>1, <1>11, <2>1, <2>2, <2>3 DEF Update, TypeOK, Steps
  <2>5. Queued'
    BY <1>11, <2>1 DEF Update, Queued
  <2>6. Announced' => "runtime" \in flags' /\ token'
    BY <1>11, <2>2 DEF Update, NotifyIf, Announced
  <2> QED BY <1>11, <2>4, <2>5, <2>6 DEF Update, BellInv, BellComing, BufferedIsServed
<1>12. CASE Exit
  <2>1. TypeOK'
    BY <1>1, <1>12 DEF Exit, TypeOK, queueVars, bellVars, timeVars, Steps
  <2> QED BY <1>12, <2>1 DEF Exit, queueVars, bellVars, Queued, BellInv,
             BufferedIsServed, Announced, BellComing
<1>13. CASE WokenByBell
  <2>1. TypeOK'
    BY <1>1, <1>13 DEF WokenByBell, TypeOK, queueVars, timeVars, Steps
  <2> QED BY <1>13, <2>1 DEF WokenByBell, queueVars, Queued, BellInv,
             BufferedIsServed, Announced, BellComing
<1>14. ASSUME NEW i \in Items, WokenByInput(i)
       PROVE  TypeOK' /\ Queued' /\ BellInv' /\ BufferedIsServed'
  <2>1. TypeOK'
    BY <1>1, <1>14 DEF WokenByInput, TypeOK, bellVars, timeVars, Steps
  <2> QED BY <1>14, <2>1 DEF WokenByInput, bellVars, Queued, BellInv,
             BufferedIsServed, Announced, BellComing
<1>15. CASE WokenByDeadline \/ WokenByTimeout
  <2>1. TypeOK'
    BY <1>1, <1>15 DEF WokenByDeadline, WokenByTimeout, TypeOK, queueVars, bellVars,
       timeVars, Steps
  <2> QED BY <1>15, <2>1 DEF WokenByDeadline, WokenByTimeout, queueVars, bellVars,
             Queued, BellInv, BufferedIsServed, Announced, BellComing
<1> QED
  BY <1>2, <1>3, <1>4, <1>5, <1>6, <1>7, <1>8, <1>9, <1>10, <1>11, <1>12, <1>13,
     <1>14, <1>15 DEF Next, LoopStep

\* The loop's inductive invariant holds in every reachable state.
THEOREM LoopInvariant == Spec => []LoopInv
<1>1. Init => LoopInv
  <2> SUFFICES ASSUME Init PROVE LoopInv
    OBVIOUS
  <2>1. Empty \in Index(Keys, Times) /\ Agree(Empty)
    BY EmptyIndex
  <2>2. 0 \in 0..Depth /\ 0 \in Times
    BY RunLoopAssumption DEF Times
  <2>3. TypeOK
    BY <2>1, <2>2 DEF Init, TypeOK, Steps
  <2> QED BY <2>1, <2>3 DEF Init, LoopInv, Queued, BellInv, Announced,
             BufferedIsServed, NoStaleDeadline
<1>2. LoopInv /\ [Next]_vars => LoopInv'
  <2> SUFFICES ASSUME LoopInv, [Next]_vars PROVE LoopInv'
    OBVIOUS
  <2>1. TypeOK /\ Queued /\ BellInv /\ BufferedIsServed /\ Agree(index)
    BY DEF LoopInv, NoStaleDeadline
  <2>2. TypeOK' /\ Queued' /\ BellInv' /\ BufferedIsServed'
    BY <2>1, BellStep
  <2>3. Agree(index')
    BY <2>1, IndexStep
  <2> QED BY <2>2, <2>3 DEF LoopInv, NoStaleDeadline
<1> QED BY <1>1, <1>2, PTL DEF Spec

\* Types, for every value of the constants.
THEOREM LoopTypeCorrect == Spec => []TypeOK
<1>1. LoopInv => TypeOK
  BY DEF LoopInv
<1> QED BY <1>1, LoopInvariant, PTL

\* No lost wakeup, for any number of producers and any batch size: the loop never
\* blocks on announced work without the flag up and a token in the slot or coming.
THEOREM NoWakeupIsLost == Spec => []NoLostWakeup
<1>1. LoopInv => NoLostWakeup
  BY DEF LoopInv, BellInv, NoLostWakeup
<1> QED BY <1>1, LoopInvariant, PTL

\* Replaced and cleared deadlines never leave an entry behind, for any set of keys.
THEOREM DeadlinesNeverStale == Spec => []NoStaleDeadline
<1>1. LoopInv => NoStaleDeadline
  BY DEF LoopInv
<1> QED BY <1>1, LoopInvariant, PTL

\* What is popped from an index whose halves agree are the deadlines that have
\* passed by the map.
LEMMA DueAre ==
  ASSUME NEW x, NEW t, Agree(x)
  PROVE  \A k : k \in Due(x, t) <=> k \in Armed(x) /\ x.by_key[k] <= t
<1>1. ASSUME NEW k \in Due(x, t)
      PROVE  k \in Armed(x) /\ x.by_key[k] <= t
  <2>1. PICK e \in x.by_time : e[1] <= t /\ e[2] = k
    BY DEF Due, Popped
  <2>2. PICK j \in Armed(x) : e = <<x.by_key[j], j>>
    BY <2>1 DEF Agree
  <2> QED BY <2>1, <2>2
<1>2. ASSUME NEW k \in Armed(x), x.by_key[k] <= t
      PROVE  k \in Due(x, t)
  <2> DEFINE e == <<x.by_key[k], k>>
  <2>1. e \in x.by_time /\ e[1] <= t /\ e[2] = k
    BY <1>2 DEF Agree
  <2> HIDE DEF e
  <2>2. e \in Popped(x, t)
    BY <2>1 DEF Popped
  <2> QED BY <2>1, <2>2 DEF Due
<1> QED BY <1>1, <1>2

\* A deadline fires when its time has come, as it was last set, for any set of
\* keys and any times: what take_due pops in the order of time are the deadlines
\* that the map says have passed.
THEOREM DeadlinesFireOnTime == Spec => FiresOnTime
<1>1. LoopInv /\ [Next]_vars =>
        (pc = "check" /\ pc' # "check" => due' = {k \in Armed(index) : index.by_key[k] <= now})
  <2> SUFFICES ASSUME LoopInv, [Next]_vars, pc = "check", pc' # "check"
               PROVE  due' = {k \in Armed(index) : index.by_key[k] <= now}
    OBVIOUS
  <2>1. due' = Due(index, now)
    BY DEF Next, LoopStep, vars, Send, RaiseFlag, Ring, ClockTicks, TakeToken, SwapFlags, Poll, Check,
           Exit, Update, WokenByBell, WokenByDeadline, WokenByInput, WokenByTimeout
  <2>2. Agree(index)
    BY DEF LoopInv, NoStaleDeadline
  <2>3. \A k : k \in Due(index, now) <=> k \in Armed(index) /\ index.by_key[k] <= now
    BY <2>2, DueAre
  <2> QED BY <2>1, <2>3
<1> QED BY <1>1, LoopInvariant, PTL DEF Spec, FiresOnTime

-----------------------------------------------------------------------------
(* The loop implements the work queue.                                     *)

\* Every step of the loop hands over one payload, serves some, ends the loop, or
\* leaves the abstract queue alone.
LEMMA QueueStep ==
  ASSUME LoopInv, LoopInv', [Next]_vars
  PROVE  [WQ!Next]_(WQ!vars)
<1> DEFINE work == {i \in Items : Kind[i] # "ui"}
           queued == mail \cup inputs \cup buffered
           sent == {i \in Items : Kind[i] # "ui" /\ prod[i] # "idle"}
<1> USE DEF WQ!vars
<1>1. CASE UNCHANGED <<mail, inputs, buffered, prod>> /\ (pc = "stopped" <=> pc' = "stopped")
  BY <1>1
<1>2. ASSUME NEW i \in Items, Send(i)
      PROVE  [WQ!Next]_(WQ!vars)
  <2>1. prod[i] = "idle" /\ pc' = pc /\ buffered' = buffered
    BY <1>2 DEF Send
  <2>2. prod \in [Items -> {"idle", "sent", "raised", "done"}] /\ i \notin queued
    BY <2>1 DEF LoopInv, TypeOK, Queued
  <2>3. prod' = [prod EXCEPT ![i] = prod'[i]] /\ prod'[i] # "idle"
    BY <1>2, <2>2 DEF Send
  <2>4. CASE Kind[i] = "ui"
    <3>1. queued' = queued /\ sent' = sent
      BY <1>2, <2>1, <2>2, <2>3, <2>4 DEF Send
    <3> QED BY <2>1, <3>1
  <2>5. CASE Kind[i] # "ui"
    <3>1. Kind[i] \in {"mail", "input"}
      BY <2>5, RunLoopAssumption
    <3>2. queued' = queued \cup {i}
      BY <1>2, <2>1, <3>1 DEF Send
    <3>3. sent' = sent \cup {i} /\ i \notin sent
      BY <2>1, <2>2, <2>3, <2>5
    <3>4. (sent \ queued)' = sent \ queued
      BY <3>2, <3>3
    <3>5. i \in work \ (queued \cup (sent \ queued))
      BY <2>2, <2>5, <3>3
    <3>6. WQ!Send(i)
      BY <2>1, <3>2, <3>4, <3>5 DEF WQ!Send
    <3> QED BY <2>5, <3>6 DEF WQ!Next
  <2> QED BY <2>4, <2>5
<1>3. ASSUME NEW i \in Items, RaiseFlag(i) \/ Ring(i)
      PROVE  [WQ!Next]_(WQ!vars)
  <2>1. queued' = queued /\ pc' = pc
    BY <1>3 DEF RaiseFlag, Ring, queueVars
  <2>2. sent' = sent
    BY <1>3 DEF RaiseFlag, Ring, LoopInv, TypeOK
  <2> QED BY <2>1, <2>2
<1>4. ASSUME NEW M \in Drains(mail), NEW I \in Drains(inputs), Update(M, I)
      PROVE  [WQ!Next]_(WQ!vars)
  <2> DEFINE T == queued \ queued'
  <2>1. queued' \subseteq queued /\ sent' = sent
    BY <1>4 DEF Update
  <2>2. pc # "stopped" /\ pc' # "stopped"
    BY <1>4 DEF Update
  <2>3. queued \subseteq sent
    BY RunLoopAssumption DEF LoopInv, TypeOK, Queued
  <2>4. T \in SUBSET queued /\ queued' = queued \ T
    BY <2>1
  <2>5. (sent \ queued)' = (sent \ queued) \cup T
    BY <2>1, <2>3, <2>4
  <2>6. CASE T = {}
    BY <2>1, <2>2, <2>6
  <2>7. CASE T # {}
    <3>1. \E R \in SUBSET queued : WQ!Serve(R)
      <4> HIDE DEF T
      <4> QED BY <2>2, <2>4, <2>5, <2>7 DEF WQ!Serve
    <3> QED BY <3>1 DEF WQ!Next
  <2> QED BY <2>6, <2>7
<1>5. CASE Exit
  <2>1. UNCHANGED <<mail, inputs, buffered, prod>> /\ pc # "stopped"
    BY <1>5 DEF Exit, queueVars
  <2>2. CASE pc' = "stopped"
    <3>1. WQ!Close
      BY <2>1, <2>2 DEF WQ!Close
    <3> QED BY <3>1 DEF WQ!Next
  <2>3. CASE pc' # "stopped"
    BY <1>1, <2>1, <2>3
  <2> QED BY <2>2, <2>3
<1>6. ASSUME NEW i \in Items, WokenByInput(i)
      PROVE  [WQ!Next]_(WQ!vars)
  <2>1. queued' = queued /\ sent' = sent /\ pc # "stopped" /\ pc' # "stopped"
    BY <1>6 DEF WokenByInput
  <2> QED BY <2>1
<1>7. CASE ClockTicks \/ TakeToken \/ SwapFlags \/ Poll \/ WokenByBell
             \/ WokenByDeadline \/ WokenByTimeout
  BY <1>1, <1>7 DEF ClockTicks, TakeToken, SwapFlags, Poll, WokenByBell,
     WokenByDeadline, WokenByTimeout, queueVars
<1>8. CASE Check
  <2>1. UNCHANGED <<mail, inputs, buffered, prod>> /\ pc # "stopped" /\ pc' # "stopped"
    BY <1>8 DEF Check, queueVars
  <2> QED BY <1>1, <2>1
<1>9. CASE UNCHANGED vars
  BY <1>1, <1>9 DEF vars, queueVars
<1> QED
  BY <1>2, <1>3, <1>4, <1>5, <1>6, <1>7, <1>8, <1>9 DEF Next, LoopStep

\* The loop, with any number of producers, only takes steps of the work queue:
\* each payload is served at most once, and only after it was handed over.
THEOREM LoopImplementsQueue == Spec => WQ!Init /\ [][WQ!Next]_(WQ!vars)
<1>1. Init => WQ!Init
  BY DEF Init, WQ!Init
<1>2. LoopInv /\ LoopInv' /\ [Next]_vars => [WQ!Next]_(WQ!vars)
  BY QueueStep
<1> QED BY <1>1, <1>2, LoopInvariant, PTL DEF Spec

=============================================================================

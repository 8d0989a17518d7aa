------------------------- MODULE SessionOutput_proofs -------------------------
(***************************************************************************)
(* Proofs about the way of a session's output, for any number of sessions  *)
(* and lines, any sizes of the queue and the poll, and any number of       *)
(* attempts: a session's attempts follow one another and each is answered  *)
(* once, and what a session wrote is recorded without gap or repetition.   *)
(***************************************************************************)
EXTENDS SessionOutput, SequenceTheorems, FiniteSetTheorems, WellFoundedInduction, TLAPS

-----------------------------------------------------------------------------
(* The inductive invariant.                                                *)

\* The backend numbers the lines it reads.
Numbered == \A s \in Sessions : lines[s] <= Writes[s] /\ next[s] <= lines[s] + 1

\* The pending batches of a session are disjoint intervals behind what is
\* recorded, and between the records and the end of a batch nothing is missing.
Chain ==
  /\ \A k \in DOMAIN pending :
       recorded[k[1]] < k[2] /\ k[2] <= pending[k].last /\ pending[k].last < next[k[1]]
  /\ \A j, k \in DOMAIN pending : j[1] = k[1] /\ j[2] < k[2] => pending[j].last < k[2]
  /\ \A k \in DOMAIN pending : \A n \in recorded[k[1]] + 1..pending[k].last :
       \E j \in DOMAIN pending : j[1] = k[1] /\ j[2] <= n /\ n <= pending[j].last

\* The backend has forgotten what is recorded and no more, or the first batch as
\* well when only the answer to its acknowledgement was lost.
Forgets ==
  \A s \in Sessions :
    /\ recorded[s] < front[s]
    /\ \/ front[s] = recorded[s] + 1
       \/ \E k \in DOMAIN pending : /\ k[1] = s /\ k[2] = recorded[s] + 1
                                    /\ front[s] = pending[k].last + 1 /\ pending[k].state \in Finished
    /\ s \notin kept => next[s] <= front[s]

Awaits(k, a) == k \in DOMAIN pending /\ pending[k].state = "awaiting" /\ pending[k].attempt = a

\* The entries of a queue are the current attempts on their batches.
Current(q) == \A i \in DOMAIN q : Awaits(q[i].key, q[i].attempt) /\ q[i].last = pending[q[i].key].last

\* No two of the attempts under way are on one batch.
Apart ==
  /\ \A i, j \in DOMAIN outbound : outbound[i].key = outbound[j].key => i = j
  /\ \A i \in DOMAIN outbound, j \in DOMAIN holding : outbound[i].key # holding[j].key
  /\ \A r \in receipts : /\ \A i \in DOMAIN outbound : outbound[i].key # r.key
                         /\ \A i \in DOMAIN holding : holding[i].key # r.key
  /\ \A q, r \in receipts : q.key = r.key => q = r

\* A batch that awaits an answer has an attempt under way, and is the first.
Underway(k) ==
  \/ \E i \in DOMAIN outbound : outbound[i].key = k
  \/ \E i \in DOMAIN holding : holding[i].key = k
  \/ \E r \in receipts : r.key = k

FirstAwaits ==
  \A k \in DOMAIN pending : pending[k].state = "awaiting" =>
    Underway(k) /\ \A j \in DOMAIN pending : j[1] = k[1] => k[2] <= j[2]

\* What a good receipt or a delivered batch stands for is confirmed.
Confirmations ==
  /\ \A r \in receipts : r.ok => EventsOf(r.key, pending[r.key].last) \subseteq confirmed
  /\ \A k \in DOMAIN pending :
       pending[k].state = "delivered" => EventsOf(k, pending[k].last) \subseteq confirmed

\* What may be tried again has attempts left.
Budget ==
  \A k \in DOMAIN pending :
    pending[k].state \in {"collecting", "retry"} => pending[k].attempt < MaxAttempts

Attempts ==
  /\ Current(outbound) /\ Current(holding) /\ Budget
  /\ \A r \in receipts : Awaits(r.key, r.attempt)
  /\ Apart /\ FirstAwaits

OutputInv == TypeOK /\ Numbered /\ Chain /\ Forgets /\ Attempts /\ Confirmations

-----------------------------------------------------------------------------
(* Sets of numbers, and finite sets.                                       *)

LEMMA SmallestOf ==
  ASSUME NEW S \in SUBSET Nat, S # {}
  PROVE  \E i \in S : \A j \in S : i <= j
<1>1. PICK i \in S : \A j \in S : ~ (<<j, i>> \in OpToRel(<, Nat))
  BY NatLessThanWellFounded, WFMin
<1>2. \A j \in S : ~(j < i)
  BY <1>1 DEF OpToRel
<1> QED BY <1>2

\* A set of numbers that has a bound has a largest one.
LEMMA LargestOf ==
  ASSUME NEW S \in SUBSET Nat, S # {}, NEW b \in Nat, \A i \in S : i <= b
  PROVE  \E i \in S : \A j \in S : j <= i
<1> DEFINE D == {d \in Nat : \E i \in S : i + d = b}
<1>1. D \in SUBSET Nat /\ D # {}
  <2>1. PICK i \in S : i \in Nat /\ i <= b
    OBVIOUS
  <2>2. b - i \in Nat /\ i + (b - i) = b
    BY <2>1
  <2>3. b - i \in D
    BY <2>1, <2>2
  <2> QED BY <2>3
<1>2. PICK d \in D : \A e \in D : d <= e
  <2> HIDE DEF D
  <2> QED BY <1>1, SmallestOf
<1>3. PICK i \in S : i + d = b
  OBVIOUS
<1>4. ASSUME NEW j \in S
      PROVE  j <= i
  <2>1. b - j \in Nat /\ j + (b - j) = b
    OBVIOUS
  <2>2. d <= b - j
    BY <2>1, <1>2
  <2> QED BY <2>1, <2>2, <1>1, <1>3
<1> QED BY <1>4

\* Of any sets of elements of a finite set, one has no smaller one by one
\* element among them (what an induction over finite sets rests on).
LEMMA SmallestSet ==
  ASSUME NEW S, IsFiniteSet(S), NEW F \in SUBSET (SUBSET S), F # {}
  PROVE  \E T \in F : \A x \in T : T \ {x} \notin F
<1>1. IsWellFoundedOn(StrictSubsetOrdering(S), SUBSET S)
  BY FS_StrictSubsetOrderingWellFounded, FS_FiniteSubsetsOfFinite
<1>2. PICK T \in F : \A U \in F : ~ (<<U, T>> \in StrictSubsetOrdering(S))
  BY <1>1, WFMin
<1>3. ASSUME NEW x \in T, T \ {x} \in F
      PROVE  FALSE
  <2>1. T \ {x} \subseteq T /\ T \ {x} # T
    OBVIOUS
  <2>2. <<T \ {x}, T>> \in StrictSubsetOrdering(S)
    BY <2>1, <1>3 DEF StrictSubsetOrdering
  <2> QED BY <2>2, <1>2, <1>3
<1> QED BY <1>3

\* A finite set that a relation orders has a last element.
LEMMA LastOfFinite ==
  ASSUME NEW S, IsFiniteSet(S), S # {}, NEW R,
         \A x, y \in S : x # y => <<x, y>> \in R \/ <<y, x>> \in R,
         \A x, y, z \in S : <<x, y>> \in R /\ <<y, z>> \in R => <<x, z>> \in R
  PROVE  \E e \in S : \A f \in S \ {e} : <<f, e>> \in R
<1> DEFINE Has(T) == \E e \in T : \A f \in T \ {e} : <<f, e>> \in R
           F == {T \in SUBSET S : T # {} /\ ~Has(T)}
<1>1. SUFFICES ASSUME F # {} PROVE FALSE
  OBVIOUS
<1>2. PICK T \in F : \A x \in T : T \ {x} \notin F
  <2>1. F \in SUBSET (SUBSET S)
    OBVIOUS
  <2> HIDE DEF F
  <2> QED BY <1>1, <2>1, SmallestSet
<1>3. PICK x \in T : TRUE
  BY <1>2
<1>4. CASE T \ {x} = {}
  BY <1>2, <1>3, <1>4
<1>5. CASE T \ {x} # {}
  <2>1. T \ {x} \in SUBSET S /\ Has(T \ {x})
    BY <1>2, <1>3, <1>5
  <2>2. PICK y \in T \ {x} : \A f \in (T \ {x}) \ {y} : <<f, y>> \in R
    BY <2>1
  <2>3. x \in S /\ y \in S /\ T \in SUBSET S
    BY <2>1, <2>2, <1>2, <1>3
  <2>4. CASE <<x, y>> \in R
    <3>1. \A f \in T \ {y} : <<f, y>> \in R
      BY <2>2, <2>4
    <3> QED BY <3>1, <2>2, <1>2
  <2>5. CASE <<y, x>> \in R
    <3>1. ASSUME NEW f \in T \ {x}
          PROVE  <<f, x>> \in R
      <4>1. CASE f = y
        BY <4>1, <2>5
      <4>2. CASE f # y
        BY <4>2, <2>2, <2>3, <2>5
      <4> QED BY <4>1, <4>2
    <3> QED BY <3>1, <1>3, <1>2
  <2> QED BY <2>2, <2>3, <2>4, <2>5
<1> QED BY <1>4, <1>5

-----------------------------------------------------------------------------
(* Keys and batches.                                                       *)

\* Finitely many numbers have a largest one.
LEMMA LargestOfFinite ==
  ASSUME NEW S \in SUBSET Nat, S # {}, IsFiniteSet(S)
  PROVE  \E i \in S : \A j \in S : j <= i
<1> DEFINE R == {p \in Nat \X Nat : p[1] < p[2]}
<1>1. \A x, y \in S : <<x, y>> \in R <=> x < y
  OBVIOUS
<1>2. \A x, y \in S : x # y => <<x, y>> \in R \/ <<y, x>> \in R
  BY <1>1
<1>3. \A x, y, z \in S : <<x, y>> \in R /\ <<y, z>> \in R => <<x, z>> \in R
  BY <1>1
<1> HIDE DEF R
<1>4. PICK e \in S : \A f \in S \ {e} : <<f, e>> \in R
  BY <1>2, <1>3, LastOfFinite
<1>5. ASSUME NEW f \in S
      PROVE  f <= e
  <2>1. f = e \/ f < e
    BY <1>1, <1>4
  <2>2. f \in Nat /\ e \in Nat
    OBVIOUS
  <2> QED BY <2>1, <2>2
<1> QED BY <1>5

\* The lines are those of the session that writes the most.
LEMMA LinesAre ==
  /\ Lines \subseteq Nat \ {0} /\ IsFiniteSet(Lines)
  /\ \A n \in Lines : 1..n \subseteq Lines
  /\ \A s \in Sessions : Writes[s] \in Nat /\ 1..Writes[s] \subseteq Lines
<1> DEFINE counts == {Writes[s] : s \in Sessions} \cup {0}
           wrote == [s \in Sessions |-> Writes[s]]
           values == {Writes[s] : s \in Sessions}
<1>1. \A s \in Sessions : Writes[s] \in Nat
  BY SessionOutputAssumption
<1>2. IsFiniteSet(values)
  <2>1. wrote \in Surjection(Sessions, values)
    <3>1. wrote \in [Sessions -> values]
      OBVIOUS
    <3>2. \A t \in values : \E s \in Sessions : wrote[s] = t
      OBVIOUS
    <3> QED BY <3>1, <3>2 DEF Surjection
  <2> HIDE DEF wrote, values
  <2> QED BY <2>1, FS_Surjection, SessionOutputAssumption
<1>3. counts \in SUBSET Nat /\ 0 \in counts /\ IsFiniteSet(counts)
  <2>1. counts \in SUBSET Nat /\ 0 \in counts /\ counts = values \cup {0}
    BY <1>1
  <2> HIDE DEF counts, values
  <2> QED BY <2>1, <1>2, FS_AddElement
<1>4. \E i \in counts : \A j \in counts : j <= i
  <2> HIDE DEF counts
  <2> QED BY <1>3, LargestOfFinite
<1>5. PICK most \in counts : Lines = 1..most /\ \A j \in counts : j <= most
  BY <1>4 DEF Lines
<1>6. most \in Nat /\ \A s \in Sessions : Writes[s] <= most
  BY <1>3, <1>5
<1>7. IsFiniteSet(1..most)
  <2>1. 1 \in Int /\ most \in Int
    BY <1>6
  <2> QED BY <2>1, FS_Interval
<1> HIDE DEF counts
<1> QED BY <1>1, <1>5, <1>6, <1>7

\* A key is a session and a line.
LEMMA KeyIs ==
  ASSUME NEW k \in Keys
  PROVE  /\ k[1] \in Sessions /\ k[2] \in Lines /\ k[2] \in Nat /\ k[2] > 0
         /\ k = <<k[1], k[2]>>
<1>1. k[1] \in Sessions /\ k[2] \in Lines /\ k = <<k[1], k[2]>>
  BY DEF Keys
<1> QED BY <1>1, LinesAre

LEMMA BatchIs ==
  ASSUME NEW b \in Batch
  PROVE  /\ b.last \in Lines /\ b.last \in Nat /\ b.attempt \in 0..MaxAttempts /\ b.attempt \in Nat
         /\ b.due \in BOOLEAN
         /\ b.state \in {"collecting", "awaiting", "retry", "delivered", "failed", "terminated"}
<1>1. /\ b.last \in Lines /\ b.attempt \in 0..MaxAttempts /\ b.due \in BOOLEAN
      /\ b.state \in {"collecting", "awaiting", "retry", "delivered", "failed", "terminated"}
  BY DEF Batch
<1>2. b.last \in Nat
  BY <1>1, LinesAre
<1>3. b.attempt \in Nat
  BY <1>1, SessionOutputAssumption
<1> QED BY <1>1, <1>2, <1>3

\* What the invariant says of the types of keys, batches and counters.
LEMMA Types ==
  ASSUME OutputInv
  PROVE  /\ DOMAIN pending \subseteq Keys
         /\ \A k \in DOMAIN pending :
              /\ k[1] \in Sessions /\ k[2] \in Lines /\ k[2] \in Nat /\ k[2] > 0 /\ k = <<k[1], k[2]>>
              /\ pending[k] \in Batch /\ pending[k].last \in Lines /\ pending[k].last \in Nat
         /\ \A s \in Sessions : /\ recorded[s] \in Nat /\ front[s] \in Nat /\ front[s] > 0
                                /\ next[s] \in Nat /\ next[s] > 0 /\ lines[s] \in Nat
<1>1. /\ DOMAIN pending \subseteq Keys /\ \A k \in DOMAIN pending : pending[k] \in Batch
      /\ recorded \in [Sessions -> Nat] /\ front \in [Sessions -> Nat \ {0}]
      /\ next \in [Sessions -> Nat \ {0}] /\ lines \in [Sessions -> Nat]
  BY DEF OutputInv, TypeOK
<1>2. \A k \in DOMAIN pending : /\ k[1] \in Sessions /\ k[2] \in Lines /\ k[2] \in Nat /\ k[2] > 0
                                /\ k = <<k[1], k[2]>>
  BY <1>1, KeyIs
<1>3. \A k \in DOMAIN pending : pending[k].last \in Lines /\ pending[k].last \in Nat
  BY <1>1, BatchIs
<1>4. \A s \in Sessions : /\ recorded[s] \in Nat /\ front[s] \in Nat /\ front[s] > 0
                          /\ next[s] \in Nat /\ next[s] > 0 /\ lines[s] \in Nat
  BY <1>1
<1> QED BY <1>1, <1>2, <1>3, <1>4

\* The events of a session up to a line that a batch has are keys.
LEMMA EventsAreKeys ==
  ASSUME NEW k \in Keys, NEW last \in Lines
  PROVE  /\ EventsOf(k, last) \subseteq Keys
         /\ \A e : e \in EventsOf(k, last) <=> e \in Keys /\ e[1] = k[1] /\ k[2] <= e[2] /\ e[2] <= last
<1>1. k[1] \in Sessions /\ k[2] \in Nat /\ k[2] > 0 /\ last \in Nat /\ 1..last \subseteq Lines
  BY KeyIs, LinesAre
<1>2. k[2]..last \subseteq Lines
  BY <1>1
<1>3. ASSUME NEW e \in EventsOf(k, last)
      PROVE  e \in Keys /\ e[1] = k[1] /\ k[2] <= e[2] /\ e[2] <= last
  <2>1. PICK n \in k[2]..last : e = <<k[1], n>>
    BY DEF EventsOf
  <2>2. e[1] = k[1] /\ e[2] = n /\ e \in Keys
    BY <2>1, <1>1, <1>2 DEF Keys
  <2> QED BY <2>1, <2>2, <1>1
<1>4. ASSUME NEW e \in Keys, e[1] = k[1], k[2] <= e[2], e[2] <= last
      PROVE  e \in EventsOf(k, last)
  <2>1. e = <<k[1], e[2]>> /\ e[2] \in Nat
    BY <1>4, KeyIs
  <2>2. e[2] \in k[2]..last
    BY <2>1, <1>1, <1>4
  <2> QED BY <2>1, <2>2 DEF EventsOf
<1> QED BY <1>3, <1>4

-----------------------------------------------------------------------------
(* What the batches' own steps leave alone.                                *)

\* No batch begins, ends, is extended or is tried.
Alike ==
  /\ DOMAIN pending' = DOMAIN pending
  /\ \A k \in DOMAIN pending :
       /\ pending'[k].last = pending[k].last /\ pending'[k].attempt = pending[k].attempt
       /\ pending'[k].state = "awaiting" <=> pending[k].state = "awaiting"
       /\ pending[k].state \in Finished => pending'[k].state \in Finished
       /\ pending'[k].state = "delivered" => pending[k].state = "delivered"
       /\ pending'[k].state \in {"collecting", "retry"} => pending[k].state \in {"collecting", "retry"}

LEMMA ChainKept ==
  ASSUME OutputInv, DOMAIN pending' = DOMAIN pending, recorded' = recorded,
         \A k \in DOMAIN pending : pending'[k].last = pending[k].last,
         \A s \in Sessions : next'[s] \in Nat /\ next[s] <= next'[s]
  PROVE  Chain'
<1>1. \A k \in DOMAIN pending : /\ k[1] \in Sessions /\ pending[k].last \in Nat
                                /\ next[k[1]] \in Nat /\ next'[k[1]] \in Nat /\ next[k[1]] <= next'[k[1]]
  BY Types
<1>2. \A k \in DOMAIN pending' :
        recorded'[k[1]] < k[2] /\ k[2] <= pending'[k].last /\ pending'[k].last < next'[k[1]]
  BY <1>1 DEF OutputInv, Chain
<1>3. \A j, k \in DOMAIN pending' : j[1] = k[1] /\ j[2] < k[2] => pending'[j].last < k[2]
  BY DEF OutputInv, Chain
<1>4. \A k \in DOMAIN pending' : \A n \in recorded'[k[1]] + 1..pending'[k].last :
        \E j \in DOMAIN pending' : j[1] = k[1] /\ j[2] <= n /\ n <= pending'[j].last
  BY DEF OutputInv, Chain
<1> QED BY <1>2, <1>3, <1>4 DEF Chain

LEMMA AttemptsKept ==
  ASSUME OutputInv, Alike, UNCHANGED <<outbound, holding, receipts, confirmed>>
  PROVE  Attempts' /\ Confirmations'
<1>1. /\ Current(outbound) /\ Current(holding) /\ \A r \in receipts : Awaits(r.key, r.attempt)
      /\ Apart /\ FirstAwaits /\ Confirmations /\ Budget
  BY DEF OutputInv, Attempts
<1>2. \A k, a : Awaits(k, a) => Awaits(k, a)'
  BY DEF Awaits, Alike
<1>3. Current(outbound)' /\ Current(holding)'
  BY <1>1, <1>2 DEF Current, Awaits, Alike
<1>4. \A r \in receipts' : Awaits(r.key, r.attempt)'
  BY <1>1, <1>2
<1>5. Apart'
  BY <1>1 DEF Apart
<1>6. FirstAwaits'
  BY <1>1 DEF FirstAwaits, Underway, Alike
<1>7. \A r \in receipts' : r.ok => EventsOf(r.key, pending'[r.key].last) \subseteq confirmed'
  BY <1>1 DEF Confirmations, Awaits, Alike
<1>8. \A k \in DOMAIN pending' :
        pending'[k].state = "delivered" => EventsOf(k, pending'[k].last) \subseteq confirmed'
  BY <1>1 DEF Confirmations, Alike
<1>9. Budget'
  BY <1>1 DEF Budget, Alike
<1> QED BY <1>3, <1>4, <1>5, <1>6, <1>7, <1>8, <1>9 DEF Attempts, Confirmations

LEMMA ForgetsKept ==
  ASSUME OutputInv, Alike, UNCHANGED <<recorded, front>>,
         \A s \in Sessions : s \notin kept' => next'[s] <= front[s]
  PROVE  Forgets'
<1> SUFFICES ASSUME NEW s \in Sessions
             PROVE  \/ front[s] = recorded[s] + 1
                    \/ \E k \in DOMAIN pending' : /\ k[1] = s /\ k[2] = recorded[s] + 1
                                                  /\ front[s] = pending'[k].last + 1
                                                  /\ pending'[k].state \in Finished
  BY DEF OutputInv, Forgets
<1>1. CASE front[s] = recorded[s] + 1
  BY <1>1
<1>2. CASE front[s] # recorded[s] + 1
  <2>1. PICK k \in DOMAIN pending : /\ k[1] = s /\ k[2] = recorded[s] + 1
                                    /\ front[s] = pending[k].last + 1 /\ pending[k].state \in Finished
    BY <1>2 DEF OutputInv, Forgets
  <2>2. k \in DOMAIN pending' /\ pending'[k].last = pending[k].last /\ pending'[k].state \in Finished
    BY <2>1 DEF Alike
  <2> QED BY <2>1, <2>2
<1> QED BY <1>1, <1>2

LEMMA QueuedIs ==
  ASSUME NEW s \in Sessions, OutputInv
  PROVE  /\ Queued(s) = {} <=> next[s] <= front[s]
         /\ \A n : n \in Queued(s) <=> n \in Nat /\ front[s] <= n /\ n < next[s]
<1>1. next[s] \in Nat /\ next[s] > 0 /\ front[s] \in Nat
  BY Types
<1>2. \A n : n \in Queued(s) <=> n \in Nat /\ front[s] <= n /\ n < next[s]
  BY <1>1 DEF Queued
<1>3. next[s] <= front[s] => Queued(s) = {}
  BY <1>1, <1>2
<1>4. ~(next[s] <= front[s]) => front[s] \in Queued(s)
  BY <1>1, <1>2
<1> QED BY <1>2, <1>3, <1>4

\* The batches and what is under way are untouched.
Untouched == UNCHANGED <<keys, pending, outbound, holding, receipts, recorded, confirmed>>

LEMMA UntouchedAlike == ASSUME Untouched PROVE Alike
BY DEF Untouched, Alike

LEMMA UntouchedKept ==
  ASSUME OutputInv, Untouched, UNCHANGED <<front, next, lines, kept, cursor>>, TypeOK'
  PROVE  OutputInv'
<1>1. Alike
  BY UntouchedAlike
<1>2. Chain'
  <2>1. \A s \in Sessions : next'[s] \in Nat /\ next[s] <= next'[s]
    BY Types
  <2> QED BY <2>1, <1>1, ChainKept DEF Untouched, Alike
<1>3. Attempts' /\ Confirmations'
  BY <1>1, AttemptsKept DEF Untouched
<1>4. Forgets'
  BY <1>1, ForgetsKept DEF Untouched, OutputInv, Forgets
<1>5. Numbered'
  BY DEF OutputInv, Numbered
<1> QED BY <1>2, <1>3, <1>4, <1>5 DEF OutputInv

-----------------------------------------------------------------------------
(* The backend's actions, the end of a task, and the flags of the manager. *)

LEMMA ReadLineStep ==
  ASSUME OutputInv, NEW s \in Sessions, ReadLine(s)
  PROVE  OutputInv'
<1>1. /\ lines[s] < Writes[s] /\ lines' = [lines EXCEPT ![s] = @ + 1]
      /\ UNCHANGED <<process, kept, front, stopped, cursor, keys, pending, receipts, ended, outbound,
                     sender, holding, closing, signalled, recorded, confirmed>>
      /\ overflow' \in {overflow, overflow \cup {s}} /\ reading' \in {reading, reading \ {s}}
      /\ \/ s \in kept /\ next' = [next EXCEPT ![s] = @ + 1]
         \/ next' = next
  BY DEF ReadLine, monitorVars, senderVars, history
<1>2. Untouched /\ Alike
  BY <1>1, UntouchedAlike DEF Untouched
<1>3. lines \in [Sessions -> Nat] /\ next \in [Sessions -> Nat \ {0}] /\ Writes[s] \in Nat
  BY LinesAre DEF OutputInv, TypeOK
<1>4. lines' \in [Sessions -> Nat] /\ next' \in [Sessions -> Nat \ {0}]
  BY <1>1, <1>3
<1>5. TypeOK'
  BY <1>1, <1>4 DEF OutputInv, TypeOK
<1>6. \A t \in Sessions : next'[t] \in Nat /\ next[t] <= next'[t] /\ (t \notin kept => next'[t] = next[t])
  BY <1>1, <1>3
<1>7. Chain'
  BY <1>1, <1>2, <1>6, ChainKept DEF Alike
<1>8. Attempts' /\ Confirmations'
  BY <1>1, <1>2, AttemptsKept
<1>9. Forgets'
  BY <1>1, <1>2, <1>6, ForgetsKept DEF OutputInv, Forgets
<1>10. Numbered'
  <2> SUFFICES ASSUME NEW t \in Sessions
               PROVE  lines'[t] <= Writes[t] /\ next'[t] <= lines'[t] + 1
    BY DEF Numbered
  <2>1. lines[t] \in Nat /\ next[t] \in Nat /\ lines[t] <= Writes[t] /\ next[t] <= lines[t] + 1
    BY <1>3 DEF OutputInv, Numbered
  <2> QED BY <2>1, <1>1, <1>3
<1> QED BY <1>5, <1>7, <1>8, <1>9, <1>10 DEF OutputInv

LEMMA ExitStep ==
  ASSUME OutputInv, NEW s \in Sessions, Exit(s) \/ EndOfPipe(s)
  PROVE  OutputInv'
<1>1. Untouched /\ UNCHANGED <<front, next, lines, kept, cursor>>
  BY DEF Exit, EndOfPipe, Untouched, monitorVars, senderVars, history
<1>2. TypeOK'
  BY DEF Exit, EndOfPipe, monitorVars, senderVars, history, OutputInv, TypeOK
<1> QED BY <1>1, <1>2, UntouchedKept

LEMMA RecordFinishedStep ==
  ASSUME OutputInv, NEW s \in Sessions, RecordFinished(s)
  PROVE  OutputInv'
<1>1. /\ process' = [process EXCEPT ![s] = "over"]
      /\ kept' = IF Queued(s) = {} THEN kept \ {s} ELSE kept
      /\ UNCHANGED <<reading, lines, front, next, overflow, stopped, cursor, keys, pending, receipts,
                     ended, outbound, sender, holding, closing, signalled, recorded, confirmed>>
  BY DEF RecordFinished, monitorVars, senderVars, history
<1>2. Untouched /\ Alike
  BY <1>1, UntouchedAlike DEF Untouched
<1>3. TypeOK'
  BY <1>1 DEF OutputInv, TypeOK
<1>4. Chain'
  <2>1. \A t \in Sessions : next'[t] \in Nat /\ next[t] <= next'[t]
    BY <1>1, Types
  <2> QED BY <2>1, <1>1, <1>2, ChainKept DEF Alike
<1>5. Attempts' /\ Confirmations'
  BY <1>1, <1>2, AttemptsKept
<1>6. Forgets'
  <2>1. ASSUME NEW t \in Sessions, t \notin kept'
        PROVE  next'[t] <= front[t]
    <3>1. CASE t \notin kept
      BY <3>1, <1>1 DEF OutputInv, Forgets
    <3>2. CASE t \in kept
      <4>1. t = s /\ Queued(s) = {}
        BY <3>2, <2>1, <1>1
      <4> QED BY <4>1, <1>1, QueuedIs
    <3> QED BY <3>1, <3>2
  <2> QED BY <2>1, <1>1, <1>2, ForgetsKept
<1>7. Numbered'
  BY <1>1 DEF OutputInv, Numbered
<1> QED BY <1>3, <1>4, <1>5, <1>6, <1>7 DEF OutputInv

LEMMA FlagStep ==
  ASSUME OutputInv, CheckClosing \/ WakeToClose \/ Close \/ Signal \/ \E s \in Sessions : TaskEnds(s)
  PROVE  OutputInv'
<1>1. Untouched /\ UNCHANGED <<front, next, lines, kept, cursor>>
  BY DEF CheckClosing, WakeToClose, Close, Signal, TaskEnds, Untouched, backendVars, monitorVars,
         senderVars, history
<1>2. TypeOK'
  <2>1. UNCHANGED <<backendVars, keys, pending, receipts, outbound, holding, recorded, confirmed>>
    BY DEF CheckClosing, WakeToClose, Close, Signal, TaskEnds, monitorVars, senderVars, history
  <2>2. ended' \subseteq Sessions /\ closing' \in BOOLEAN /\ signalled' \in BOOLEAN
    BY DEF CheckClosing, WakeToClose, Close, Signal, TaskEnds, senderVars, OutputInv, TypeOK
  <2>3. /\ sender' \in {"check", "wait", "send", "closed"}
        /\ sender' = sender \/ (sender # "send" /\ sender' # "send")
    BY DEF CheckClosing, WakeToClose, Close, Signal, TaskEnds, senderVars, OutputInv, TypeOK
  <2>4. Len(holding') = (IF sender' = "send" THEN 1 ELSE 0)
    BY <2>1, <2>3 DEF OutputInv, TypeOK
  <2> QED BY <2>1, <2>2, <2>3, <2>4 DEF OutputInv, TypeOK, backendVars
<1> QED BY <1>1, <1>2, UntouchedKept

-----------------------------------------------------------------------------
(* One batch at a time: the monitor's steps on it.                         *)

\* A first batch begins where the records end, and the others are behind it.
LEMMA FirstIs ==
  ASSUME OutputInv, NEW k \in DOMAIN pending, ~Earlier(k)
  PROVE  /\ k[2] = recorded[k[1]] + 1
         /\ \A j \in DOMAIN pending : j[1] = k[1] => j = k \/ pending[k].last < j[2]
<1>1. /\ k[1] \in Sessions /\ k[2] \in Nat /\ pending[k].last \in Nat /\ recorded[k[1]] \in Nat
      /\ recorded[k[1]] < k[2] /\ k[2] <= pending[k].last
  BY Types DEF OutputInv, Chain
<1>2. \A j \in DOMAIN pending : j[1] = k[1] => ~(j[2] < k[2])
  BY DEF Earlier, Of
<1>3. recorded[k[1]] + 1 \in recorded[k[1]] + 1..pending[k].last
  BY <1>1
<1>4. PICK j \in DOMAIN pending : j[1] = k[1] /\ j[2] <= recorded[k[1]] + 1
  BY <1>3 DEF OutputInv, Chain
<1>5. j[2] \in Nat
  BY Types
<1>6. k[2] = recorded[k[1]] + 1
  BY <1>1, <1>2, <1>4, <1>5
<1>7. ASSUME NEW i \in DOMAIN pending, i[1] = k[1], i # k
      PROVE  pending[k].last < i[2]
  <2>1. i[2] \in Nat /\ i = <<i[1], i[2]>> /\ k = <<k[1], k[2]>>
    BY Types
  <2>2. i[2] # k[2]
    BY <2>1, <1>7
  <2>3. k[2] < i[2]
    BY <2>1, <2>2, <1>1, <1>2, <1>7
  <2> QED BY <2>3, <1>7 DEF OutputInv, Chain
<1> QED BY <1>6, <1>7

\* The batches of a session have no event in common.
LEMMA EventsApart ==
  ASSUME OutputInv, NEW j \in DOMAIN pending, NEW k \in DOMAIN pending, j # k
  PROVE  EventsOf(j, pending[j].last) \cap EventsOf(k, pending[k].last) = {}
<1>1. /\ j \in Keys /\ k \in Keys /\ pending[j].last \in Lines /\ pending[k].last \in Lines
      /\ j[2] \in Nat /\ k[2] \in Nat /\ pending[j].last \in Nat /\ pending[k].last \in Nat
      /\ j = <<j[1], j[2]>> /\ k = <<k[1], k[2]>>
  BY Types
<1>2. SUFFICES ASSUME NEW e \in EventsOf(j, pending[j].last), e \in EventsOf(k, pending[k].last)
               PROVE  FALSE
  OBVIOUS
<1>3. /\ e \in Keys /\ e[1] = j[1] /\ j[2] <= e[2] /\ e[2] <= pending[j].last
      /\ e[1] = k[1] /\ k[2] <= e[2] /\ e[2] <= pending[k].last
  BY <1>1, <1>2, EventsAreKeys
<1>4. e[2] \in Nat /\ j[2] # k[2]
  BY <1>1, <1>3, KeyIs
<1>5. /\ j[2] < k[2] => pending[j].last < k[2]
      /\ k[2] < j[2] => pending[k].last < j[2]
  BY <1>3 DEF OutputInv, Chain
<1> QED BY <1>1, <1>3, <1>4, <1>5

LEMMA TurnIs ==
  ASSUME OutputInv, NEW k, Turn(k)
  PROVE  /\ k \in DOMAIN pending /\ k \in keys /\ keys' = keys \ {k} /\ keys' \subseteq DOMAIN pending
         /\ k[1] \in Sessions
BY Types DEF Turn, OutputInv, TypeOK

\* Seen changes nothing that the invariant looks at.
LEMMA SeenAlike ==
  ASSUME OutputInv, NEW k \in DOMAIN pending, pending' = [pending EXCEPT ![k] = Seen(k)]
  PROVE  Alike /\ \A j \in DOMAIN pending' : pending'[j] \in Batch
<1>1. pending[k] \in Batch
  BY Types
<1>2. /\ Seen(k) \in Batch /\ Seen(k).last = pending[k].last /\ Seen(k).attempt = pending[k].attempt
      /\ Seen(k).state = "awaiting" <=> pending[k].state = "awaiting"
      /\ pending[k].state \in Finished => Seen(k).state \in Finished
      /\ Seen(k).state = "delivered" => pending[k].state = "delivered"
      /\ Seen(k).state \in {"collecting", "retry"} => pending[k].state \in {"collecting", "retry"}
  BY <1>1 DEF Seen, Batch, Finished
<1>3. \A j \in DOMAIN pending : pending[j] \in Batch
  BY Types
<1>4. /\ DOMAIN pending' = DOMAIN pending
      /\ \A j \in DOMAIN pending : pending'[j] = IF j = k THEN Seen(k) ELSE pending[j]
  OBVIOUS
<1> HIDE DEF Seen
<1> QED BY <1>2, <1>3, <1>4 DEF Alike

LEMMA KeepStep ==
  ASSUME OutputInv, NEW k \in DOMAIN pending, Keep(k)
  PROVE  OutputInv'
<1>1. /\ pending' = [pending EXCEPT ![k] = Seen(k)] /\ Turn(k)
      /\ UNCHANGED <<process, reading, lines, kept, front, next, overflow, stopped, cursor, receipts,
                     ended, outbound, sender, holding, closing, signalled, recorded, confirmed>>
  BY DEF Keep, backendVars, senderVars, history
<1>2. Alike /\ \A j \in DOMAIN pending' : pending'[j] \in Batch
  BY <1>1, SeenAlike
<1>3. keys' \subseteq DOMAIN pending'
  BY <1>1, <1>2, TurnIs DEF Alike
<1>4. TypeOK'
  BY <1>1, <1>2, <1>3 DEF OutputInv, TypeOK, Alike
<1>5. Chain'
  <2>1. \A s \in Sessions : next'[s] \in Nat /\ next[s] <= next'[s]
    BY <1>1, Types
  <2> QED BY <2>1, <1>1, <1>2, ChainKept DEF Alike
<1>6. Attempts' /\ Confirmations'
  BY <1>1, <1>2, AttemptsKept
<1>7. Forgets'
  BY <1>1, <1>2, ForgetsKept DEF OutputInv, Forgets
<1>8. Numbered'
  BY <1>1 DEF OutputInv, Numbered
<1> QED BY <1>4, <1>5, <1>6, <1>7, <1>8 DEF OutputInv

LEMMA ElapseStep ==
  ASSUME OutputInv, NEW k, Elapse(k)
  PROVE  OutputInv'
<1>1. /\ pending' = [pending EXCEPT ![k].due = TRUE] /\ k \in DOMAIN pending
      /\ UNCHANGED <<process, reading, lines, kept, front, next, overflow, stopped, cursor, keys, receipts,
                     ended, outbound, sender, holding, closing, signalled, recorded, confirmed>>
  BY DEF Elapse, backendVars, senderVars, history
<1>2. Alike /\ \A j \in DOMAIN pending' : pending'[j] \in Batch
  <2>1. \A j \in DOMAIN pending : pending[j] \in Batch
    BY Types
  <2>2. /\ DOMAIN pending' = DOMAIN pending
        /\ \A j \in DOMAIN pending : pending'[j] = IF j = k THEN [pending[k] EXCEPT !.due = TRUE] ELSE pending[j]
    BY <1>1
  <2>3. /\ [pending[k] EXCEPT !.due = TRUE] \in Batch
        /\ [pending[k] EXCEPT !.due = TRUE].last = pending[k].last
        /\ [pending[k] EXCEPT !.due = TRUE].attempt = pending[k].attempt
        /\ [pending[k] EXCEPT !.due = TRUE].state = pending[k].state
    BY <2>1, <1>1 DEF Batch
  <2> QED BY <2>1, <2>2, <2>3 DEF Alike
<1>4. TypeOK'
  BY <1>1, <1>2 DEF OutputInv, TypeOK, Alike
<1>5. Chain'
  <2>1. \A s \in Sessions : next'[s] \in Nat /\ next[s] <= next'[s]
    BY <1>1, Types
  <2> QED BY <2>1, <1>1, <1>2, ChainKept DEF Alike
<1>6. Attempts' /\ Confirmations'
  BY <1>1, <1>2, AttemptsKept
<1>7. Forgets'
  BY <1>1, <1>2, ForgetsKept DEF OutputInv, Forgets
<1>8. Numbered'
  BY <1>1 DEF OutputInv, Numbered
<1> QED BY <1>4, <1>5, <1>6, <1>7, <1>8 DEF OutputInv

\* The acknowledgement of a finished first batch leaves the backend with what
\* comes after it.
LEMMA AcknowledgedIs ==
  ASSUME OutputInv, NEW k \in DOMAIN pending, ~Earlier(k), Acknowledged(k[1], pending[k].last)
  PROVE  /\ front' = [front EXCEPT ![k[1]] = pending[k].last + 1]
         /\ kept' \subseteq kept
         /\ \A s \in Sessions : s \notin kept' => next[s] <= front'[s]
<1>1. /\ k[1] \in Sessions /\ pending[k].last \in Nat /\ k[2] \in Nat
      /\ front[k[1]] \in Nat /\ next[k[1]] \in Nat
      /\ k[2] <= pending[k].last /\ pending[k].last < next[k[1]]
  BY Types DEF OutputInv, Chain
<1>2. k[2] = recorded[k[1]] + 1
  BY FirstIs
<1>3. front[k[1]] = k[2] \/ front[k[1]] = pending[k].last + 1
  <2>1. CASE front[k[1]] = recorded[k[1]] + 1
    BY <2>1, <1>2
  <2>2. CASE front[k[1]] # recorded[k[1]] + 1
    <3>1. PICK j \in DOMAIN pending : j[1] = k[1] /\ j[2] = recorded[k[1]] + 1 /\ front[k[1]] = pending[j].last + 1
      BY <2>2, <1>1 DEF OutputInv, Forgets
    <3>2. j = k
      BY <3>1, <1>2, Types
    <3> QED BY <3>1, <3>2
  <2> QED BY <2>1, <2>2
<1>4. (IF front[k[1]] > pending[k].last THEN front[k[1]] ELSE pending[k].last + 1) = pending[k].last + 1
  BY <1>1, <1>3
<1>5. front' = [front EXCEPT ![k[1]] = pending[k].last + 1]
  BY <1>4 DEF Acknowledged
<1>6. kept' \in {kept, kept \ {k[1]}} /\ (kept' # kept => next[k[1]] = pending[k].last + 1)
  BY DEF Acknowledged
<1>7. ASSUME NEW s \in Sessions, s \notin kept'
      PROVE  next[s] <= front'[s]
  <2>1. front \in [Sessions -> Nat \ {0}] /\ next[s] \in Nat /\ front[s] \in Nat
    BY Types DEF OutputInv, TypeOK
  <2>2. s \notin kept => next[s] <= front[s]
    BY DEF OutputInv, Forgets
  <2>3. CASE s = k[1]
    <3>1. front'[s] = pending[k].last + 1
      BY <2>1, <2>3, <1>5
    <3>2. CASE s \in kept
      BY <3>1, <3>2, <2>3, <1>6, <1>7, <1>1
    <3>3. CASE s \notin kept
      BY <3>1, <3>3, <2>1, <2>2, <2>3, <1>1, <1>3
    <3> QED BY <3>2, <3>3
  <2>4. CASE s # k[1]
    BY <2>1, <2>2, <2>4, <1>5, <1>6, <1>7
  <2> QED BY <2>3, <2>4
<1> QED BY <1>5, <1>6, <1>7

LEMMA AckFailsStep ==
  ASSUME OutputInv, NEW k \in DOMAIN pending, AckFails(k)
  PROVE  OutputInv'
<1>1. /\ pending' = [pending EXCEPT ![k] = Seen(k)] /\ Turn(k) /\ ~Earlier(k) /\ Seen(k).state \in Finished
      /\ Acknowledged(k[1], pending[k].last) \/ UNCHANGED <<front, kept>>
      /\ UNCHANGED <<process, reading, lines, next, overflow, stopped, cursor, receipts, ended, outbound,
                     sender, holding, closing, signalled, recorded, confirmed>>
  BY DEF AckFails, senderVars, history
<1>2. Alike /\ \A j \in DOMAIN pending' : pending'[j] \in Batch
  BY <1>1, SeenAlike
<1>3. keys' \subseteq DOMAIN pending'
  BY <1>1, <1>2, TurnIs DEF Alike
<1>4. /\ front' = front \/ front' = [front EXCEPT ![k[1]] = pending[k].last + 1]
      /\ kept' \subseteq kept
      /\ \A s \in Sessions : s \notin kept' => next[s] <= front'[s]
  BY <1>1, AcknowledgedIs DEF OutputInv, Forgets
<1>5. k[1] \in Sessions /\ pending[k].last \in Nat /\ recorded[k[1]] \in Nat /\ k[2] \in Nat
  BY Types
<1>6. front' \in [Sessions -> Nat \ {0}]
  <2>1. pending[k].last + 1 \in Nat \ {0}
    BY <1>5
  <2>2. front \in [Sessions -> Nat \ {0}]
    BY DEF OutputInv, TypeOK
  <2> QED BY <2>1, <2>2, <1>4, <1>5
<1>7. TypeOK'
  BY <1>1, <1>2, <1>3, <1>4, <1>6 DEF OutputInv, TypeOK, Alike
<1>8. Chain'
  <2>1. \A s \in Sessions : next'[s] \in Nat /\ next[s] <= next'[s]
    BY <1>1, Types
  <2> QED BY <2>1, <1>1, <1>2, ChainKept DEF Alike
<1>9. Attempts' /\ Confirmations'
  BY <1>1, <1>2, AttemptsKept
<1>10. Forgets'
  <2>1. CASE front' = front
    BY <2>1, <1>1, <1>2, <1>4, ForgetsKept
  <2>2. CASE front' = [front EXCEPT ![k[1]] = pending[k].last + 1]
    <3>1. /\ k[2] = recorded[k[1]] + 1 /\ k[2] <= pending[k].last
      BY <1>1, FirstIs DEF OutputInv, Chain
    <3>2. k \in DOMAIN pending' /\ pending'[k].last = pending[k].last /\ pending'[k].state \in Finished
      BY <1>1, <1>2 DEF Alike
    <3>3. ASSUME NEW s \in Sessions
          PROVE  /\ recorded[s] < front'[s]
                 /\ \/ front'[s] = recorded[s] + 1
                    \/ \E j \in DOMAIN pending' : /\ j[1] = s /\ j[2] = recorded[s] + 1
                                                  /\ front'[s] = pending'[j].last + 1
                                                  /\ pending'[j].state \in Finished
      <4>1. CASE s = k[1]
        <5>1. front'[s] = pending[k].last + 1
          BY <2>2, <4>1 DEF OutputInv, TypeOK
        <5>2. recorded[s] < front'[s]
          BY <5>1, <4>1, <3>1, <1>5
        <5> QED BY <5>1, <5>2, <4>1, <3>1, <3>2
      <4>2. CASE s # k[1]
        <5>1. front'[s] = front[s]
          BY <2>2, <4>2 DEF OutputInv, TypeOK
        <5>2. CASE front[s] = recorded[s] + 1
          BY <5>1, <5>2 DEF OutputInv, Forgets
        <5>3. CASE front[s] # recorded[s] + 1
          <6>1. PICK j \in DOMAIN pending : /\ j[1] = s /\ j[2] = recorded[s] + 1
                                            /\ front[s] = pending[j].last + 1 /\ pending[j].state \in Finished
            BY <5>3 DEF OutputInv, Forgets
          <6>2. j \in DOMAIN pending' /\ pending'[j].last = pending[j].last /\ pending'[j].state \in Finished
            BY <6>1, <1>2 DEF Alike
          <6> QED BY <6>1, <6>2, <5>1 DEF OutputInv, Forgets
        <5> QED BY <5>2, <5>3
      <4> QED BY <4>1, <4>2
    <3> QED BY <3>3, <1>1, <1>4 DEF Forgets
  <2> QED BY <2>1, <2>2, <1>4
<1>11. Numbered'
  BY <1>1 DEF OutputInv, Numbered
<1> QED BY <1>7, <1>8, <1>9, <1>10, <1>11 DEF OutputInv

\* A batch that is finished has no attempt under way.
LEMMA NothingUnderway ==
  ASSUME OutputInv, NEW k \in DOMAIN pending, pending[k].state # "awaiting"
  PROVE  /\ \A i \in DOMAIN outbound : outbound[i].key # k
         /\ \A i \in DOMAIN holding : holding[i].key # k
         /\ \A r \in receipts : r.key # k
BY DEF OutputInv, Attempts, Current, Awaits

LEMMA ResolveStep ==
  ASSUME OutputInv, NEW k \in DOMAIN pending, Resolve(k)
  PROVE  OutputInv'
<1>1. /\ Turn(k) /\ ~Earlier(k) /\ Seen(k).state \in Finished /\ Acknowledged(k[1], pending[k].last)
      /\ recorded' = [recorded EXCEPT ![k[1]] = pending[k].last]
      /\ confirmed' = confirmed \ EventsOf(k, pending[k].last)
      /\ pending' = [j \in DOMAIN pending \ {k} |-> pending[j]]
      /\ UNCHANGED <<process, reading, lines, next, overflow, stopped, cursor, receipts, ended, outbound,
                     sender, holding, closing, signalled>>
  BY DEF Resolve, senderVars, Restrict
<1>2. /\ front' = [front EXCEPT ![k[1]] = pending[k].last + 1] /\ kept' \subseteq kept
      /\ \A s \in Sessions : s \notin kept' => next[s] <= front'[s]
  BY <1>1, AcknowledgedIs
<1>3. /\ k[2] = recorded[k[1]] + 1
      /\ \A j \in DOMAIN pending : j[1] = k[1] => j = k \/ pending[k].last < j[2]
  BY <1>1, FirstIs
<1>4. /\ DOMAIN pending' = DOMAIN pending \ {k}
      /\ \A j \in DOMAIN pending' : pending'[j] = pending[j] /\ j # k /\ j \in DOMAIN pending
  BY <1>1
<1>5. /\ k[1] \in Sessions /\ pending[k].last \in Nat /\ recorded[k[1]] \in Nat /\ k[2] \in Nat
      /\ k[2] <= pending[k].last /\ pending[k] \in Batch
  BY Types DEF OutputInv, Chain
<1>6. pending[k].state # "awaiting"
  BY <1>1, <1>5 DEF Seen, Batch, Finished
<1>7. TypeOK'
  <2>1. keys' \subseteq DOMAIN pending'
    BY <1>1, <1>4, TurnIs
  <2>2. front' \in [Sessions -> Nat \ {0}] /\ recorded' \in [Sessions -> Nat]
    <3>1. pending[k].last + 1 \in Nat \ {0}
      BY <1>5
    <3>2. front \in [Sessions -> Nat \ {0}] /\ recorded \in [Sessions -> Nat]
      BY DEF OutputInv, TypeOK
    <3> QED BY <3>1, <3>2, <1>1, <1>2, <1>5
  <2>3. DOMAIN pending' \subseteq Keys /\ \A j \in DOMAIN pending' : pending'[j] \in Batch
    BY <1>4, Types
  <2> QED BY <2>1, <2>2, <2>3, <1>1, <1>2 DEF OutputInv, TypeOK
<1>8. Numbered'
  BY <1>1 DEF OutputInv, Numbered
<1>9. \A s \in Sessions : recorded'[s] = IF s = k[1] THEN pending[k].last ELSE recorded[s]
  BY <1>1 DEF OutputInv, TypeOK
<1>10. Chain'
  <2>1. ASSUME NEW j \in DOMAIN pending'
        PROVE  recorded'[j[1]] < j[2] /\ j[2] <= pending'[j].last /\ pending'[j].last < next'[j[1]]
    <3>1. /\ recorded[j[1]] < j[2] /\ j[2] <= pending[j].last /\ pending[j].last < next[j[1]]
          /\ j[1] \in Sessions
      BY <1>4, Types DEF OutputInv, Chain
    <3> QED BY <3>1, <1>1, <1>3, <1>4, <1>9
  <2>2. \A i, j \in DOMAIN pending' : i[1] = j[1] /\ i[2] < j[2] => pending'[i].last < j[2]
    BY <1>4 DEF OutputInv, Chain
  <2>3. ASSUME NEW j \in DOMAIN pending', NEW n \in recorded'[j[1]] + 1..pending'[j].last
        PROVE  \E i \in DOMAIN pending' : i[1] = j[1] /\ i[2] <= n /\ n <= pending'[i].last
    <3>1. /\ j[1] \in Sessions /\ recorded[j[1]] \in Nat /\ pending[j].last \in Nat /\ recorded'[j[1]] \in Nat
          /\ pending'[j] = pending[j]
      BY <1>4, <1>5, <1>9, Types
    <3>2. recorded[j[1]] <= recorded'[j[1]] /\ n \in recorded[j[1]] + 1..pending[j].last
      BY <3>1, <1>3, <1>5, <1>9
    <3>3. PICK i \in DOMAIN pending : i[1] = j[1] /\ i[2] <= n /\ n <= pending[i].last
      BY <3>2, <1>4 DEF OutputInv, Chain
    <3>4. i # k
      BY <3>1, <3>3, <1>5, <1>9
    <3> QED BY <3>3, <3>4, <1>4
  <2> QED BY <2>1, <2>2, <2>3 DEF Chain
<1>11. Forgets'
  <2> SUFFICES ASSUME NEW s \in Sessions
               PROVE  /\ recorded'[s] < front'[s]
                      /\ \/ front'[s] = recorded'[s] + 1
                         \/ \E j \in DOMAIN pending' : /\ j[1] = s /\ j[2] = recorded'[s] + 1
                                                       /\ front'[s] = pending'[j].last + 1
                                                       /\ pending'[j].state \in Finished
    BY <1>1, <1>2 DEF Forgets
  <2>1. CASE s = k[1]
    <3>1. front'[s] = pending[k].last + 1 /\ recorded'[s] = pending[k].last
      BY <2>1, <1>2, <1>9 DEF OutputInv, TypeOK
    <3> QED BY <3>1, <1>5
  <2>2. CASE s # k[1]
    <3>1. front'[s] = front[s] /\ recorded'[s] = recorded[s] /\ recorded[s] < front[s]
      BY <2>2, <1>2, <1>9 DEF OutputInv, TypeOK, Forgets
    <3>2. CASE front[s] = recorded[s] + 1
      BY <3>1, <3>2
    <3>3. CASE front[s] # recorded[s] + 1
      <4>1. PICK j \in DOMAIN pending : /\ j[1] = s /\ j[2] = recorded[s] + 1
                                        /\ front[s] = pending[j].last + 1 /\ pending[j].state \in Finished
        BY <3>3 DEF OutputInv, Forgets
      <4>2. j \in DOMAIN pending' /\ pending'[j] = pending[j]
        BY <4>1, <2>2, <1>4
      <4> QED BY <4>1, <4>2, <3>1
    <3> QED BY <3>2, <3>3
  <2> QED BY <2>1, <2>2
<1>12. Attempts'
  <2>1. /\ \A i \in DOMAIN outbound : outbound[i].key # k
        /\ \A i \in DOMAIN holding : holding[i].key # k
        /\ \A r \in receipts : r.key # k
    BY <1>6, NothingUnderway
  <2>2. Current(outbound)' /\ Current(holding)'
    BY <2>1, <1>1, <1>4 DEF OutputInv, Attempts, Current, Awaits
  <2>3. \A r \in receipts' : Awaits(r.key, r.attempt)'
    BY <2>1, <1>1, <1>4 DEF OutputInv, Attempts, Awaits
  <2>4. Apart' /\ Budget'
    BY <1>1, <1>4 DEF OutputInv, Attempts, Apart, Budget
  <2>5. FirstAwaits'
    BY <1>1, <1>4 DEF OutputInv, Attempts, FirstAwaits, Underway
  <2> QED BY <2>2, <2>3, <2>4, <2>5 DEF Attempts
<1>13. Confirmations'
  <2>1. \A j \in DOMAIN pending' :
          EventsOf(j, pending'[j].last) \subseteq confirmed => EventsOf(j, pending'[j].last) \subseteq confirmed'
    BY <1>1, <1>4, EventsApart
  <2>2. \A r \in receipts : r.key \in DOMAIN pending'
    BY <1>4, <1>6, NothingUnderway DEF OutputInv, Attempts, Awaits
  <2>3. \A r \in receipts' : r.ok => EventsOf(r.key, pending'[r.key].last) \subseteq confirmed'
    BY <2>1, <2>2, <1>1, <1>4 DEF OutputInv, Confirmations
  <2>4. \A j \in DOMAIN pending' :
          pending'[j].state = "delivered" => EventsOf(j, pending'[j].last) \subseteq confirmed'
    BY <2>1, <1>4 DEF OutputInv, Confirmations
  <2> QED BY <2>3, <2>4 DEF Confirmations
<1> QED BY <1>7, <1>8, <1>10, <1>11, <1>12, <1>13 DEF OutputInv

\* A batch is sent: it was the first, and no attempt on it was under way.
LEMMA SendIs ==
  ASSUME OutputInv, NEW k \in DOMAIN pending, Send(k)
  PROVE  LET a == pending[k].attempt + 1
             try == [key |-> k, last |-> pending[k].last, attempt |-> a]
             answer(ok) == receipts \cup {[key |-> k, attempt |-> a, ok |-> ok]}
         IN  /\ pending[k].state \in {"collecting", "retry"} /\ ~Earlier(k)
             /\ a \in 1..MaxAttempts /\ try \in Attempt
             /\ keys' \subseteq DOMAIN pending'
             /\ DOMAIN pending' = DOMAIN pending
             /\ \A j \in DOMAIN pending : j # k => pending'[j] = pending[j]
             /\ pending'[k] \in Batch /\ pending'[k].last = pending[k].last
             /\ pending'[k].attempt = a /\ pending'[k].state = "awaiting"
             /\ \/ outbound' = Append(outbound, try) /\ UNCHANGED <<receipts, confirmed>>
                \/ receipts' = answer(FALSE) /\ UNCHANGED <<outbound, confirmed>>
                \/ /\ receipts' = answer(TRUE) /\ UNCHANGED outbound
                   /\ confirmed' = confirmed \cup EventsOf(k, pending[k].last)
<1> DEFINE a == pending[k].attempt + 1
           try == [key |-> k, last |-> pending[k].last, attempt |-> a]
           answer(ok) == receipts \cup {[key |-> k, attempt |-> a, ok |-> ok]}
<1>1. Turn(k) /\ ~Earlier(k) /\ Seen(k).state \in {"collecting", "retry"}
  BY DEF Send, Ready
<1>2. k \in Keys /\ pending[k] \in Batch /\ pending[k].last \in Lines /\ MaxAttempts \in Nat \ {0}
  BY Types, SessionOutputAssumption DEF OutputInv, TypeOK
<1>3. pending[k].state \in {"collecting", "retry"}
  BY <1>1, <1>2 DEF Seen, Batch
<1>4. a \in 1..MaxAttempts
  <2>1. pending[k].attempt \in Nat /\ pending[k].attempt < MaxAttempts
    BY <1>2, <1>3, BatchIs DEF OutputInv, Attempts, Budget
  <2> QED BY <2>1, <1>2
<1>5. try \in Attempt
  BY <1>2, <1>4 DEF Attempt
<1>6. pending' = [pending EXCEPT ![k] = [@ EXCEPT !.attempt = a, !.state = "awaiting"]]
  BY DEF Send
<1>7. a \in 0..MaxAttempts
  BY <1>4, <1>2
<1>8. /\ DOMAIN pending' = DOMAIN pending
      /\ \A j \in DOMAIN pending : j # k => pending'[j] = pending[j]
      /\ pending'[k] = [pending[k] EXCEPT !.attempt = a, !.state = "awaiting"]
  <2> HIDE DEF a
  <2> QED BY <1>6
<1>9. /\ pending'[k] \in Batch /\ pending'[k].last = pending[k].last
      /\ pending'[k].attempt = a /\ pending'[k].state = "awaiting"
  <2> HIDE DEF a
  <2> QED BY <1>8, <1>7, <1>2 DEF Batch
<1>10. keys' \subseteq DOMAIN pending'
  BY <1>1, <1>8, TurnIs
<1>11. CASE Route[k[1]] = "tui"
  <2>1. /\ receipts' = answer(TRUE) /\ UNCHANGED outbound
        /\ confirmed' = confirmed \cup EventsOf(k, pending[k].last)
    BY <1>11 DEF Send
  <2> QED BY <2>1, <1>1, <1>3, <1>4, <1>5, <1>8, <1>9, <1>10
<1>12. CASE Route[k[1]] = "platform" /\ Accepts
  <2>1. outbound' = Append(outbound, try) /\ UNCHANGED <<receipts, confirmed>>
    BY <1>12 DEF Send
  <2> QED BY <2>1, <1>1, <1>3, <1>4, <1>5, <1>8, <1>9, <1>10
<1>13. CASE Route[k[1]] # "tui" /\ ~(Route[k[1]] = "platform" /\ Accepts)
  <2>1. receipts' = answer(FALSE) /\ UNCHANGED <<outbound, confirmed>>
    BY <1>13 DEF Send
  <2> QED BY <2>1, <1>1, <1>3, <1>4, <1>5, <1>8, <1>9, <1>10
<1> QED BY <1>11, <1>12, <1>13

LEMMA SendStep ==
  ASSUME OutputInv, NEW k \in DOMAIN pending, Send(k)
  PROVE  OutputInv'
<1>0. PICK a, n : a = pending[k].attempt + 1 /\ n = pending[k].last
  OBVIOUS
<1> DEFINE try == [key |-> k, last |-> n, attempt |-> a]
           receipt(ok) == [key |-> k, attempt |-> a, ok |-> ok]
<1>1. /\ pending[k].state \in {"collecting", "retry"} /\ ~Earlier(k)
      /\ a \in 1..MaxAttempts /\ try \in Attempt
      /\ keys' \subseteq DOMAIN pending'
      /\ DOMAIN pending' = DOMAIN pending
      /\ \A j \in DOMAIN pending : j # k => pending'[j] = pending[j]
      /\ pending'[k] \in Batch /\ pending'[k].last = pending[k].last
      /\ pending'[k].attempt = a /\ pending'[k].state = "awaiting"
      /\ \/ outbound' = Append(outbound, try) /\ UNCHANGED <<receipts, confirmed>>
         \/ receipts' = receipts \cup {receipt(FALSE)} /\ UNCHANGED <<outbound, confirmed>>
         \/ /\ receipts' = receipts \cup {receipt(TRUE)} /\ UNCHANGED outbound
            /\ confirmed' = confirmed \cup EventsOf(k, pending[k].last)
  BY <1>0, SendIs
<1>2. UNCHANGED <<process, reading, lines, kept, front, next, overflow, stopped, cursor, ended,
                  sender, holding, closing, signalled, recorded>>
  BY DEF Send, backendVars
<1>3. /\ k \in Keys /\ EventsOf(k, pending[k].last) \subseteq Keys
      /\ DOMAIN pending \subseteq Keys /\ \A j \in DOMAIN pending : pending[j] \in Batch
      /\ outbound \in Seq(Attempt) /\ confirmed \subseteq Keys
  BY Types, EventsAreKeys DEF OutputInv, TypeOK
<1>4. /\ \A i \in DOMAIN outbound : outbound[i].key # k
      /\ \A i \in DOMAIN holding : holding[i].key # k
      /\ \A r \in receipts : r.key # k
  BY <1>1, NothingUnderway
<1>5. \A j, x : j # k /\ Awaits(j, x) => Awaits(j, x)'
  BY <1>1 DEF Awaits
<1>6. Awaits(k, a)'
  BY <1>1 DEF Awaits
<1>7. /\ Len(outbound) \in Nat /\ DOMAIN outbound = 1..Len(outbound)
  BY <1>3, LenProperties
<1> HIDE DEF try
<1>8. outbound' = outbound \/ /\ outbound' = Append(outbound, try)
                              /\ DOMAIN outbound' = DOMAIN outbound \cup {Len(outbound) + 1}
                              /\ Len(outbound) + 1 \notin DOMAIN outbound
                              /\ outbound'[Len(outbound) + 1] = try
                              /\ \A i \in DOMAIN outbound : outbound'[i] = outbound[i]
  <2>1. CASE outbound' = outbound
    BY <2>1
  <2>2. CASE outbound' = Append(outbound, try)
    <3>1. /\ Append(outbound, try) \in Seq(Attempt) /\ Len(Append(outbound, try)) = Len(outbound) + 1
          /\ \A i \in 1..Len(outbound) : Append(outbound, try)[i] = outbound[i]
          /\ Append(outbound, try)[Len(outbound) + 1] = try
      BY <1>1, <1>3, AppendProperties
    <3>2. DOMAIN outbound' = 1..Len(outbound) + 1
      BY <3>1, <2>2, LenProperties
    <3>3. DOMAIN outbound' = DOMAIN outbound \cup {Len(outbound) + 1} /\ Len(outbound) + 1 \notin DOMAIN outbound
      BY <3>2, <1>7
    <3> QED BY <3>1, <3>3, <2>2, <1>7
  <2> QED BY <2>1, <2>2, <1>1
<1>9. ASSUME NEW r \in receipts', r \notin receipts
      PROVE  /\ r.key = k /\ r.attempt = a /\ r.ok \in BOOLEAN /\ r = receipt(r.ok)
             /\ receipts' = receipts \cup {r} /\ outbound' = outbound
             /\ r.ok => confirmed' = confirmed \cup EventsOf(k, pending[k].last)
  <2>1. PICK ok \in BOOLEAN : /\ receipts' = receipts \cup {receipt(ok)} /\ outbound' = outbound
                              /\ ok => confirmed' = confirmed \cup EventsOf(k, pending[k].last)
    BY <1>1, <1>9
  <2>2. r = receipt(ok)
    BY <2>1, <1>9
  <2> QED BY <2>1, <2>2
<1>10. receipts \subseteq receipts' /\ confirmed \subseteq confirmed'
  BY <1>1
<1>11. TypeOK'
  <2>1. outbound' \in Seq(Attempt)
    BY <1>1, <1>3, AppendProperties
  <2>2. \A r \in receipts' : r \in [key : Keys, attempt : 1..MaxAttempts, ok : BOOLEAN]
    <3>1. \A r \in receipts : r \in [key : Keys, attempt : 1..MaxAttempts, ok : BOOLEAN]
      BY DEF OutputInv, TypeOK
    <3>2. \A ok \in BOOLEAN : receipt(ok) \in [key : Keys, attempt : 1..MaxAttempts, ok : BOOLEAN]
      BY <1>1, <1>3
    <3> HIDE DEF receipt
    <3> QED BY <3>1, <3>2, <1>9
  <2>3. confirmed' \subseteq Keys
    BY <1>1, <1>3
  <2>4. DOMAIN pending' \subseteq Keys /\ \A j \in DOMAIN pending' : pending'[j] \in Batch
    BY <1>1, <1>3
  <2> QED BY <2>1, <2>2, <2>3, <2>4, <1>1, <1>2 DEF OutputInv, TypeOK
<1>12. Chain'
  <2>1. \A s \in Sessions : next'[s] \in Nat /\ next[s] <= next'[s]
    BY <1>2, Types
  <2> QED BY <2>1, <1>1, <1>2, ChainKept
<1>13. Forgets'
  <2>1. ASSUME NEW s \in Sessions,
               NEW j \in DOMAIN pending, j[1] = s /\ j[2] = recorded[s] + 1
                     /\ front[s] = pending[j].last + 1 /\ pending[j].state \in Finished
        PROVE  j \in DOMAIN pending' /\ pending'[j] = pending[j]
    BY <2>1, <1>1 DEF Finished
  <2> QED BY <2>1, <1>2 DEF OutputInv, Forgets
<1>14. Numbered'
  BY <1>2 DEF OutputInv, Numbered
<1>15. Attempts'
  <2>1. Current(outbound)'
    <3>1. ASSUME NEW i \in DOMAIN outbound'
          PROVE  /\ outbound'[i].key \in DOMAIN pending' /\ pending'[outbound'[i].key].state = "awaiting"
                 /\ pending'[outbound'[i].key].attempt = outbound'[i].attempt
                 /\ outbound'[i].last = pending'[outbound'[i].key].last
      <4>1. CASE i \in DOMAIN outbound
        <5>1. outbound'[i] = outbound[i] /\ outbound[i].key # k
          BY <4>1, <1>4, <1>8
        <5>2. Awaits(outbound[i].key, outbound[i].attempt) /\ outbound[i].last = pending[outbound[i].key].last
          BY <4>1 DEF OutputInv, Attempts, Current
        <5> QED BY <5>1, <5>2, <1>1 DEF Awaits
      <4>2. CASE i \notin DOMAIN outbound
        <5>1. outbound'[i] = try
          BY <4>2, <1>8
        <5>2. outbound'[i].key = k /\ outbound'[i].attempt = a /\ outbound'[i].last = n
          BY <5>1 DEF try
        <5> QED BY <5>2, <1>0, <1>1
      <4> QED BY <4>1, <4>2
    <3> QED BY <3>1 DEF Current, Awaits
  <2>2. Current(holding)'
    BY <1>1, <1>2, <1>4, <1>5 DEF OutputInv, Attempts, Current, Awaits
  <2>3. \A r \in receipts' : Awaits(r.key, r.attempt)'
    <3>1. ASSUME NEW r \in receipts'
          PROVE  Awaits(r.key, r.attempt)'
      <4>1. CASE r \in receipts
        BY <4>1, <1>4, <1>5 DEF OutputInv, Attempts
      <4>2. CASE r \notin receipts
        <5>1. r.key = k /\ r.attempt = a
          BY <4>2, <1>9
        <5> QED BY <5>1, <1>6
      <4> QED BY <4>1, <4>2
    <3> QED BY <3>1
  <2>4. Budget'
    BY <1>1 DEF OutputInv, Attempts, Budget
  <2>5. Apart'
    <3>1. Apart /\ try.key = k
      BY DEF OutputInv, Attempts, try
    <3>2. \A i, j \in DOMAIN outbound' : outbound'[i].key = outbound'[j].key => i = j
      BY <3>1, <1>4, <1>8 DEF Apart
    <3>3. \A i \in DOMAIN outbound', j \in DOMAIN holding' : outbound'[i].key # holding'[j].key
      BY <3>1, <1>2, <1>4, <1>8 DEF Apart
    <3>4. ASSUME NEW r \in receipts'
          PROVE  /\ \A i \in DOMAIN outbound' : outbound'[i].key # r.key
                 /\ \A i \in DOMAIN holding' : holding'[i].key # r.key
      <4>1. CASE r \in receipts
        BY <4>1, <3>1, <1>2, <1>4, <1>8 DEF Apart
      <4>2. CASE r \notin receipts
        BY <4>2, <1>2, <1>4, <1>9
      <4> QED BY <4>1, <4>2
    <3>5. \A q, r \in receipts' : q.key = r.key => q = r
      <4>1. \A r \in receipts' : r \in receipts \/ (r.key = k /\ receipts' = receipts \cup {r})
        BY <1>9
      <4> QED BY <3>1, <4>1, <1>4 DEF Apart
    <3> QED BY <3>2, <3>3, <3>4, <3>5 DEF Apart
  <2>6. FirstAwaits'
    <3>1. ASSUME NEW j \in DOMAIN pending', pending'[j].state = "awaiting"
          PROVE  Underway(j)' /\ \A i \in DOMAIN pending' : i[1] = j[1] => j[2] <= i[2]
      <4>1. CASE j = k
        <5>1. Underway(k)'
          <6>1. CASE outbound' = Append(outbound, try)
            <7>1. outbound' # outbound
              <8>1. try \in Attempt
                BY <1>1
              <8>2. Len(Append(outbound, try)) = Len(outbound) + 1
                BY <8>1, <1>3, AppendProperties
              <8>3. \A m \in Nat : m + 1 # m
                OBVIOUS
              <8> QED BY <8>2, <8>3, <6>1, <1>7, Zenon
            <7>2. outbound'[Len(outbound) + 1].key = k /\ Len(outbound) + 1 \in DOMAIN outbound'
              BY <7>1, <1>8 DEF try
            <7> QED BY <7>2 DEF Underway
          <6>2. ASSUME NEW ok \in BOOLEAN, receipts' = receipts \cup {receipt(ok)}
                PROVE  Underway(k)'
            <7>1. receipt(ok) \in receipts' /\ receipt(ok).key = k
              BY <6>2
            <7>2. \E r \in receipts' : r.key = k
              BY <7>1
            <7> QED BY <7>2 DEF Underway
          <6> QED BY <6>1, <6>2, <1>1
        <5>2. \A i \in DOMAIN pending : i[1] = k[1] => k[2] <= i[2]
          BY <1>1, Types DEF Earlier, Of
        <5> QED BY <5>1, <5>2, <4>1, <1>1
      <4>2. CASE j # k
        <5>1. Underway(j) /\ \A i \in DOMAIN pending : i[1] = j[1] => j[2] <= i[2]
          BY <4>2, <3>1, <1>1 DEF OutputInv, Attempts, FirstAwaits
        <5>2. Underway(j)'
          BY <5>1, <1>2, <1>8, <1>10 DEF Underway
        <5> QED BY <5>1, <5>2, <1>1
      <4> QED BY <4>1, <4>2
    <3> QED BY <3>1 DEF FirstAwaits
  <2> QED BY <2>1, <2>2, <2>3, <2>4, <2>5, <2>6 DEF Attempts
<1>16. Confirmations'
  <2>1. ASSUME NEW r \in receipts', r.ok
        PROVE  EventsOf(r.key, pending'[r.key].last) \subseteq confirmed'
    <3>1. CASE r \in receipts
      <4>1. r.key \in DOMAIN pending /\ r.key # k
        BY <3>1, <1>4 DEF OutputInv, Attempts, Awaits
      <4> QED BY <4>1, <3>1, <2>1, <1>1, <1>10 DEF OutputInv, Confirmations
    <3>2. CASE r \notin receipts
      <4>1. r.key = k /\ confirmed' = confirmed \cup EventsOf(k, pending[k].last)
        BY <3>2, <2>1, <1>9
      <4> QED BY <4>1, <1>1
    <3> QED BY <3>1, <3>2
  <2>2. \A j \in DOMAIN pending' :
          pending'[j].state = "delivered" => EventsOf(j, pending'[j].last) \subseteq confirmed'
    BY <1>1, <1>10 DEF OutputInv, Confirmations
  <2> QED BY <2>1, <2>2 DEF Confirmations
<1> QED BY <1>11, <1>12, <1>13, <1>14, <1>15, <1>16 DEF OutputInv

-----------------------------------------------------------------------------
(* The manager's sender answers.                                           *)

LEMMA TailIs ==
  ASSUME NEW q \in Seq(Attempt), q # <<>>
  PROVE  /\ Head(q) = q[1] /\ 1 \in DOMAIN q /\ q[1] \in Attempt
         /\ Tail(q) \in Seq(Attempt)
         /\ \A i \in DOMAIN Tail(q) : Tail(q)[i] = q[i + 1] /\ i + 1 \in DOMAIN q /\ i + 1 # 1
         /\ \A i \in DOMAIN q : i = 1 \/ (i - 1 \in DOMAIN Tail(q) /\ Tail(q)[i - 1] = q[i])
<1>1. /\ Len(q) \in Nat \ {0} /\ DOMAIN q = 1..Len(q)
  BY EmptySeq, LenProperties
<1>2. /\ Tail(q) \in Seq(Attempt) /\ Len(Tail(q)) = Len(q) - 1
      /\ \A i \in 1..Len(Tail(q)) : Tail(q)[i] = q[i + 1]
  BY HeadTailProperties
<1>3. DOMAIN Tail(q) = 1..Len(q) - 1
  BY <1>2, LenProperties
<1>4. Head(q) = q[1] /\ 1 \in DOMAIN q /\ q[1] \in Attempt
  BY <1>1, ElementOfSeq
<1>5. \A i \in DOMAIN Tail(q) : Tail(q)[i] = q[i + 1] /\ i + 1 \in DOMAIN q /\ i + 1 # 1
  BY <1>1, <1>2, <1>3
<1>6. ASSUME NEW i \in DOMAIN q, i # 1
      PROVE  i - 1 \in DOMAIN Tail(q) /\ Tail(q)[i - 1] = q[i]
  <2>1. i - 1 \in 1..Len(q) - 1 /\ (i - 1) + 1 = i
    BY <1>1, <1>6
  <2> QED BY <2>1, <1>2, <1>3
<1> QED BY <1>2, <1>4, <1>5, <1>6

LEMMA AttemptIs ==
  ASSUME NEW try \in Attempt
  PROVE  try.key \in Keys /\ try.last \in Lines /\ try.attempt \in 1..MaxAttempts
BY DEF Attempt

\* An attempt is answered: its entry is gone from the queue or from the sender,
\* and the receipt is there instead.
LEMMA FinishKeeps ==
  ASSUME OutputInv, NEW try \in Attempt, NEW ok \in BOOLEAN, Finish(try, ok),
         UNCHANGED <<pending, recorded>>,
         Awaits(try.key, try.attempt), try.last = pending[try.key].last,
         \A i \in DOMAIN outbound' :
           /\ outbound'[i].key # try.key
           /\ \E j \in DOMAIN outbound : outbound[j] = outbound'[i],
         \A i, j \in DOMAIN outbound' : outbound'[i].key = outbound'[j].key => i = j,
         \A i \in DOMAIN holding' :
           /\ holding'[i].key # try.key
           /\ \E j \in DOMAIN holding : holding[j] = holding'[i],
         \A i \in DOMAIN outbound : \/ outbound[i].key = try.key
                                    \/ \E j \in DOMAIN outbound' : outbound'[j] = outbound[i],
         \A i \in DOMAIN holding : \/ holding[i].key = try.key
                                   \/ \E j \in DOMAIN holding' : holding'[j] = holding[i],
         \A r \in receipts : r.key # try.key
  PROVE  /\ Attempts' /\ Confirmations' /\ confirmed' \subseteq Keys
         /\ \A r \in receipts' : r \in [key : Keys, attempt : 1..MaxAttempts, ok : BOOLEAN]
<1> DEFINE rc == [key |-> try.key, attempt |-> try.attempt, ok |-> ok]
<1>1. /\ receipts' = receipts \cup {rc}
      /\ confirmed' = IF ok THEN confirmed \cup EventsOf(try.key, try.last) ELSE confirmed
  BY DEF Finish
<1>2. /\ try.key \in Keys /\ try.last \in Lines /\ try.attempt \in 1..MaxAttempts
      /\ EventsOf(try.key, try.last) \subseteq Keys
  BY AttemptIs, EventsAreKeys
<1>3. rc \in [key : Keys, attempt : 1..MaxAttempts, ok : BOOLEAN] /\ rc.key = try.key
      /\ rc.attempt = try.attempt /\ rc.ok = ok
  BY <1>2
<1> HIDE DEF rc
<1>4. \A r \in receipts' : r \in [key : Keys, attempt : 1..MaxAttempts, ok : BOOLEAN]
  BY <1>1, <1>3 DEF OutputInv, TypeOK
<1>5. confirmed' \subseteq Keys /\ confirmed \subseteq confirmed'
  BY <1>1, <1>2 DEF OutputInv, TypeOK
<1>6. Attempts
  BY DEF OutputInv
<1>7. Current(outbound)'
  BY <1>6 DEF Attempts, Current, Awaits
<1>8. Current(holding)'
  BY <1>6 DEF Attempts, Current, Awaits
<1>9. \A r \in receipts' : Awaits(r.key, r.attempt)'
  BY <1>1, <1>3, <1>6 DEF Attempts, Awaits
<1>10. Budget'
  BY <1>6 DEF Attempts, Budget
<1>11. Apart'
  <2>1. Apart
    BY <1>6 DEF Attempts
  <2>2. ASSUME NEW i \in DOMAIN outbound', NEW j \in DOMAIN holding'
        PROVE  outbound'[i].key # holding'[j].key
    <3>1. PICK m \in DOMAIN outbound : outbound[m] = outbound'[i]
      OBVIOUS
    <3>2. PICK n \in DOMAIN holding : holding[n] = holding'[j]
      OBVIOUS
    <3> QED BY <3>1, <3>2, <2>1 DEF Apart
  <2>3. ASSUME NEW r \in receipts'
        PROVE  /\ \A i \in DOMAIN outbound' : outbound'[i].key # r.key
               /\ \A i \in DOMAIN holding' : holding'[i].key # r.key
    BY <2>1, <1>1, <1>3 DEF Apart
  <2>4. \A q, r \in receipts' : q.key = r.key => q = r
    BY <2>1, <1>1, <1>3 DEF Apart
  <2> QED BY <2>2, <2>3, <2>4 DEF Apart
<1>12. FirstAwaits'
  <2> SUFFICES ASSUME NEW k \in DOMAIN pending, pending[k].state = "awaiting"
               PROVE  Underway(k)'
    BY <1>6 DEF Attempts, FirstAwaits
  <2>1. Underway(k)
    BY <1>6 DEF Attempts, FirstAwaits
  <2>2. CASE k = try.key
    BY <2>2, <1>1, <1>3 DEF Underway
  <2>3. CASE k # try.key
    BY <2>1, <2>3, <1>1 DEF Underway
  <2> QED BY <2>2, <2>3
<1>13. Confirmations'
  <2>1. ASSUME NEW r \in receipts', r.ok
        PROVE  EventsOf(r.key, pending'[r.key].last) \subseteq confirmed'
    <3>1. CASE r = rc
      BY <3>1, <2>1, <1>1, <1>3
    <3>2. CASE r # rc
      BY <3>2, <2>1, <1>1, <1>5 DEF OutputInv, Confirmations
    <3> QED BY <3>1, <3>2
  <2>2. \A k \in DOMAIN pending' :
          pending'[k].state = "delivered" => EventsOf(k, pending'[k].last) \subseteq confirmed'
    BY <1>5 DEF OutputInv, Confirmations
  <2> QED BY <2>1, <2>2 DEF Confirmations
<1>14. Attempts'
  BY <1>7, <1>8, <1>9, <1>10, <1>11, <1>12 DEF Attempts
<1> QED BY <1>4, <1>5, <1>13, <1>14

\* What the sender leaves alone.
LEMMA SenderLeaves ==
  ASSUME OutputInv, UNCHANGED <<backendVars, monitorVars, ended, recorded>>
  PROVE  Chain' /\ Forgets' /\ Numbered'
<1>1. /\ UNCHANGED <<pending, recorded, front, next, kept, lines>>
  BY DEF backendVars, monitorVars
<1>2. Chain'
  <2>1. \A s \in Sessions : next'[s] \in Nat /\ next[s] <= next'[s]
    BY <1>1, Types
  <2> QED BY <2>1, <1>1, ChainKept
<1>3. Forgets' /\ Numbered'
  BY <1>1 DEF OutputInv, Forgets, Numbered
<1> QED BY <1>2, <1>3

\* The first entry of the queue is answered without being sent.
LEMMA HeadAnswered ==
  ASSUME OutputInv, outbound # <<>>, NEW ok \in BOOLEAN, Finish(Head(outbound), ok),
         outbound' = Tail(outbound), UNCHANGED <<pending, recorded, holding>>
  PROVE  /\ Attempts' /\ Confirmations' /\ confirmed' \subseteq Keys /\ outbound' \in Seq(Attempt)
         /\ \A r \in receipts' : r \in [key : Keys, attempt : 1..MaxAttempts, ok : BOOLEAN]
<1>1. outbound \in Seq(Attempt) /\ Current(outbound) /\ Apart
  BY DEF OutputInv, TypeOK, Attempts
<1>2. /\ Head(outbound) = outbound[1] /\ 1 \in DOMAIN outbound /\ outbound[1] \in Attempt
      /\ outbound' \in Seq(Attempt)
      /\ \A i \in DOMAIN outbound' : outbound'[i] = outbound[i + 1] /\ i + 1 \in DOMAIN outbound /\ i + 1 # 1
      /\ \A i \in DOMAIN outbound : i = 1 \/ (i - 1 \in DOMAIN outbound' /\ outbound'[i - 1] = outbound[i])
  BY <1>1, TailIs
<1>3. PICK try \in Attempt : try = outbound[1]
  BY <1>2
<1>4. Finish(try, ok) /\ Awaits(try.key, try.attempt) /\ try.last = pending[try.key].last
  BY <1>1, <1>2, <1>3 DEF Current
<1>5. \A i \in DOMAIN outbound' : /\ outbound'[i].key # try.key
                                  /\ \E j \in DOMAIN outbound : outbound[j] = outbound'[i]
  BY <1>1, <1>2, <1>3 DEF Apart
<1>6. ASSUME NEW i \in DOMAIN outbound', NEW j \in DOMAIN outbound', outbound'[i].key = outbound'[j].key
      PROVE  i = j
  <2>1. i + 1 = j + 1
    BY <1>1, <1>2, <1>6 DEF Apart
  <2>2. i \in Nat /\ j \in Nat
    BY <1>2, LenProperties
  <2> QED BY <2>1, <2>2
<1>7. \A i \in DOMAIN holding' : /\ holding'[i].key # try.key
                                 /\ \E j \in DOMAIN holding : holding[j] = holding'[i]
  BY <1>1, <1>2, <1>3 DEF Apart
<1>8. \A i \in DOMAIN outbound : \/ outbound[i].key = try.key
                                 \/ \E j \in DOMAIN outbound' : outbound'[j] = outbound[i]
  BY <1>2, <1>3
<1>9. \A i \in DOMAIN holding : \/ holding[i].key = try.key
                                \/ \E j \in DOMAIN holding' : holding'[j] = holding[i]
  OBVIOUS
<1>10. \A r \in receipts : r.key # try.key
  BY <1>1, <1>2, <1>3 DEF Apart
<1> QED BY <1>2, <1>4, <1>5, <1>6, <1>7, <1>8, <1>9, <1>10, FinishKeeps

LEMMA DrainStep ==
  ASSUME OutputInv, Drain
  PROVE  OutputInv'
<1>1. /\ outbound # <<>> /\ Finish(Head(outbound), FALSE) /\ outbound' = Tail(outbound)
      /\ UNCHANGED <<backendVars, monitorVars, ended, sender, holding, closing, signalled, recorded>>
  BY DEF Drain
<1>2. UNCHANGED <<pending, recorded, holding>>
  BY <1>1 DEF monitorVars
<1>3. /\ Attempts' /\ Confirmations' /\ confirmed' \subseteq Keys /\ outbound' \in Seq(Attempt)
      /\ \A r \in receipts' : r \in [key : Keys, attempt : 1..MaxAttempts, ok : BOOLEAN]
  BY <1>1, <1>2, HeadAnswered
<1>4. Chain' /\ Forgets' /\ Numbered'
  BY <1>1, SenderLeaves
<1>5. TypeOK'
  BY <1>1, <1>3 DEF OutputInv, TypeOK, backendVars, monitorVars
<1> QED BY <1>3, <1>4, <1>5 DEF OutputInv

LEMMA OneIs ==
  ASSUME NEW x \in Attempt
  PROVE  /\ <<x>> \in Seq(Attempt) /\ Len(<<x>>) = 1 /\ DOMAIN <<x>> = {1} /\ <<x>>[1] = x
OBVIOUS

LEMMA TakeStep ==
  ASSUME OutputInv, Take
  PROVE  OutputInv'
<1>1. /\ sender = "wait" /\ outbound # <<>> /\ outbound' = Tail(outbound)
      /\ UNCHANGED <<backendVars, monitorVars, ended, closing, signalled, recorded>>
      /\ \/ Finish(Head(outbound), FALSE) /\ sender' = "closed" /\ UNCHANGED holding
         \/ holding' = <<Head(outbound)>> /\ sender' = "send" /\ UNCHANGED <<receipts, confirmed>>
  BY DEF Take
<1>2. /\ UNCHANGED <<pending, recorded>>
      /\ outbound \in Seq(Attempt) /\ holding \in Seq(Attempt) /\ Len(holding) = 0
  BY <1>1 DEF monitorVars, OutputInv, TypeOK
<1>3. Chain' /\ Forgets' /\ Numbered'
  BY <1>1, SenderLeaves
<1>4. CASE Finish(Head(outbound), FALSE) /\ sender' = "closed" /\ UNCHANGED holding
  <2>1. /\ Attempts' /\ Confirmations' /\ confirmed' \subseteq Keys /\ outbound' \in Seq(Attempt)
        /\ \A r \in receipts' : r \in [key : Keys, attempt : 1..MaxAttempts, ok : BOOLEAN]
    BY <1>1, <1>2, <1>4, HeadAnswered
  <2>2. TypeOK'
    BY <1>1, <1>2, <1>4, <2>1 DEF OutputInv, TypeOK, backendVars, monitorVars
  <2> QED BY <2>1, <2>2, <1>3 DEF OutputInv
<1>5. CASE holding' = <<Head(outbound)>> /\ sender' = "send" /\ UNCHANGED <<receipts, confirmed>>
  <2>1. /\ Head(outbound) = outbound[1] /\ 1 \in DOMAIN outbound /\ outbound[1] \in Attempt
        /\ outbound' \in Seq(Attempt)
        /\ \A i \in DOMAIN outbound' : outbound'[i] = outbound[i + 1] /\ i + 1 \in DOMAIN outbound /\ i + 1 # 1
        /\ \A i \in DOMAIN outbound : i = 1 \/ (i - 1 \in DOMAIN outbound' /\ outbound'[i - 1] = outbound[i])
    BY <1>1, <1>2, TailIs
  <2>2. /\ holding' \in Seq(Attempt) /\ Len(holding') = 1 /\ DOMAIN holding' = {1} /\ holding'[1] = outbound[1]
    BY <2>1, <1>5, OneIs
  <2>3. DOMAIN holding = {}
    BY <1>2, LenProperties
  <2>4. TypeOK'
    BY <1>1, <1>5, <2>1, <2>2 DEF OutputInv, TypeOK, backendVars, monitorVars
  <2>5. Current(outbound)' /\ Current(holding)'
    BY <1>2, <2>1, <2>2 DEF OutputInv, Attempts, Current, Awaits
  <2>6. Apart'
    <3>1. Apart
      BY DEF OutputInv, Attempts
    <3>2. ASSUME NEW i \in DOMAIN outbound', NEW j \in DOMAIN outbound', outbound'[i].key = outbound'[j].key
          PROVE  i = j
      <4>1. i + 1 = j + 1
        BY <2>1, <3>1, <3>2 DEF Apart
      <4>2. i \in Nat /\ j \in Nat
        BY <2>1, LenProperties
      <4> QED BY <4>1, <4>2
    <3>3. \A i \in DOMAIN outbound', j \in DOMAIN holding' : outbound'[i].key # holding'[j].key
      BY <2>1, <2>2, <3>1 DEF Apart
    <3>4. \A r \in receipts' : /\ \A i \in DOMAIN outbound' : outbound'[i].key # r.key
                               /\ \A i \in DOMAIN holding' : holding'[i].key # r.key
      BY <1>5, <2>1, <2>2, <3>1 DEF Apart
    <3>5. \A q, r \in receipts' : q.key = r.key => q = r
      BY <1>5, <3>1 DEF Apart
    <3> QED BY <3>2, <3>3, <3>4, <3>5 DEF Apart
  <2>7. FirstAwaits'
    <3> SUFFICES ASSUME NEW k \in DOMAIN pending, Underway(k)
                 PROVE  Underway(k)'
      BY <1>2 DEF OutputInv, Attempts, FirstAwaits
    <3>1. CASE \E r \in receipts : r.key = k
      BY <3>1, <1>5 DEF Underway
    <3>2. ASSUME NEW i \in DOMAIN outbound, outbound[i].key = k
          PROVE  Underway(k)'
      <4>1. CASE i = 1
        BY <4>1, <3>2, <2>2 DEF Underway
      <4>2. CASE i # 1
        BY <4>2, <3>2, <2>1 DEF Underway
      <4> QED BY <4>1, <4>2
    <3> QED BY <3>1, <3>2, <2>3 DEF Underway
  <2>8. Attempts'
    BY <2>5, <2>6, <2>7, <1>2, <1>5 DEF OutputInv, Attempts, Budget, Awaits
  <2>9. Confirmations'
    BY <1>2, <1>5 DEF OutputInv, Confirmations
  <2> QED BY <2>4, <2>8, <2>9, <1>3 DEF OutputInv
<1> QED BY <1>1, <1>4, <1>5

LEMMA SentStep ==
  ASSUME OutputInv, NEW ok \in BOOLEAN, Sent(ok)
  PROVE  OutputInv'
<1>1. /\ sender = "send" /\ Finish(holding[1], ok) /\ holding' = <<>> /\ sender' = "check"
      /\ UNCHANGED <<backendVars, monitorVars, ended, outbound, closing, signalled, recorded>>
  BY DEF Sent
<1>2. /\ UNCHANGED <<pending, recorded>> /\ holding \in Seq(Attempt) /\ Len(holding) = 1
      /\ Current(holding) /\ Apart
  BY <1>1 DEF monitorVars, OutputInv, TypeOK, Attempts
<1>3. DOMAIN holding = {1} /\ holding[1] \in Attempt
  BY <1>2, LenProperties, ElementOfSeq
<1>4. holding' \in Seq(Attempt) /\ Len(holding') = 0 /\ DOMAIN holding' = {}
  BY <1>1, EmptySeq, LenProperties
<1>5. PICK try \in Attempt : try = holding[1]
  BY <1>3
<1>6. Finish(try, ok) /\ Awaits(try.key, try.attempt) /\ try.last = pending[try.key].last
  BY <1>1, <1>2, <1>3, <1>5 DEF Current
<1>7. \A i \in DOMAIN outbound' : /\ outbound'[i].key # try.key
                                  /\ \E j \in DOMAIN outbound : outbound[j] = outbound'[i]
  BY <1>1, <1>2, <1>3, <1>5 DEF Apart
<1>8. \A i, j \in DOMAIN outbound' : outbound'[i].key = outbound'[j].key => i = j
  BY <1>1, <1>2 DEF Apart
<1>9. \A i \in DOMAIN holding' : /\ holding'[i].key # try.key
                                 /\ \E j \in DOMAIN holding : holding[j] = holding'[i]
  BY <1>4
<1>10. \A i \in DOMAIN outbound : \/ outbound[i].key = try.key
                                  \/ \E j \in DOMAIN outbound' : outbound'[j] = outbound[i]
  BY <1>1
<1>11. \A i \in DOMAIN holding : \/ holding[i].key = try.key
                                 \/ \E j \in DOMAIN holding' : holding'[j] = holding[i]
  BY <1>3, <1>5
<1>12. \A r \in receipts : r.key # try.key
  BY <1>2, <1>3, <1>5 DEF Apart
<1>13. /\ Attempts' /\ Confirmations' /\ confirmed' \subseteq Keys
       /\ \A r \in receipts' : r \in [key : Keys, attempt : 1..MaxAttempts, ok : BOOLEAN]
  BY <1>2, <1>6, <1>7, <1>8, <1>9, <1>10, <1>11, <1>12, FinishKeeps
<1>14. Chain' /\ Forgets' /\ Numbered'
  BY <1>1, SenderLeaves
<1>15. TypeOK'
  BY <1>1, <1>4, <1>13 DEF OutputInv, TypeOK, backendVars, monitorVars
<1> QED BY <1>13, <1>14, <1>15 DEF OutputInv

-----------------------------------------------------------------------------
(* Receipts.                                                               *)

\* A receipt is of the attempt its batch awaits; the batch is then delivered,
\* to be tried again, or given up.
LEMMA ReceivedIs ==
  ASSUME OutputInv, NEW k \in DOMAIN pending
  PROVE  /\ Received(k) \in Batch
         /\ Received(k).last = pending[k].last /\ Received(k).attempt = pending[k].attempt
         /\ Received(k).state = "awaiting" =>
              Received(k) = pending[k] /\ \A r \in receipts : r.key # k
         /\ pending[k].state # "awaiting" => Received(k) = pending[k]
         /\ (\A r \in receipts : r.key # k) => Received(k) = pending[k]
         /\ Received(k).state \in {"collecting", "retry"} => Received(k).attempt < MaxAttempts
         /\ Received(k).state = "delivered" => EventsOf(k, pending[k].last) \subseteq confirmed
<1>1. /\ pending[k] \in Batch /\ pending[k].attempt \in Nat
      /\ \A r \in receipts : Awaits(r.key, r.attempt) /\ r.ok \in BOOLEAN
      /\ \A r \in receipts : r.ok => EventsOf(r.key, pending[r.key].last) \subseteq confirmed
      /\ pending[k].state = "delivered" => EventsOf(k, pending[k].last) \subseteq confirmed
      /\ pending[k].state \in {"collecting", "retry"} => pending[k].attempt < MaxAttempts
  BY Types, BatchIs DEF OutputInv, TypeOK, Attempts, Budget, Confirmations
<1>2. CASE ~ \E r \in receipts : Matches(r, k)
  <2>1. Received(k) = pending[k]
    BY <1>2 DEF Received
  <2>2. \A r \in receipts : r.key # k
    BY <1>1, <1>2 DEF Matches, Awaits
  <2> QED BY <2>1, <2>2, <1>1
<1>3. CASE \E r \in receipts : Matches(r, k)
  <2>1. PICK r \in receipts : Matches(r, k) /\ r = CHOOSE q \in receipts : Matches(q, k)
    BY <1>3
  <2>2. Received(k) = Answered(pending[k], r.ok) /\ r.key = k /\ pending[k].state = "awaiting" /\ r.ok \in BOOLEAN
    BY <2>1, <1>1 DEF Received, Matches
  <2>3. MaxAttempts \in Nat
    BY SessionOutputAssumption
  <2>4. CASE r.ok
    <3>1. Received(k) = [pending[k] EXCEPT !.state = "delivered"]
      BY <2>2, <2>4 DEF Answered
    <3>2. /\ Received(k) \in Batch /\ Received(k).last = pending[k].last
          /\ Received(k).attempt = pending[k].attempt /\ Received(k).state = "delivered"
      BY <3>1, <1>1 DEF Batch
    <3> QED BY <3>2, <2>1, <2>2, <2>4, <1>1
  <2>5. CASE ~r.ok /\ pending[k].attempt < MaxAttempts
    <3>1. Received(k) = [pending[k] EXCEPT !.state = "retry", !.due = FALSE]
      BY <2>2, <2>5 DEF Answered
    <3>2. /\ Received(k) \in Batch /\ Received(k).last = pending[k].last
          /\ Received(k).attempt = pending[k].attempt /\ Received(k).state = "retry"
      BY <3>1, <1>1 DEF Batch
    <3> QED BY <3>2, <2>1, <2>2, <2>5, <1>1
  <2>6. CASE ~r.ok /\ ~(pending[k].attempt < MaxAttempts)
    <3>1. Received(k) = [pending[k] EXCEPT !.state = "failed"]
      BY <2>2, <2>6 DEF Answered
    <3>2. /\ Received(k) \in Batch /\ Received(k).last = pending[k].last
          /\ Received(k).attempt = pending[k].attempt /\ Received(k).state = "failed"
      BY <3>1, <1>1 DEF Batch
    <3> QED BY <3>2, <2>1, <2>2, <1>1
  <2> QED BY <2>2, <2>4, <2>5, <2>6
<1> QED BY <1>2, <1>3

\* The monitor receives every receipt; old batches are then what the receipts
\* made of them or were extended while they collected, and new ones collect and
\* come behind the old ones.
LEMMA Collected ==
  ASSUME OutputInv, receipts' = {}, UNCHANGED <<outbound, holding, confirmed>>,
         DOMAIN pending \subseteq DOMAIN pending',
         \A k \in DOMAIN pending :
           \/ pending'[k] = Received(k)
           \/ /\ pending[k].state = "collecting" /\ pending'[k].state = "collecting"
              /\ pending'[k].attempt = pending[k].attempt,
         \A j \in DOMAIN pending' \ DOMAIN pending :
           /\ pending'[j].state = "collecting" /\ pending'[j].attempt = 0
           /\ \A k \in DOMAIN pending : j[1] = k[1] => k[2] <= j[2]
  PROVE  Attempts' /\ Confirmations'
<1>1. /\ Current(outbound) /\ Current(holding) /\ \A r \in receipts : Awaits(r.key, r.attempt)
      /\ Apart /\ FirstAwaits /\ Budget
  BY DEF OutputInv, Attempts
<1>2. ASSUME NEW k \in DOMAIN pending, pending[k].state = "awaiting", \A r \in receipts : r.key # k
      PROVE  pending'[k] = pending[k]
  BY <1>2, ReceivedIs
<1>3. ASSUME NEW k \in DOMAIN pending', pending'[k].state = "awaiting"
      PROVE  /\ k \in DOMAIN pending /\ pending'[k] = pending[k] /\ pending[k].state = "awaiting"
             /\ \A r \in receipts : r.key # k
  <2>1. k \in DOMAIN pending /\ pending'[k] = Received(k)
    BY <1>3
  <2> QED BY <2>1, <1>3, ReceivedIs
<1>4. Current(outbound)' /\ Current(holding)'
  <2>1. /\ \A i \in DOMAIN outbound : \A r \in receipts : outbound[i].key # r.key
        /\ \A i \in DOMAIN holding : \A r \in receipts : holding[i].key # r.key
    BY <1>1 DEF Apart
  <2>2. Current(outbound)'
    <3> SUFFICES ASSUME NEW i \in DOMAIN outbound
                 PROVE  /\ Awaits(outbound[i].key, outbound[i].attempt)'
                        /\ outbound[i].last = pending'[outbound[i].key].last
      BY DEF Current
    <3>1. /\ outbound[i].key \in DOMAIN pending /\ pending[outbound[i].key].state = "awaiting"
          /\ pending[outbound[i].key].attempt = outbound[i].attempt
          /\ outbound[i].last = pending[outbound[i].key].last
          /\ \A r \in receipts : r.key # outbound[i].key
      BY <1>1, <2>1 DEF Current, Awaits
    <3>2. pending'[outbound[i].key] = pending[outbound[i].key]
      BY <3>1, <1>2
    <3> QED BY <3>1, <3>2 DEF Awaits
  <2>3. Current(holding)'
    <3> SUFFICES ASSUME NEW i \in DOMAIN holding
                 PROVE  /\ Awaits(holding[i].key, holding[i].attempt)'
                        /\ holding[i].last = pending'[holding[i].key].last
      BY DEF Current
    <3>1. /\ holding[i].key \in DOMAIN pending /\ pending[holding[i].key].state = "awaiting"
          /\ pending[holding[i].key].attempt = holding[i].attempt
          /\ holding[i].last = pending[holding[i].key].last
          /\ \A r \in receipts : r.key # holding[i].key
      BY <1>1, <2>1 DEF Current, Awaits
    <3>2. pending'[holding[i].key] = pending[holding[i].key]
      BY <3>1, <1>2
    <3> QED BY <3>1, <3>2 DEF Awaits
  <2> QED BY <2>2, <2>3
<1>5. Budget'
  <2> SUFFICES ASSUME NEW k \in DOMAIN pending', pending'[k].state \in {"collecting", "retry"}
               PROVE  pending'[k].attempt < MaxAttempts
    BY DEF Budget
  <2>1. CASE k \in DOMAIN pending /\ pending'[k] = Received(k)
    BY <2>1, ReceivedIs
  <2>2. CASE k \in DOMAIN pending /\ pending'[k] # Received(k)
    BY <2>2, <1>1 DEF Budget
  <2>3. CASE k \notin DOMAIN pending
    BY <2>3, SessionOutputAssumption
  <2> QED BY <2>1, <2>2, <2>3
<1>6. Apart'
  BY <1>1 DEF Apart
<1>7. FirstAwaits'
  <2> SUFFICES ASSUME NEW k \in DOMAIN pending', pending'[k].state = "awaiting"
               PROVE  Underway(k)' /\ \A j \in DOMAIN pending' : j[1] = k[1] => k[2] <= j[2]
    BY DEF FirstAwaits
  <2>1. /\ k \in DOMAIN pending /\ pending[k].state = "awaiting" /\ \A r \in receipts : r.key # k
    BY <1>3
  <2>2. Underway(k) /\ \A j \in DOMAIN pending : j[1] = k[1] => k[2] <= j[2]
    BY <2>1, <1>1 DEF FirstAwaits
  <2>3. Underway(k)'
    BY <2>1, <2>2 DEF Underway
  <2>4. \A j \in DOMAIN pending' : j[1] = k[1] => k[2] <= j[2]
    BY <2>1, <2>2
  <2> QED BY <2>3, <2>4
<1>8. Attempts'
  BY <1>4, <1>5, <1>6, <1>7 DEF Attempts
<1>9. Confirmations'
  <2> SUFFICES ASSUME NEW k \in DOMAIN pending', pending'[k].state = "delivered"
               PROVE  EventsOf(k, pending'[k].last) \subseteq confirmed
    BY DEF Confirmations
  <2>1. k \in DOMAIN pending /\ pending'[k] = Received(k)
    OBVIOUS
  <2> QED BY <2>1, ReceivedIs
<1> QED BY <1>8, <1>9

LEMMA NoPollStep ==
  ASSUME OutputInv, NoPoll
  PROVE  OutputInv'
<1>1. /\ receipts' = {} /\ keys' = DOMAIN pending
      /\ pending' = [k \in DOMAIN pending |-> Received(k)]
      /\ UNCHANGED <<process, reading, lines, kept, front, next, overflow, stopped, cursor, ended,
                     outbound, sender, holding, closing, signalled, recorded, confirmed>>
  BY DEF NoPoll, backendVars, senderVars, history
<1>2. /\ DOMAIN pending' = DOMAIN pending
      /\ \A k \in DOMAIN pending : /\ pending'[k] = Received(k) /\ pending'[k] \in Batch
                                   /\ pending'[k].last = pending[k].last
                                   /\ pending[k].state \in Finished => pending'[k] = pending[k]
  BY <1>1, ReceivedIs DEF Finished
<1>3. TypeOK'
  BY <1>1, <1>2 DEF OutputInv, TypeOK
<1>4. Chain'
  <2>1. \A s \in Sessions : next'[s] \in Nat /\ next[s] <= next'[s]
    BY <1>1, Types
  <2> QED BY <2>1, <1>1, <1>2, ChainKept
<1>5. Attempts' /\ Confirmations'
  BY <1>1, <1>2, Collected
<1>6. Forgets' /\ Numbered'
  <2>1. \A k \in DOMAIN pending : pending[k].state \in Finished =>
          k \in DOMAIN pending' /\ pending'[k] = pending[k]
    BY <1>2
  <2> QED BY <1>1, <2>1 DEF OutputInv, Forgets, Numbered
<1> QED BY <1>3, <1>4, <1>5, <1>6 DEF OutputInv

-----------------------------------------------------------------------------
(* The poll: in which order events are polled, and which of them are new.  *)

LEMMA KeysFinite == IsFiniteSet(Keys)
BY LinesAre, FS_Product, SessionOutputAssumption DEF Keys

\* Polling orders the events.
LEMMA PollingOrder ==
  ASSUME OutputInv
  PROVE  /\ \A e, f \in Keys : e # f => Precedes(e, f) \/ Precedes(f, e)
         /\ \A e, f, g \in Keys : Precedes(e, f) /\ Precedes(f, g) => Precedes(e, g)
<1>1. cursor \in Nat /\ Sessions \subseteq Nat
  BY SessionOutputAssumption DEF OutputInv, TypeOK
<1>2. \A e \in Keys : e[1] \in Nat /\ e[2] \in Nat /\ e = <<e[1], e[2]>>
  BY <1>1, KeyIs
<1>3. ASSUME NEW s \in Nat, NEW t \in Nat, s # t
      PROVE  PolledBefore(s, t) \/ PolledBefore(t, s)
  BY <1>1, <1>3 DEF PolledBefore
<1>4. ASSUME NEW s \in Nat, NEW t \in Nat, NEW u \in Nat, PolledBefore(s, t), PolledBefore(t, u)
      PROVE  PolledBefore(s, u) /\ s # u
  BY <1>1, <1>4 DEF PolledBefore
<1>5. ASSUME NEW e \in Keys, NEW f \in Keys, e # f
      PROVE  Precedes(e, f) \/ Precedes(f, e)
  <2>1. CASE e[1] = f[1]
    <3>1. e[2] # f[2]
      BY <2>1, <1>2, <1>5
    <3> QED BY <3>1, <2>1, <1>2 DEF Precedes
  <2>2. CASE e[1] # f[1]
    BY <2>2, <1>2, <1>3 DEF Precedes
  <2> QED BY <2>1, <2>2
<1>6. ASSUME NEW e \in Keys, NEW f \in Keys, NEW g \in Keys, Precedes(e, f), Precedes(f, g)
      PROVE  Precedes(e, g)
  <2>1. CASE e[1] = f[1] /\ f[1] = g[1]
    BY <2>1, <1>2, <1>6 DEF Precedes
  <2>2. CASE e[1] # f[1] /\ f[1] # g[1]
    <3>1. PolledBefore(e[1], f[1]) /\ PolledBefore(f[1], g[1])
      BY <2>2, <1>6 DEF Precedes
    <3> QED BY <3>1, <1>2, <1>4 DEF Precedes
  <2>3. CASE e[1] = f[1] /\ f[1] # g[1]
    BY <2>3, <1>6 DEF Precedes
  <2>4. CASE e[1] # f[1] /\ f[1] = g[1]
    BY <2>4, <1>6 DEF Precedes
  <2> QED BY <2>1, <2>2, <2>3, <2>4
<1> QED BY <1>5, <1>6

\* Of a session, the poll takes the first events.
LEMMA PolledPrefix ==
  ASSUME OutputInv, NEW e \in Polled, NEW f \in Events, f[1] = e[1], f[2] < e[2]
  PROVE  f \in Polled
<1> DEFINE Before(x) == {g \in Events : Precedes(g, x)}
<1>1. e \in Events /\ Cardinality(Before(e)) < MaxPolled
  BY DEF Polled
<1>2. e \in Keys /\ f \in Keys /\ Precedes(f, e)
  BY <1>1 DEF Events, Precedes
<1>3. Before(f) \in SUBSET Before(e)
  BY <1>2, PollingOrder DEF Events
<1>4. IsFiniteSet(Before(e))
  <2>1. Before(e) \in SUBSET Keys
    BY DEF Events
  <2> HIDE DEF Before
  <2> QED BY <2>1, KeysFinite, FS_Subset
<1>5. IsFiniteSet(Before(f)) /\ Cardinality(Before(f)) <= Cardinality(Before(e))
  <2> HIDE DEF Before
  <2> QED BY <1>3, <1>4, FS_Subset
<1>6. Cardinality(Before(f)) \in Nat /\ Cardinality(Before(e)) \in Nat /\ MaxPolled \in Nat
  <2> HIDE DEF Before
  <2> QED BY <1>4, <1>5, FS_CardinalityType, SessionOutputAssumption
<1>7. Cardinality(Before(f)) < MaxPolled
  <2> HIDE DEF Before
  <2> QED BY <1>1, <1>5, <1>6
<1> QED BY <1>7 DEF Polled

\* The cursor is left at the session of the last polled event.
LEMMA CursorIs ==
  ASSUME OutputInv, BackendPolls(Polled)
  PROVE  cursor' \in Sessions \cup {0}
<1>1. CASE Polled = {}
  BY <1>1 DEF BackendPolls, OutputInv, TypeOK
<1>2. CASE Polled # {}
  <2> DEFINE R == {p \in Keys \X Keys : Precedes(p[1], p[2])}
  <2>1. \A x, y \in Keys : <<x, y>> \in R <=> Precedes(x, y)
    OBVIOUS
  <2>2. Polled \in SUBSET Keys
    BY DEF Polled, Events
  <2>3. IsFiniteSet(Polled)
    BY <2>2, KeysFinite, FS_Subset
  <2>4. \E e \in Polled : \A f \in Polled \ {e} : <<f, e>> \in R
    <3>1. \A x, y \in Polled : x # y => <<x, y>> \in R \/ <<y, x>> \in R
      BY <2>1, <2>2, PollingOrder
    <3>2. \A x, y, z \in Polled : <<x, y>> \in R /\ <<y, z>> \in R => <<x, z>> \in R
      BY <2>1, <2>2, PollingOrder
    <3> HIDE DEF R
    <3> QED BY <3>1, <3>2, <2>3, <1>2, LastOfFinite
  <2>5. \E e \in Polled : \A f \in Polled \ {e} : Precedes(f, e)
    <3> HIDE DEF R
    <3> QED BY <2>1, <2>2, <2>4
  <2>6. PICK e \in Polled : e = CHOOSE x \in Polled : \A f \in Polled \ {x} : Precedes(f, x)
    BY <2>5
  <2>7. cursor' = e[1]
    BY <2>6, <1>2 DEF BackendPolls
  <2> QED BY <2>7, <2>2, <2>6, KeyIs
<1> QED BY <1>1, <1>2

\* A new event is behind every batch of its session, and nothing is missing
\* before it.
LEMMA NewIs ==
  ASSUME OutputInv, NEW e \in New(Polled)
  PROVE  /\ e \in Keys /\ e[1] \in Sessions /\ e[2] \in Nat
         /\ recorded[e[1]] < e[2] /\ e[2] < next[e[1]]
         /\ \A k \in DOMAIN pending : k[1] = e[1] => pending[k].last < e[2]
         /\ \A n \in Nat : recorded[e[1]] < n /\ n < e[2] =>
              \/ \E j \in DOMAIN pending : j[1] = e[1] /\ j[2] <= n /\ n <= pending[j].last
              \/ <<e[1], n>> \in New(Polled)
<1>1. e \in Polled /\ e \in Events /\ e \in Keys /\ ~Known(e) /\ e[1] \in kept /\ e[2] \in Queued(e[1])
  BY DEF New, Polled, Events
<1>2. /\ e[1] \in Sessions /\ e[2] \in Lines /\ e[2] \in Nat
      /\ recorded[e[1]] \in Nat /\ front[e[1]] \in Nat /\ next[e[1]] \in Nat
      /\ recorded[e[1]] < front[e[1]]
  BY <1>1, KeyIs, Types DEF OutputInv, Forgets
<1>3. front[e[1]] <= e[2] /\ e[2] < next[e[1]]
  BY <1>1, <1>2, QueuedIs
<1>4. ASSUME NEW k \in DOMAIN pending, k[1] = e[1]
      PROVE  pending[k].last < e[2]
  <2>1. pending[k].last \in Nat
    BY Types
  <2>2. SUFFICES ASSUME e[2] <= pending[k].last PROVE FALSE
    BY <2>1, <1>2
  <2>3. e[2] \in recorded[k[1]] + 1..pending[k].last
    BY <2>1, <2>2, <1>2, <1>3, <1>4
  <2>4. PICK j \in DOMAIN pending : j[1] = k[1] /\ j[2] <= e[2] /\ e[2] <= pending[j].last
    BY <2>3 DEF OutputInv, Chain
  <2> QED BY <2>4, <1>1, <1>4 DEF Known, Of
<1>5. ASSUME NEW n \in Nat, recorded[e[1]] < n, n < e[2],
             ~ \E j \in DOMAIN pending : j[1] = e[1] /\ j[2] <= n /\ n <= pending[j].last
      PROVE  <<e[1], n>> \in New(Polled)
  <2>1. front[e[1]] <= n
    <3>1. CASE front[e[1]] = recorded[e[1]] + 1
      BY <3>1, <1>2, <1>5
    <3>2. CASE front[e[1]] # recorded[e[1]] + 1
      <4>1. PICK k \in DOMAIN pending : k[1] = e[1] /\ k[2] = recorded[e[1]] + 1 /\ front[e[1]] = pending[k].last + 1
        BY <3>2, <1>2 DEF OutputInv, Forgets
      <4>2. pending[k].last \in Nat
        BY Types
      <4> QED BY <4>1, <4>2, <1>2, <1>5
    <3> QED BY <3>1, <3>2
  <2>2. n \in Queued(e[1])
    BY <2>1, <1>2, <1>3, <1>5, QueuedIs
  <2>3. n \in Lines
    BY <1>2, <1>5, LinesAre
  <2>4. PICK f \in Keys : f = <<e[1], n>> /\ f[1] = e[1] /\ f[2] = n
    <3>1. <<e[1], n>> \in Keys
      BY <2>3, <1>2 DEF Keys
    <3> QED BY <3>1
  <2>5. f \in Events
    BY <2>2, <2>4, <1>1 DEF Events
  <2>6. f \in Polled
    BY <2>4, <2>5, <1>1, <1>5, PolledPrefix
  <2>7. ~Known(f)
    BY <2>4, <1>5 DEF Known, Of
  <2> QED BY <2>4, <2>6, <2>7 DEF New
<1> QED BY <1>1, <1>2, <1>3, <1>4, <1>5

-----------------------------------------------------------------------------
(* The poll: which batches the new events begin and extend.                *)

LEMMA LastOfIs ==
  ASSUME OutputInv, NEW s, Of(s) # {}
  PROVE  LastOf(s) \in DOMAIN pending /\ LastOf(s)[1] = s /\ \A j \in Of(s) : j[2] <= LastOf(s)[2]
<1> DEFINE Firsts == {k[2] : k \in Of(s)}
<1>1. \A k \in Of(s) : k \in DOMAIN pending /\ k[1] = s
  BY DEF Of
<1>2. PICK x \in Of(s) : TRUE
  OBVIOUS
<1>3. /\ s \in Sessions /\ next[s] \in Nat
      /\ \A k \in Of(s) : k[2] \in Nat /\ pending[k].last \in Nat
  BY <1>1, <1>2, Types
<1>4. \A k \in Of(s) : k[2] <= next[s]
  BY <1>1, <1>3 DEF OutputInv, Chain
<1>5. Firsts \in SUBSET Nat /\ Firsts # {} /\ \A i \in Firsts : i <= next[s]
  BY <1>2, <1>3, <1>4
<1>6. PICK i \in Firsts : \A j \in Firsts : j <= i
  <2> HIDE DEF Firsts
  <2> QED BY <1>3, <1>5, LargestOf
<1>7. \E k \in Of(s) : \A j \in Of(s) : j[2] <= k[2]
  BY <1>6
<1>8. LastOf(s) \in Of(s) /\ \A j \in Of(s) : j[2] <= LastOf(s)[2]
  BY <1>7 DEF LastOf
<1> QED BY <1>1, <1>8

\* How far the new events carry a batch that begins with k.
LEMMA ReachIs ==
  ASSUME OutputInv, NEW k \in Keys, k[2] < next[k[1]],
         NEW new \in SUBSET Keys, \A e \in new : e[2] < next[e[1]], NEW cuts \in SUBSET new
  PROVE  /\ Reach(k, new, cuts) \in Lines /\ Reach(k, new, cuts) \in Nat
         /\ k[2] <= Reach(k, new, cuts) /\ Reach(k, new, cuts) < next[k[1]]
         /\ Reach(k, new, cuts) = k[2] \/ <<k[1], Reach(k, new, cuts)>> \in new
         /\ \A c \in cuts : c[1] = k[1] /\ k[2] < c[2] => Reach(k, new, cuts) < c[2]
         /\ \A e \in new : e[1] = k[1] /\ k[2] <= e[2] /\ (\A c \in cuts : c[1] = k[1] /\ k[2] < c[2] => e[2] < c[2])
              => e[2] <= Reach(k, new, cuts)
<1> DEFINE run == {n \in Lines : /\ <<k[1], n>> \in new \cup {k} /\ n >= k[2]
                                 /\ ~ \E c \in cuts : c[1] = k[1] /\ k[2] < c[2] /\ c[2] <= n}
           r == Reach(k, new, cuts)
<1>1. /\ k[1] \in Sessions /\ k[2] \in Lines /\ k[2] \in Nat /\ k = <<k[1], k[2]>> /\ next[k[1]] \in Nat
      /\ Lines \subseteq Nat
  BY KeyIs, Types, LinesAre
<1>2. \A e \in new : e \in Keys /\ e[2] \in Lines /\ e[2] \in Nat /\ e = <<e[1], e[2]>>
  BY KeyIs
<1>3. \A n \in run : n \in Nat /\ n <= next[k[1]] /\ n < next[k[1]]
  <2> SUFFICES ASSUME NEW n \in run
               PROVE  n \in Nat /\ n < next[k[1]]
    BY <1>1
  <2>1. n \in Nat
    BY <1>1
  <2>2. CASE <<k[1], n>> \in new
    <3>1. PICK e \in new : e = <<k[1], n>>
      BY <2>2
    <3>2. e[1] = k[1] /\ e[2] = n
      BY <3>1
    <3> QED BY <3>2, <2>1
  <2>3. CASE <<k[1], n>> = k
    <3>1. n = k[2]
      BY <2>3, <1>1
    <3> QED BY <3>1, <2>1
  <2> QED BY <2>2, <2>3
<1>4. k[2] \in run
  <2>1. ~ \E c \in cuts : c[1] = k[1] /\ k[2] < c[2] /\ c[2] <= k[2]
    BY <1>1, <1>2
  <2> QED BY <2>1, <1>1
<1>5. r \in run /\ \A m \in run : m <= r
  <2>1. r = CHOOSE n \in run : \A m \in run : m <= n
    BY DEF Reach
  <2>2. run \in SUBSET Nat /\ run # {} /\ \A n \in run : n <= next[k[1]]
    BY <1>3, <1>4
  <2> HIDE DEF run, r
  <2>3. \E n \in run : \A m \in run : m <= n
    BY <2>2, <1>1, LargestOf
  <2> QED BY <2>1, <2>3
<1>6. r \in Lines /\ r \in Nat /\ k[2] <= r /\ r < next[k[1]]
  <2>1. r \in run
    BY <1>5
  <2> HIDE DEF r
  <2> QED BY <2>1, <1>1, <1>3
<1>7. r = k[2] \/ <<k[1], r>> \in new
  <2>1. r \in run
    BY <1>5
  <2> HIDE DEF r
  <2>2. <<k[1], r>> \in new \/ <<k[1], r>> = k
    BY <2>1
  <2> QED BY <2>2, <1>1
<1>8. ASSUME NEW c \in cuts, c[1] = k[1], k[2] < c[2]
      PROVE  r < c[2]
  <2>1. r \in run
    BY <1>5
  <2> HIDE DEF r
  <2>2. ~(c[2] <= r)
    BY <2>1, <1>8
  <2>3. r \in Nat /\ c[2] \in Nat
    BY <2>1, <1>2, <1>3
  <2> QED BY <2>2, <2>3
<1>9. ASSUME NEW e \in new, e[1] = k[1], k[2] <= e[2],
             \A c \in cuts : c[1] = k[1] /\ k[2] < c[2] => e[2] < c[2]
      PROVE  e[2] <= r
  <2>1. \A c \in cuts : c[1] = k[1] /\ k[2] < c[2] => ~(c[2] <= e[2])
    BY <1>2, <1>9
  <2>2. e[2] \in run
    BY <2>1, <1>1, <1>2, <1>9
  <2> HIDE DEF run, r
  <2> QED BY <2>2, <1>5
<1> HIDE DEF r
<1>10. r = Reach(k, new, cuts)
  BY DEF r
<1> QED BY <1>6, <1>7, <1>8, <1>9, <1>10

\* Of the new events of a session there is a first one.
LEMMA FirstNew ==
  ASSUME NEW new \in SUBSET Keys, NEW f \in new
  PROVE  \E e \in new : e[1] = f[1] /\ e[2] <= f[2] /\ \A g \in new : g[1] = f[1] => e[2] <= g[2]
<1> DEFINE N == {e[2] : e \in {x \in new : x[1] = f[1]}}
<1>1. \A e \in new : e[2] \in Nat
  BY KeyIs
<1>2. N \in SUBSET Nat /\ f[2] \in N
  BY <1>1
<1>3. PICK n \in N : \A m \in N : n <= m
  <2> HIDE DEF N
  <2> QED BY <1>2, SmallestOf
<1>4. PICK e \in new : e[1] = f[1] /\ e[2] = n
  OBVIOUS
<1> QED BY <1>3, <1>4

\* Of the batches that begin at or before a new event there is a last one.
LEMMA LastCut ==
  ASSUME NEW new \in SUBSET Keys, NEW cuts \in SUBSET new, NEW f \in new,
         NEW d \in cuts, d[1] = f[1], d[2] <= f[2]
  PROVE  \E c \in cuts : /\ c[1] = f[1] /\ c[2] <= f[2]
                         /\ \A b \in cuts : b[1] = f[1] /\ c[2] < b[2] => f[2] < b[2]
<1> DEFINE N == {e[2] : e \in {x \in cuts : x[1] = f[1] /\ x[2] <= f[2]}}
<1>1. \A e \in new : e[2] \in Nat
  BY KeyIs
<1>2. N \in SUBSET Nat /\ d[2] \in N /\ f[2] \in Nat /\ \A n \in N : n <= f[2]
  BY <1>1
<1>3. PICK n \in N : \A m \in N : m <= n
  <2> HIDE DEF N
  <2> QED BY <1>2, LargestOf
<1>4. PICK c \in cuts : c[1] = f[1] /\ c[2] <= f[2] /\ c[2] = n
  OBVIOUS
<1>5. ASSUME NEW b \in cuts, b[1] = f[1], c[2] < b[2]
      PROVE  f[2] < b[2]
  <2>1. b[2] <= f[2] => b[2] <= n
    BY <1>3, <1>5
  <2>2. b[2] \in Nat /\ n \in Nat /\ f[2] \in Nat
    BY <1>1, <1>2
  <2> QED BY <2>1, <2>2, <1>4, <1>5
<1> QED BY <1>4, <1>5

\* Where the last batch of a session is extended, it was collecting: had it not
\* been, the first new event would have begun a batch.
LEMMA ExtendsCollecting ==
  ASSUME OutputInv, NEW cuts \in SUBSET New(Polled),
         \A e \in New(Polled) \ cuts : Joins(e, New(Polled)),
         NEW k \in DOMAIN pending, k = LastOf(k[1]),
         NEW f \in New(Polled), f[1] = k[1],
         \A c \in cuts : c[1] = k[1] /\ k[2] < c[2] => f[2] < c[2]
  PROVE  pending[k].state = "collecting"
<1>1. New(Polled) \in SUBSET Keys
  BY DEF New, Polled, Events
<1>2. PICK e \in New(Polled) : e[1] = f[1] /\ e[2] <= f[2] /\ \A g \in New(Polled) : g[1] = f[1] => e[2] <= g[2]
  <2> DEFINE N == New(Polled)
  <2>1. N \in SUBSET Keys /\ f \in N
    BY <1>1
  <2> HIDE DEF N
  <2>2. \E e \in N : e[1] = f[1] /\ e[2] <= f[2] /\ \A g \in N : g[1] = f[1] => e[2] <= g[2]
    BY <2>1, FirstNew
  <2> QED BY <2>2 DEF N
<1>3. /\ pending[k].last < e[2] /\ e[2] \in Nat /\ f[2] \in Nat
      /\ k[2] \in Nat /\ pending[k].last \in Nat /\ k[2] <= pending[k].last
  BY <1>2, NewIs, Types DEF OutputInv, Chain
<1>4. e \notin cuts
  BY <1>2, <1>3
<1>5. Joins(e, New(Polled))
  BY <1>2, <1>4
<1>6. ~ \E g \in New(Polled) : g[1] = e[1] /\ g[2] < e[2]
  <2> SUFFICES ASSUME NEW g \in New(Polled), g[1] = e[1], g[2] < e[2]
               PROVE  FALSE
    OBVIOUS
  <2>1. e[2] <= g[2] /\ g[2] \in Nat
    BY <1>1, <1>2, KeyIs
  <2> QED BY <2>1, <1>3
<1> QED BY <1>2, <1>5, <1>6 DEF Joins

LEMMA EnqueuedIs ==
  ASSUME OutputInv, NEW cuts \in SUBSET New(Polled),
         \A e \in New(Polled) \ cuts : Joins(e, New(Polled)), pending' = Enqueued(New(Polled), cuts)
  PROVE  /\ DOMAIN pending' = DOMAIN pending \cup cuts
         /\ \A k \in DOMAIN pending' : pending'[k] \in Batch
         /\ \A k \in cuts : /\ k \notin DOMAIN pending
                            /\ pending'[k].last = Reach(k, New(Polled), cuts)
                            /\ pending'[k].state = "collecting" /\ pending'[k].attempt = 0
         /\ \A k \in DOMAIN pending :
              /\ pending[k].last <= pending'[k].last
              /\ k = LastOf(k[1]) => Reach(k, New(Polled), cuts) <= pending'[k].last
              /\ \/ pending'[k] = Received(k) /\ pending'[k].last = pending[k].last
                 \/ /\ k = LastOf(k[1]) /\ pending'[k].last = Reach(k, New(Polled), cuts)
                    /\ pending[k].state = "collecting" /\ pending'[k].state = "collecting"
                    /\ pending'[k].attempt = pending[k].attempt
<1> DEFINE reach(k) == Reach(k, New(Polled), cuts)
           fresh(k) == [last |-> reach(k), attempt |-> 0, due |-> FALSE, state |-> "collecting"]
           longer(k) == [pending[k] EXCEPT !.last = reach(k)]
<1>1. pending' = [k \in DOMAIN pending \cup cuts |->
                    IF k \in cuts THEN fresh(k)
                    ELSE IF k = LastOf(k[1]) /\ reach(k) > pending[k].last THEN longer(k)
                    ELSE Received(k)]
  BY DEF Enqueued
<1>2. New(Polled) \in SUBSET Keys /\ \A e \in New(Polled) : e[2] < next[e[1]]
  BY NewIs DEF New, Polled, Events
<1>3. ASSUME NEW k \in Keys, k[2] < next[k[1]]
      PROVE  /\ reach(k) \in Lines /\ reach(k) \in Nat
             /\ reach(k) = k[2] \/ <<k[1], reach(k)>> \in New(Polled)
             /\ \A c \in cuts : c[1] = k[1] /\ k[2] < c[2] => reach(k) < c[2]
  <2> DEFINE N == New(Polled)
  <2>1. N \in SUBSET Keys /\ (\A e \in N : e[2] < next[e[1]]) /\ cuts \in SUBSET N
    BY <1>2
  <2> HIDE DEF N
  <2>2. /\ Reach(k, N, cuts) \in Lines /\ Reach(k, N, cuts) \in Nat
        /\ Reach(k, N, cuts) = k[2] \/ <<k[1], Reach(k, N, cuts)>> \in N
        /\ \A c \in cuts : c[1] = k[1] /\ k[2] < c[2] => Reach(k, N, cuts) < c[2]
    BY <2>1, <1>3, ReachIs
  <2> QED BY <2>2 DEF N
<1> HIDE DEF reach
<1>4. ASSUME NEW k \in cuts
      PROVE  /\ k \notin DOMAIN pending /\ pending'[k] = fresh(k) /\ fresh(k) \in Batch
             /\ k \in Keys
  <2>1. k \in Keys /\ k[2] < next[k[1]] /\ k[2] \in Nat
    BY <1>2, NewIs
  <2>2. k \notin DOMAIN pending
    <3> SUFFICES ASSUME k \in DOMAIN pending PROVE FALSE
      OBVIOUS
    <3>1. pending[k].last < k[2]
      BY NewIs
    <3>2. pending[k].last \in Nat /\ k[2] <= pending[k].last
      BY Types DEF OutputInv, Chain
    <3> QED BY <3>1, <3>2, <2>1
  <2>3. reach(k) \in Lines
    BY <2>1, <1>3
  <2>4. fresh(k) \in Batch
    BY <2>3, SessionOutputAssumption DEF Batch
  <2>5. pending'[k] = fresh(k)
    BY <1>1
  <2> QED BY <2>1, <2>2, <2>4, <2>5
<1>5. ASSUME NEW k \in DOMAIN pending
      PROVE  /\ pending'[k] \in Batch
             /\ pending[k].last <= pending'[k].last
             /\ k = LastOf(k[1]) => reach(k) <= pending'[k].last
             /\ \/ pending'[k] = Received(k) /\ pending'[k].last = pending[k].last
                \/ /\ k = LastOf(k[1]) /\ pending'[k].last = reach(k)
                   /\ pending[k].state = "collecting" /\ pending'[k].state = "collecting"
                   /\ pending'[k].attempt = pending[k].attempt
  <2>1. /\ k \in Keys /\ pending[k] \in Batch /\ pending[k].last \in Nat /\ k[2] \in Nat
        /\ k[2] <= pending[k].last /\ pending[k].last < next[k[1]] /\ next[k[1]] \in Nat
    BY Types DEF OutputInv, Chain
  <2>2. k[2] < next[k[1]]
    BY <2>1
  <2>3. reach(k) \in Lines /\ reach(k) \in Nat
    BY <2>1, <2>2, <1>3
  <2>4. k \notin cuts
    BY <1>4
  <2>5. CASE k = LastOf(k[1]) /\ reach(k) > pending[k].last
    <3>1. pending'[k] = longer(k)
      BY <1>1, <2>4, <2>5
    <3>2. reach(k) # k[2]
      BY <2>1, <2>3, <2>5
    <3>3. PICK f \in New(Polled) : f = <<k[1], reach(k)>> /\ f[1] = k[1] /\ f[2] = reach(k)
      <4>1. <<k[1], reach(k)>> \in New(Polled)
        BY <3>2, <2>1, <2>2, <1>3
      <4> QED BY <4>1
    <3>4. \A c \in cuts : c[1] = k[1] /\ k[2] < c[2] => f[2] < c[2]
      BY <3>3, <2>1, <2>2, <1>3
    <3>5. pending[k].state = "collecting"
      BY <3>3, <3>4, <2>5, ExtendsCollecting
    <3>6. /\ longer(k) \in Batch /\ longer(k).last = reach(k) /\ longer(k).state = pending[k].state
          /\ longer(k).attempt = pending[k].attempt
      BY <2>1, <2>3 DEF Batch
    <3> QED BY <3>1, <3>5, <3>6, <2>1, <2>3, <2>5
  <2>6. CASE ~(k = LastOf(k[1]) /\ reach(k) > pending[k].last)
    <3>1. pending'[k] = Received(k)
      BY <1>1, <2>4, <2>6
    <3>2. Received(k) \in Batch /\ Received(k).last = pending[k].last
      BY ReceivedIs
    <3> QED BY <3>1, <3>2, <2>1, <2>3, <2>6
  <2> QED BY <2>5, <2>6
<1>6. /\ DOMAIN pending' = DOMAIN pending \cup cuts
      /\ \A k \in DOMAIN pending' : pending'[k] \in Batch
  BY <1>1, <1>4, <1>5
<1>7. ASSUME NEW k \in cuts
      PROVE  pending'[k].last = reach(k) /\ pending'[k].state = "collecting" /\ pending'[k].attempt = 0
  <2>1. pending'[k] = [last |-> reach(k), attempt |-> 0, due |-> FALSE, state |-> "collecting"]
    BY <1>4
  <2> QED BY <2>1
<1>8. \A k : reach(k) = Reach(k, New(Polled), cuts)
  BY DEF reach
<1> QED BY <1>4, <1>5, <1>6, <1>7, <1>8

\* A new event belongs to a batch.
LEMMA NewCovered ==
  ASSUME OutputInv, NEW cuts \in SUBSET New(Polled),
         \A e \in New(Polled) \ cuts : Joins(e, New(Polled)), pending' = Enqueued(New(Polled), cuts),
         NEW f \in New(Polled)
  PROVE  \E j \in DOMAIN pending' : j[1] = f[1] /\ j[2] <= f[2] /\ f[2] <= pending'[j].last
<1>1. PICK new : new = New(Polled)
  OBVIOUS
<1>2. /\ new \in SUBSET Keys /\ cuts \in SUBSET new /\ f \in new /\ f \in Keys
      /\ \A e \in new : e[2] < next[e[1]] /\ e[2] \in Nat
  BY <1>1, NewIs DEF New, Polled, Events
<1>3. ASSUME NEW k \in Keys, k[2] < next[k[1]], k[1] = f[1], k[2] <= f[2],
             \A c \in cuts : c[1] = k[1] /\ k[2] < c[2] => f[2] < c[2]
      PROVE  f[2] <= Reach(k, new, cuts) /\ Reach(k, new, cuts) \in Nat
  BY <1>2, <1>3, ReachIs
<1>4. CASE \E d \in cuts : d[1] = f[1] /\ d[2] <= f[2]
  <2>1. PICK c \in cuts : /\ c[1] = f[1] /\ c[2] <= f[2]
                          /\ \A b \in cuts : b[1] = f[1] /\ c[2] < b[2] => f[2] < b[2]
    BY <1>2, <1>4, LastCut
  <2>2. c \in Keys /\ c[2] < next[c[1]]
    BY <1>2
  <2>3. f[2] <= Reach(c, new, cuts)
    BY <1>3, <2>1, <2>2
  <2>4. c \in DOMAIN pending' /\ pending'[c].last = Reach(c, new, cuts)
    BY <1>1, EnqueuedIs
  <2> QED BY <2>1, <2>3, <2>4
<1>5. CASE ~ \E d \in cuts : d[1] = f[1] /\ d[2] <= f[2]
  <2>1. PICK e \in new : e[1] = f[1] /\ e[2] <= f[2] /\ \A g \in new : g[1] = f[1] => e[2] <= g[2]
    BY <1>2, FirstNew
  <2>2. Joins(e, new)
    BY <1>1, <1>5, <2>1
  <2>3. ~ \E g \in new : g[1] = e[1] /\ g[2] < e[2]
    <3> SUFFICES ASSUME NEW g \in new, g[1] = e[1], g[2] < e[2]
                 PROVE  FALSE
      OBVIOUS
    <3>1. e[2] <= g[2] /\ g[2] \in Nat /\ e[2] \in Nat
      BY <1>2, <2>1
    <3> QED BY <3>1
  <2>4. Of(e[1]) # {}
    BY <2>2, <2>3 DEF Joins
  <2>5. PICK k : k = LastOf(e[1])
    OBVIOUS
  <2>6. k \in DOMAIN pending /\ k[1] = f[1] /\ k = LastOf(k[1])
    BY <2>1, <2>4, <2>5, LastOfIs
  <2>7. /\ k \in Keys /\ k[2] \in Nat /\ pending[k].last \in Nat /\ next[k[1]] \in Nat
        /\ k[2] <= pending[k].last /\ pending[k].last < next[k[1]]
    BY <2>6, Types DEF OutputInv, Chain
  <2>8. pending[k].last < f[2] /\ f[2] \in Nat
    BY <1>1, <1>2, <2>6, NewIs
  <2>9. \A c \in cuts : c[1] = k[1] /\ k[2] < c[2] => f[2] < c[2]
    BY <1>2, <1>5, <2>6, <2>8
  <2>10. k[2] < next[k[1]] /\ k[2] <= f[2]
    BY <2>7, <2>8
  <2>11. f[2] <= Reach(k, new, cuts) /\ Reach(k, new, cuts) \in Nat
    BY <1>3, <2>6, <2>7, <2>9, <2>10
  <2>12. Reach(k, new, cuts) <= pending'[k].last /\ k \in DOMAIN pending' /\ pending'[k] \in Batch
    BY <1>1, <2>6, EnqueuedIs
  <2>13. pending'[k].last \in Nat
    BY <2>12, BatchIs
  <2> QED BY <2>6, <2>8, <2>10, <2>11, <2>12, <2>13
<1> QED BY <1>4, <1>5

\* The batches still make up a chain.
LEMMA ChainGrows ==
  ASSUME OutputInv, NEW cuts \in SUBSET New(Polled),
         \A e \in New(Polled) \ cuts : Joins(e, New(Polled)), pending' = Enqueued(New(Polled), cuts),
         UNCHANGED <<recorded, next>>
  PROVE  Chain'
<1>1. PICK new : new = New(Polled)
  OBVIOUS
<1>2. /\ new \in SUBSET Keys /\ cuts \in SUBSET new
      /\ \A e \in new : /\ e[2] < next[e[1]] /\ e[2] \in Nat /\ e[1] \in Sessions /\ recorded[e[1]] < e[2]
                        /\ \A k \in DOMAIN pending : k[1] = e[1] => pending[k].last < e[2]
  BY <1>1, NewIs DEF New, Polled, Events
<1>3. /\ \A k \in DOMAIN pending : /\ k \in Keys /\ k[1] \in Sessions /\ k[2] \in Nat /\ pending[k].last \in Nat
                                   /\ recorded[k[1]] < k[2] /\ k[2] <= pending[k].last
                                   /\ pending[k].last < next[k[1]]
      /\ \A s \in Sessions : next[s] \in Nat /\ recorded[s] \in Nat
  BY Types DEF OutputInv, Chain
<1>4. /\ DOMAIN pending' = DOMAIN pending \cup cuts
      /\ \A k \in cuts : k \notin DOMAIN pending /\ pending'[k].last = Reach(k, new, cuts)
      /\ \A k \in DOMAIN pending :
           /\ pending[k].last <= pending'[k].last
           /\ \/ pending'[k].last = pending[k].last
              \/ k = LastOf(k[1]) /\ pending'[k].last = Reach(k, new, cuts)
  BY <1>1, EnqueuedIs
<1>5. \A k \in DOMAIN pending' : k \in Keys /\ k[1] \in Sessions /\ k[2] \in Nat /\ pending'[k].last \in Nat
  BY <1>1, <1>4, EnqueuedIs, BatchIs, <1>2, <1>3
<1>6. \A k \in DOMAIN pending' : k[2] < next[k[1]] /\ recorded[k[1]] < k[2]
  BY <1>2, <1>3, <1>4
<1>7. ASSUME NEW k \in DOMAIN pending'
      PROVE  /\ k[2] <= Reach(k, new, cuts) /\ Reach(k, new, cuts) < next[k[1]] /\ Reach(k, new, cuts) \in Nat
             /\ \A c \in cuts : c[1] = k[1] /\ k[2] < c[2] => Reach(k, new, cuts) < c[2]
  BY <1>2, <1>5, <1>6, ReachIs
<1>8. ASSUME NEW k \in DOMAIN pending'
      PROVE  recorded'[k[1]] < k[2] /\ k[2] <= pending'[k].last /\ pending'[k].last < next'[k[1]]
  <2>1. CASE k \in cuts
    BY <2>1, <1>4, <1>6, <1>7
  <2>2. CASE k \in DOMAIN pending
    <3>1. recorded[k[1]] < k[2] /\ k[2] <= pending[k].last /\ pending[k].last < next[k[1]]
      BY <2>2, <1>3
    <3> QED BY <3>1, <2>2, <1>4, <1>7
  <2> QED BY <2>1, <2>2, <1>4
<1>9. ASSUME NEW j \in DOMAIN pending', NEW k \in DOMAIN pending', j[1] = k[1], j[2] < k[2]
      PROVE  pending'[j].last < k[2]
  <2>1. CASE k \in cuts
    <3>1. Reach(j, new, cuts) < k[2]
      BY <2>1, <1>7, <1>9
    <3>2. j \in DOMAIN pending => pending[j].last < k[2]
      BY <2>1, <1>2, <1>9
    <3> QED BY <3>1, <3>2, <1>4
  <2>2. CASE k \in DOMAIN pending /\ j \in cuts
    <3>1. pending[k].last < j[2] /\ k[2] <= pending[k].last
      BY <2>2, <1>2, <1>3, <1>9
    <3> QED BY <3>1, <2>2, <1>3, <1>5, <1>9
  <2>3. CASE k \in DOMAIN pending /\ j \in DOMAIN pending
    <3>1. pending[j].last < k[2]
      BY <2>3, <1>9 DEF OutputInv, Chain
    <3>2. j # LastOf(j[1])
      <4> SUFFICES ASSUME j = LastOf(j[1]) PROVE FALSE
        OBVIOUS
      <4>1. k \in Of(j[1])
        BY <2>3, <1>9 DEF Of
      <4>2. k[2] <= j[2]
        BY <4>1, LastOfIs
      <4> QED BY <4>2, <1>5, <1>9
    <3> QED BY <3>1, <3>2, <2>3, <1>4
  <2> QED BY <2>1, <2>2, <2>3, <1>4
<1>10. ASSUME NEW k \in DOMAIN pending', NEW n \in recorded'[k[1]] + 1..pending'[k].last
       PROVE  \E j \in DOMAIN pending' : j[1] = k[1] /\ j[2] <= n /\ n <= pending'[j].last
  <2>1. n \in Nat /\ recorded[k[1]] < n /\ n <= pending'[k].last
    BY <1>3, <1>5
  <2>2. CASE \E j \in DOMAIN pending : j[1] = k[1] /\ j[2] <= n /\ n <= pending[j].last
    <3>1. PICK j \in DOMAIN pending : j[1] = k[1] /\ j[2] <= n /\ n <= pending[j].last
      BY <2>2
    <3>2. j \in DOMAIN pending' /\ n <= pending'[j].last
      BY <3>1, <2>1, <1>3, <1>4, <1>5
    <3> QED BY <3>1, <3>2
  <2>3. CASE ~ \E j \in DOMAIN pending : j[1] = k[1] /\ j[2] <= n /\ n <= pending[j].last
    <3>1. CASE k[2] <= n
      BY <3>1, <2>1
    <3>2. CASE ~(k[2] <= n)
      <4>1. n < k[2]
        BY <3>2, <2>1, <1>5
      <4>2. k \in cuts
        <5> SUFFICES ASSUME k \in DOMAIN pending PROVE FALSE
          BY <1>4
        <5>1. n \in recorded[k[1]] + 1..pending[k].last
          BY <4>1, <2>1, <1>3
        <5> QED BY <5>1, <2>3 DEF OutputInv, Chain
      <4>3. <<k[1], n>> \in New(Polled)
        BY <4>1, <4>2, <2>1, <2>3, NewIs
      <4>4. PICK f \in New(Polled) : f[1] = k[1] /\ f[2] = n
        BY <4>3
      <4> QED BY <4>4, NewCovered
    <3> QED BY <3>1, <3>2
  <2> QED BY <2>2, <2>3
<1> QED BY <1>8, <1>9, <1>10 DEF Chain

LEMMA PollStep ==
  ASSUME OutputInv, Poll
  PROVE  OutputInv'
<1>1. /\ receipts' = {} /\ BackendPolls(Polled)
      /\ UNCHANGED <<reading, lines, front, next, overflow, ended, outbound, sender, holding, closing,
                     signalled, recorded, confirmed>>
  BY DEF Poll, senderVars, history
<1>2. PICK cuts \in SUBSET New(Polled) :
        /\ \A e \in New(Polled) \ cuts : Joins(e, New(Polled))
        /\ pending' = Enqueued(New(Polled), cuts)
        /\ keys' = DOMAIN pending \cup cuts
  BY DEF Poll
<1>3. /\ DOMAIN pending' = DOMAIN pending \cup cuts
      /\ \A k \in DOMAIN pending' : pending'[k] \in Batch
      /\ \A k \in cuts : k \notin DOMAIN pending /\ pending'[k].state = "collecting" /\ pending'[k].attempt = 0
      /\ \A k \in DOMAIN pending :
           \/ pending'[k] = Received(k)
           \/ /\ pending[k].state = "collecting" /\ pending'[k].state = "collecting"
              /\ pending'[k].attempt = pending[k].attempt
  BY <1>2, EnqueuedIs
<1>4. Chain'
  BY <1>1, <1>2, ChainGrows
<1>5. Attempts' /\ Confirmations'
  <2>1. ASSUME NEW j \in DOMAIN pending' \ DOMAIN pending
        PROVE  /\ pending'[j].state = "collecting" /\ pending'[j].attempt = 0
               /\ \A k \in DOMAIN pending : j[1] = k[1] => k[2] <= j[2]
    <3>1. j \in cuts
      BY <1>3
    <3>2. ASSUME NEW k \in DOMAIN pending, j[1] = k[1]
          PROVE  k[2] <= j[2]
      <4>1. pending[k].last < j[2] /\ j[2] \in Nat
        BY <3>1, <3>2, NewIs
      <4>2. k[2] \in Nat /\ pending[k].last \in Nat /\ k[2] <= pending[k].last
        BY Types DEF OutputInv, Chain
      <4> QED BY <4>1, <4>2
    <3> QED BY <3>1, <3>2, <1>3
  <2> QED BY <2>1, <1>1, <1>3, Collected
<1>6. Forgets'
  <2> SUFFICES ASSUME NEW s \in Sessions
               PROVE  /\ \/ front[s] = recorded[s] + 1
                         \/ \E k \in DOMAIN pending' : /\ k[1] = s /\ k[2] = recorded[s] + 1
                                                       /\ front[s] = pending'[k].last + 1
                                                       /\ pending'[k].state \in Finished
                      /\ s \notin kept' => next[s] <= front[s]
    BY <1>1 DEF OutputInv, Forgets
  <2>1. CASE front[s] = recorded[s] + 1
    <3>1. s \in kept => s \in kept' \/ Queued(s) = {}
      BY <1>1 DEF BackendPolls
    <3>2. s \notin kept' => next[s] <= front[s]
      BY <3>1, QueuedIs DEF OutputInv, Forgets
    <3> QED BY <2>1, <3>2
  <2>2. CASE front[s] # recorded[s] + 1
    <3>1. s \in kept => s \in kept' \/ Queued(s) = {}
      BY <1>1 DEF BackendPolls
    <3>2. s \notin kept' => next[s] <= front[s]
      BY <3>1, QueuedIs DEF OutputInv, Forgets
    <3>3. PICK k \in DOMAIN pending : /\ k[1] = s /\ k[2] = recorded[s] + 1
                                      /\ front[s] = pending[k].last + 1 /\ pending[k].state \in Finished
      BY <2>2 DEF OutputInv, Forgets
    <3>4. pending'[k] = pending[k] /\ k \in DOMAIN pending'
      BY <3>3, <1>3, ReceivedIs DEF Finished
    <3> QED BY <3>2, <3>3, <3>4
  <2> QED BY <2>1, <2>2
<1>7. Numbered'
  BY <1>1 DEF OutputInv, Numbered
<1>8. TypeOK'
  <2>1. process' \in [Sessions -> {"running", "exited", "over"}]
    BY <1>1 DEF BackendPolls, OutputInv, TypeOK
  <2>2. kept' \subseteq Sessions /\ stopped' \subseteq overflow
    BY <1>1 DEF BackendPolls, ToStop, OutputInv, TypeOK
  <2>3. cursor' \in Sessions \cup {0}
    BY <1>1, CursorIs
  <2>4. DOMAIN pending' \subseteq Keys /\ keys' \subseteq DOMAIN pending'
    <3>1. cuts \subseteq Keys
      BY DEF New, Polled, Events
    <3> QED BY <3>1, <1>2, <1>3 DEF OutputInv, TypeOK
  <2> QED BY <2>1, <2>2, <2>3, <2>4, <1>1, <1>3 DEF OutputInv, TypeOK
<1> QED BY <1>4, <1>5, <1>6, <1>7, <1>8 DEF OutputInv

-----------------------------------------------------------------------------
(* The invariant, and what it says.                                        *)

LEMMA InitInv == Init => OutputInv
<1> SUFFICES ASSUME Init PROVE OutputInv
  OBVIOUS
<1>1. TypeOK
  <2>1. outbound \in Seq(Attempt) /\ holding \in Seq(Attempt) /\ Len(holding) = 0
    BY EmptySeq DEF Init
  <2>2. /\ process \in [Sessions -> {"running", "exited", "over"}] /\ lines \in [Sessions -> Nat]
        /\ front \in [Sessions -> Nat \ {0}] /\ next \in [Sessions -> Nat \ {0}]
        /\ recorded \in [Sessions -> Nat]
    BY DEF Init
  <2>3. reading \subseteq Sessions /\ kept \subseteq Sessions /\ overflow \subseteq Sessions /\ stopped \subseteq overflow
    BY DEF Init
  <2>4. /\ cursor \in Sessions \cup {0} /\ DOMAIN pending = {} /\ keys = {} /\ receipts = {}
        /\ ended = {} /\ confirmed = {}
    BY DEF Init
  <2>5. sender = "check" /\ closing = FALSE /\ signalled = FALSE
    BY DEF Init
  <2> QED BY <2>1, <2>2, <2>3, <2>4, <2>5 DEF TypeOK
<1>2. Numbered
  BY LinesAre DEF Init, Numbered
<1>3. Chain
  BY DEF Init, Chain
<1>4. Forgets
  BY DEF Init, Forgets
<1>5. Attempts /\ Confirmations
  <2>1. DOMAIN pending = {} /\ receipts = {} /\ DOMAIN outbound = {} /\ DOMAIN holding = {}
    BY DEF Init
  <2> QED BY <2>1 DEF Attempts, Current, Budget, Apart, FirstAwaits, Confirmations
<1> QED BY <1>1, <1>2, <1>3, <1>4, <1>5 DEF OutputInv

LEMMA StepInv == OutputInv /\ [Next]_vars => OutputInv'
<1> SUFFICES ASSUME OutputInv, [Next]_vars PROVE OutputInv'
  OBVIOUS
<1>1. CASE UNCHANGED vars
  <2>1. /\ Untouched /\ UNCHANGED <<front, next, lines, kept, cursor>>
    BY <1>1 DEF vars, backendVars, monitorVars, senderVars, history, Untouched
  <2>2. TypeOK'
    BY <1>1 DEF vars, backendVars, monitorVars, senderVars, history, OutputInv, TypeOK
  <2> QED BY <2>1, <2>2, UntouchedKept
<1>2. ASSUME NEW s \in Sessions, ReadLine(s)
      PROVE  OutputInv'
  BY <1>2, ReadLineStep
<1>3. ASSUME NEW s \in Sessions, Exit(s) \/ EndOfPipe(s)
      PROVE  OutputInv'
  BY <1>3, ExitStep
<1>4. ASSUME NEW s \in Sessions, RecordFinished(s)
      PROVE  OutputInv'
  BY <1>4, RecordFinishedStep
<1>5. ASSUME NEW s \in Sessions, TaskEnds(s)
      PROVE  OutputInv'
  BY <1>5, FlagStep
<1>6. CASE MonitorStep
  <2>1. CASE Poll
    BY <2>1, PollStep
  <2>2. CASE NoPoll
    BY <2>2, NoPollStep
  <2>3. ASSUME NEW k \in DOMAIN pending, Keep(k)
        PROVE  OutputInv'
    BY <2>3, KeepStep
  <2>4. ASSUME NEW k \in DOMAIN pending, Send(k)
        PROVE  OutputInv'
    BY <2>4, SendStep
  <2>5. ASSUME NEW k \in DOMAIN pending, Resolve(k)
        PROVE  OutputInv'
    BY <2>5, ResolveStep
  <2>6. ASSUME NEW k \in DOMAIN pending, AckFails(k)
        PROVE  OutputInv'
    BY <2>6, AckFailsStep
  <2> QED BY <2>1, <2>2, <2>3, <2>4, <2>5, <2>6, <1>6 DEF MonitorStep
<1>7. CASE SenderStep
  <2>1. CASE CheckClosing \/ WakeToClose
    BY <2>1, FlagStep
  <2>2. CASE Take
    BY <2>2, TakeStep
  <2>3. CASE Drain
    BY <2>3, DrainStep
  <2>4. ASSUME NEW ok \in BOOLEAN, Sent(ok)
        PROVE  OutputInv'
    BY <2>4, SentStep
  <2> QED BY <2>1, <2>2, <2>3, <2>4, <1>7 DEF SenderStep
<1>8. CASE Close \/ Signal
  BY <1>8, FlagStep
<1>9. ASSUME NEW k \in Keys, Elapse(k)
      PROVE  OutputInv'
  BY <1>9, ElapseStep
<1> QED BY <1>1, <1>2, <1>3, <1>4, <1>5, <1>6, <1>7, <1>8, <1>9 DEF Next

\* The strengthened invariant holds in every reachable state.
THEOREM OutputInvariant == Spec => []OutputInv
BY InitInv, StepInv, PTL DEF Spec

\* Every variable keeps its type.
THEOREM OutputTypeCorrect == Spec => []TypeOK
<1>1. OutputInv => TypeOK
  BY DEF OutputInv
<1> QED BY <1>1, OutputInvariant, PTL

LEMMA OneOutstanding ==
  ASSUME OutputInv, NEW k
  PROVE  /\ Underway(k) => Cardinality(Outstanding(k)) = 1
         /\ ~Underway(k) => Outstanding(k) = {}
<1> DEFINE Q == {<<"queue", i>> : i \in {j \in DOMAIN outbound : outbound[j].key = k}}
           S == {<<"sender", i>> : i \in {j \in DOMAIN holding : holding[j].key = k}}
           R == {<<"receipt", r>> : r \in {q \in receipts : q.key = k}}
<1>1. Outstanding(k) = (Q \cup S) \cup R
  BY DEF Outstanding
<1>2. Apart
  BY DEF OutputInv, Attempts
<1>3. ~Underway(k) => Outstanding(k) = {}
  BY <1>1 DEF Underway
<1>4. ASSUME NEW i \in DOMAIN outbound, outbound[i].key = k
      PROVE  \E x : Outstanding(k) = {x}
  <2>1. S = {} /\ R = {}
    BY <1>2, <1>4 DEF Apart
  <2>2. Q = {<<"queue", i>>}
    BY <1>2, <1>4 DEF Apart
  <2> QED BY <2>1, <2>2, <1>1
<1>5. ASSUME NEW i \in DOMAIN holding, holding[i].key = k
      PROVE  \E x : Outstanding(k) = {x}
  <2>1. Q = {} /\ R = {}
    BY <1>2, <1>5 DEF Apart
  <2>2. \A j \in DOMAIN holding : j = i
    <3>1. holding \in Seq(Attempt) /\ (Len(holding) = 1 \/ Len(holding) = 0)
      BY DEF OutputInv, TypeOK
    <3>2. DOMAIN holding \subseteq {1}
      BY <3>1, LenProperties
    <3> QED BY <3>2
  <2>3. S = {<<"sender", i>>}
    BY <2>2, <1>5
  <2> QED BY <2>1, <2>3, <1>1
<1>6. ASSUME NEW r \in receipts, r.key = k
      PROVE  \E x : Outstanding(k) = {x}
  <2>1. Q = {} /\ S = {}
    BY <1>2, <1>6 DEF Apart
  <2>2. R = {<<"receipt", r>>}
    BY <1>2, <1>6 DEF Apart
  <2> QED BY <2>1, <2>2, <1>1
<1>7. ASSUME Underway(k)
      PROVE  Cardinality(Outstanding(k)) = 1
  <2>1. PICK x : Outstanding(k) = {x}
    BY <1>4, <1>5, <1>6, <1>7 DEF Underway
  <2> QED BY <2>1, FS_Singleton
<1> QED BY <1>3, <1>7

\* Every attempt to deliver a batch is answered exactly once, and a session has
\* at most one under way: however many sessions, lines and attempts there are, a
\* batch awaits an answer exactly when one attempt, its latest, is in the
\* manager's queue, with its sender or on its way back, and it is then the
\* first batch of its session.
THEOREM AttemptsFollow == Spec => []OneAttemptAtATime
<1>1. OutputInv => OneAttemptAtATime
  <2> SUFFICES ASSUME OutputInv, NEW k \in Keys
               PROVE  IF k \in DOMAIN pending /\ pending[k].state = "awaiting"
                        THEN /\ Cardinality(Outstanding(k)) = 1 /\ \A j \in Of(k[1]) : k[2] <= j[2]
                             /\ \A i \in DOMAIN outbound :
                                  outbound[i].key = k => outbound[i].attempt = pending[k].attempt
                             /\ \A r \in receipts : r.key = k => r.attempt = pending[k].attempt
                        ELSE Outstanding(k) = {}
    BY DEF OneAttemptAtATime
  <2>1. /\ Current(outbound) /\ Current(holding) /\ FirstAwaits
        /\ \A r \in receipts : Awaits(r.key, r.attempt)
    BY DEF OutputInv, Attempts
  <2>2. Underway(k) => k \in DOMAIN pending /\ pending[k].state = "awaiting"
    BY <2>1 DEF Underway, Current, Awaits
  <2>3. CASE k \in DOMAIN pending /\ pending[k].state = "awaiting"
    <3>1. Cardinality(Outstanding(k)) = 1
      BY <2>1, <2>3, OneOutstanding DEF FirstAwaits
    <3>2. \A j \in Of(k[1]) : k[2] <= j[2]
      BY <2>1, <2>3 DEF FirstAwaits, Of
    <3>3. \A i \in DOMAIN outbound : outbound[i].key = k => outbound[i].attempt = pending[k].attempt
      BY <2>1 DEF Current, Awaits
    <3>4. \A r \in receipts : r.key = k => r.attempt = pending[k].attempt
      BY <2>1 DEF Awaits
    <3> QED BY <3>1, <3>2, <3>3, <3>4, <2>3
  <2>4. CASE ~(k \in DOMAIN pending /\ pending[k].state = "awaiting")
    BY <2>2, <2>4, OneOutstanding
  <2> QED BY <2>3, <2>4
<1> QED BY <1>1, OutputInvariant, PTL

\* What a session wrote is recorded without gap or repetition, however it is
\* polled, cut into batches, retried and acknowledged: the pending batches
\* continue the records seamlessly, and the backend forgets an event only when
\* it is recorded or its batch is finished.
THEOREM OutputRecorded == Spec => []NoGapNoRepeat
<1>1. OutputInv => NoGapNoRepeat
  <2> SUFFICES ASSUME OutputInv, NEW s \in Sessions
               PROVE  /\ \A k \in Of(s) : \/ k[2] = recorded[s] + 1
                                          \/ \E j \in Of(s) : pending[j].last + 1 = k[2]
                      /\ \A j, k \in Of(s) : j[2] < k[2] => pending[j].last < k[2]
                      /\ \A k \in Of(s) : pending[k].last >= k[2] /\ pending[k].last < next[s]
                      /\ \A k \in Of(s) :
                           pending[k].state = "delivered" => EventsOf(k, pending[k].last) \subseteq confirmed
                      /\ recorded[s] < front[s]
                      /\ \/ front[s] = recorded[s] + 1
                         \/ \E k \in Of(s) : /\ k[2] = recorded[s] + 1 /\ front[s] = pending[k].last + 1
                                             /\ pending[k].state \in Finished
                      /\ s \notin kept => Queued(s) = {}
    BY DEF NoGapNoRepeat
  <2>1. /\ \A k \in Of(s) : /\ k \in DOMAIN pending /\ k[1] = s /\ k[2] \in Nat /\ pending[k].last \in Nat
                            /\ recorded[s] < k[2] /\ k[2] <= pending[k].last /\ pending[k].last < next[s]
        /\ recorded[s] \in Nat /\ next[s] \in Nat
    BY Types DEF Of, OutputInv, Chain
  <2>2. ASSUME NEW k \in Of(s), k[2] # recorded[s] + 1
        PROVE  \E j \in Of(s) : pending[j].last + 1 = k[2]
    <3>1. PICK n \in Nat : n + 1 = k[2] /\ recorded[s] < n
      <4>1. k[2] - 1 \in Nat /\ (k[2] - 1) + 1 = k[2] /\ recorded[s] < k[2] - 1
        BY <2>1, <2>2
      <4> QED BY <4>1
    <3>2. n \in recorded[k[1]] + 1..pending[k].last
      BY <2>1, <3>1
    <3>3. PICK j \in DOMAIN pending : j[1] = k[1] /\ j[2] <= n /\ n <= pending[j].last
      BY <3>2, <2>1 DEF OutputInv, Chain
    <3>4. j \in Of(s)
      BY <3>3, <2>1 DEF Of
    <3>5. j[2] < k[2]
      BY <3>1, <3>3, <3>4, <2>1
    <3>6. pending[j].last < k[2]
      BY <3>3, <3>5, <2>1 DEF OutputInv, Chain
    <3> QED BY <3>1, <3>3, <3>4, <3>6, <2>1
  <2>3. \A j, k \in Of(s) : j[2] < k[2] => pending[j].last < k[2]
    BY <2>1 DEF OutputInv, Chain
  <2>4. \A k \in Of(s) : pending[k].last >= k[2] /\ pending[k].last < next[s]
    BY <2>1
  <2>5. \A k \in Of(s) : pending[k].state = "delivered" => EventsOf(k, pending[k].last) \subseteq confirmed
    BY <2>1 DEF OutputInv, Confirmations
  <2>6. /\ recorded[s] < front[s]
        /\ \/ front[s] = recorded[s] + 1
           \/ \E k \in Of(s) : /\ k[2] = recorded[s] + 1 /\ front[s] = pending[k].last + 1
                               /\ pending[k].state \in Finished
        /\ s \notin kept => Queued(s) = {}
    BY QueuedIs DEF OutputInv, Forgets, Of
  <2> QED BY <2>2, <2>3, <2>4, <2>5, <2>6
<1> QED BY <1>1, OutputInvariant, PTL

-----------------------------------------------------------------------------
(* What the user is promised.                                              *)

\* The platform has confirmed what the batch says, as the monitor knows or will
\* learn from a receipt.
Shown(k) == pending[k].state = "delivered" \/ \E r \in receipts : r.key = k /\ r.ok

\* Only the first batch of a session was shown.
OnlyFirstShown ==
  \A e \in confirmed : \E k \in DOMAIN pending :
    e \in EventsOf(k, pending[k].last) /\ k[2] = recorded[k[1]] + 1 /\ Shown(k)

\* What was shown of the session of its first batch is that batch.
LEMMA FirstShown ==
  ASSUME OutputInv, OnlyFirstShown, NEW k \in DOMAIN pending, k[2] = recorded[k[1]] + 1,
         NEW e \in confirmed, e[1] = k[1]
  PROVE  e \in EventsOf(k, pending[k].last) /\ Shown(k)
<1>1. PICK j \in DOMAIN pending : e \in EventsOf(j, pending[j].last) /\ j[2] = recorded[j[1]] + 1 /\ Shown(j)
  BY DEF OnlyFirstShown
<1>2. e[1] = j[1]
  BY <1>1, Types, EventsAreKeys
<1>3. j = k
  BY <1>1, <1>2, Types
<1> QED BY <1>1, <1>3

\* A first batch is what comes after the records.
LEMMA FirstUpto ==
  ASSUME OutputInv, NEW k \in DOMAIN pending, k[2] = recorded[k[1]] + 1
  PROVE  /\ Log!Upto(k[1], pending[k].last) = EventsOf(k, pending[k].last)
         /\ recorded[k[1]] < pending[k].last /\ pending[k].last <= next[k[1]] - 1
         /\ pending[k].last \in 1..next[k[1]] - 1
<1>1. /\ recorded[k[1]] \in Nat /\ pending[k].last \in Nat /\ next[k[1]] \in Nat
      /\ recorded[k[1]] < k[2] /\ k[2] <= pending[k].last /\ pending[k].last < next[k[1]]
  BY Types DEF OutputInv, Chain
<1>2. Log!Upto(k[1], pending[k].last) = EventsOf(k, pending[k].last)
  BY DEF Log!Upto, EventsOf
<1> QED BY <1>1, <1>2

\* Steps that show and record nothing.
LEMMA NothingShown ==
  ASSUME OnlyFirstShown, UNCHANGED <<confirmed, recorded>>,
         \A k \in DOMAIN pending : Shown(k) =>
           k \in DOMAIN pending' /\ pending'[k].last = pending[k].last /\ Shown(k)'
  PROVE  OnlyFirstShown'
<1> SUFFICES ASSUME NEW e \in confirmed
             PROVE  \E k \in DOMAIN pending' :
                      /\ e \in EventsOf(k, pending'[k].last) /\ k[2] = recorded[k[1]] + 1 /\ Shown(k)'
  BY DEF OnlyFirstShown
<1>1. PICK k \in DOMAIN pending : e \in EventsOf(k, pending[k].last) /\ k[2] = recorded[k[1]] + 1 /\ Shown(k)
  BY DEF OnlyFirstShown
<1> QED BY <1>1

\* A first batch is shown.
LEMMA BatchShown ==
  ASSUME OutputInv, OnlyFirstShown, NEW k \in DOMAIN pending, k[2] = recorded[k[1]] + 1, ~Shown(k),
         confirmed' = confirmed \cup EventsOf(k, pending[k].last), UNCHANGED <<recorded, next>>,
         DOMAIN pending' = DOMAIN pending, \A j \in DOMAIN pending : pending'[j].last = pending[j].last,
         Shown(k)', \A j \in DOMAIN pending : Shown(j) => Shown(j)'
  PROVE  OnlyFirstShown' /\ Log!Show(k[1], pending[k].last)
<1>1. OnlyFirstShown'
  <2> SUFFICES ASSUME NEW e \in confirmed'
               PROVE  \E j \in DOMAIN pending' :
                        e \in EventsOf(j, pending'[j].last) /\ j[2] = recorded[j[1]] + 1 /\ Shown(j)'
    BY DEF OnlyFirstShown
  <2>1. CASE e \in EventsOf(k, pending[k].last)
    BY <2>1
  <2>2. CASE e \in confirmed
    <3>1. PICK j \in DOMAIN pending : e \in EventsOf(j, pending[j].last) /\ j[2] = recorded[j[1]] + 1 /\ Shown(j)
      BY <2>2 DEF OnlyFirstShown
    <3> QED BY <3>1
  <2> QED BY <2>1, <2>2
<1>2. k[1] \in Sessions
  BY Types
<1>3. Log!Upto(k[1], next[k[1]] - 1) \cap confirmed = {}
  <2>1. \A e \in Log!Upto(k[1], next[k[1]] - 1) : e[1] = k[1]
    BY DEF Log!Upto
  <2> QED BY <2>1, FirstShown
<1>4. Log!Show(k[1], pending[k].last)
  BY <1>2, <1>3, FirstUpto DEF Log!Show
<1> QED BY <1>1, <1>4

\* The first batch is recorded, all of it shown or none.
LEMMA BatchSettled ==
  ASSUME OutputInv, OnlyFirstShown, NEW k \in DOMAIN pending, Resolve(k)
  PROVE  OnlyFirstShown' /\ Log!Settle(k[1], pending[k].last)
<1>1. /\ Turn(k) /\ ~Earlier(k) /\ Seen(k).state \in Finished
      /\ recorded' = [recorded EXCEPT ![k[1]] = pending[k].last]
      /\ confirmed' = confirmed \ EventsOf(k, pending[k].last)
      /\ pending' = [j \in DOMAIN pending \ {k} |-> pending[j]]
      /\ UNCHANGED <<next, receipts>>
  BY DEF Resolve, senderVars, Restrict
<1>2. k[2] = recorded[k[1]] + 1 /\ k[1] \in Sessions /\ recorded \in [Sessions -> Nat] /\ pending[k] \in Batch
  BY <1>1, FirstIs, Types DEF OutputInv, TypeOK
<1>3. pending[k].state # "awaiting"
  BY <1>1, <1>2 DEF Seen, Batch, Finished
<1>4. OnlyFirstShown'
  <2> SUFFICES ASSUME NEW e \in confirmed'
               PROVE  \E j \in DOMAIN pending' :
                        e \in EventsOf(j, pending'[j].last) /\ j[2] = recorded'[j[1]] + 1 /\ Shown(j)'
    BY DEF OnlyFirstShown
  <2>1. e \in confirmed /\ e \notin EventsOf(k, pending[k].last)
    BY <1>1
  <2>2. PICK j \in DOMAIN pending : e \in EventsOf(j, pending[j].last) /\ j[2] = recorded[j[1]] + 1 /\ Shown(j)
    BY <2>1 DEF OnlyFirstShown
  <2>3. j # k
    BY <2>1, <2>2
  <2>4. j[1] # k[1] /\ j[1] \in Sessions
    BY <2>2, <2>3, <1>2, Types
  <2>5. recorded'[j[1]] = recorded[j[1]]
    BY <2>4, <1>1, <1>2
  <2>6. j \in DOMAIN pending' /\ pending'[j] = pending[j] /\ Shown(j)'
    BY <2>2, <2>3, <1>1 DEF Shown
  <2> QED BY <2>2, <2>5, <2>6
<1>5. Log!Upto(k[1], pending[k].last) = EventsOf(k, pending[k].last)
  BY <1>2, FirstUpto
<1>6. Log!Upto(k[1], next[k[1]] - 1) \cap confirmed \in {{}, EventsOf(k, pending[k].last)}
  <2>1. \A e \in Log!Upto(k[1], next[k[1]] - 1) : e[1] = k[1]
    BY DEF Log!Upto
  <2>2. CASE pending[k].state = "delivered"
    <3>1. EventsOf(k, pending[k].last) \subseteq confirmed
      BY <2>2 DEF OutputInv, Confirmations
    <3>2. EventsOf(k, pending[k].last) \subseteq Log!Upto(k[1], next[k[1]] - 1)
      <4>1. recorded[k[1]] \in Nat /\ pending[k].last \in Nat /\ next[k[1]] \in Nat
        BY <1>2, Types
      <4>2. \A n \in recorded[k[1]] + 1..pending[k].last : n \in recorded[k[1]] + 1..next[k[1]] - 1
        BY <4>1, <1>2, FirstUpto
      <4> QED BY <4>2, <1>5 DEF Log!Upto
    <3> QED BY <3>1, <3>2, <2>1, <1>2, FirstShown
  <2>3. CASE pending[k].state # "delivered"
    <3>1. ~Shown(k)
      BY <2>3, <1>3, NothingUnderway DEF Shown
    <3> QED BY <3>1, <2>1, <1>2, FirstShown
  <2> QED BY <2>2, <2>3
<1>7. Log!Settle(k[1], pending[k].last)
  BY <1>1, <1>2, <1>5, <1>6, FirstUpto DEF Log!Settle
<1> QED BY <1>4, <1>7

\* Polls and receipts: what was shown stays so.
LEMMA ReceivedShown ==
  ASSUME OutputInv, NEW k \in DOMAIN pending, Shown(k)
  PROVE  Received(k).state = "delivered" /\ pending[k].state \in {"awaiting", "delivered"}
<1>1. pending[k].state = "delivered" \/ \E r \in receipts : r.key = k /\ r.ok
  BY DEF Shown
<1>2. CASE pending[k].state = "delivered"
  BY <1>2, ReceivedIs
<1>3. ASSUME NEW q \in receipts, q.key = k, q.ok
      PROVE  Received(k).state = "delivered" /\ pending[k].state = "awaiting"
  <2>1. /\ Awaits(q.key, q.attempt) /\ \A r \in receipts : r.key = q.key => r = q
    BY DEF OutputInv, Attempts, Apart
  <2>2. pending[k].state = "awaiting" /\ Matches(q, k)
    BY <2>1, <1>3 DEF Awaits, Matches
  <2>3. (CHOOSE r \in receipts : Matches(r, k)) = q
    BY <2>1, <2>2, <1>3 DEF Matches
  <2>4. Received(k) = Answered(pending[k], q.ok)
    BY <2>2, <2>3 DEF Received
  <2>5. Received(k) = [pending[k] EXCEPT !.state = "delivered"] /\ pending[k] \in Batch
    BY <2>4, <1>3, Types DEF Answered
  <2> QED BY <2>2, <2>5 DEF Batch
<1> QED BY <1>1, <1>2, <1>3

LEMMA PollShows ==
  ASSUME OutputInv, OnlyFirstShown, Poll \/ NoPoll
  PROVE  OnlyFirstShown' /\ UNCHANGED Log!vars
<1>1. UNCHANGED <<confirmed, recorded, next>>
  BY DEF Poll, NoPoll, backendVars, history
<1>2. ASSUME NEW k \in DOMAIN pending, Shown(k)
      PROVE  k \in DOMAIN pending' /\ pending'[k].last = pending[k].last /\ Shown(k)'
  <2>1. Received(k).state = "delivered" /\ Received(k).last = pending[k].last /\ pending[k].state # "collecting"
    BY <1>2, ReceivedShown, ReceivedIs
  <2>2. k \in DOMAIN pending' /\ pending'[k] = Received(k)
    <3>1. CASE NoPoll
      BY <3>1 DEF NoPoll
    <3>2. CASE Poll
      <4>1. PICK cuts \in SUBSET New(Polled) :
              /\ \A e \in New(Polled) \ cuts : Joins(e, New(Polled))
              /\ pending' = Enqueued(New(Polled), cuts)
        BY <3>2 DEF Poll
      <4> QED BY <4>1, <2>1, EnqueuedIs
    <3> QED BY <3>1, <3>2
  <2> QED BY <2>1, <2>2 DEF Shown
<1>3. OnlyFirstShown'
  BY <1>1, <1>2, NothingShown
<1> QED BY <1>1, <1>3 DEF Log!vars

\* Steps that leave the batches as they are, and answer nothing.
LEMMA UntouchedShows ==
  ASSUME OutputInv, OnlyFirstShown, Untouched
  PROVE  OnlyFirstShown'
BY NothingShown DEF Untouched, Shown

LEMMA LineShows ==
  ASSUME OutputInv, OnlyFirstShown, NEW s \in Sessions, ReadLine(s)
  PROVE  OnlyFirstShown' /\ (Log!Line(s) \/ UNCHANGED Log!vars)
<1>1. /\ UNCHANGED <<recorded, confirmed>> /\ Untouched
      /\ \/ next' = [next EXCEPT ![s] = @ + 1]
         \/ next' = next
  BY DEF ReadLine, monitorVars, senderVars, history, Untouched
<1>2. OnlyFirstShown'
  BY <1>1, UntouchedShows
<1>3. CASE next' = next
  BY <1>1, <1>2, <1>3 DEF Log!vars
<1>4. CASE next' = [next EXCEPT ![s] = @ + 1]
  <2>1. next \in [Sessions -> Nat \ {0}]
    BY DEF OutputInv, TypeOK
  <2>2. \A t \in Sessions : next'[t] - 1 = IF t = s THEN (next[t] - 1) + 1 ELSE next[t] - 1
    BY <1>4, <2>1
  <2>3. [t \in Sessions |-> next'[t] - 1] = [[t \in Sessions |-> next[t] - 1] EXCEPT ![s] = @ + 1]
    BY <2>2
  <2>4. Log!Line(s)
    BY <2>3, <1>1 DEF Log!Line
  <2> QED BY <2>4, <1>2
<1> QED BY <1>1, <1>3, <1>4

\* The session's process, its reader, its task and the manager's flags.
LEMMA OthersShow ==
  ASSUME OutputInv, OnlyFirstShown,
         \/ CheckClosing \/ WakeToClose \/ Close \/ Signal
         \/ \E s \in Sessions : Exit(s) \/ EndOfPipe(s) \/ RecordFinished(s) \/ TaskEnds(s)
  PROVE  OnlyFirstShown' /\ UNCHANGED Log!vars
<1>1. UNCHANGED <<pending, receipts, recorded, confirmed, next>>
  BY DEF CheckClosing, WakeToClose, Close, Signal, Exit, EndOfPipe, RecordFinished, TaskEnds,
         backendVars, monitorVars, senderVars, history
<1>2. OnlyFirstShown'
  BY <1>1, NothingShown DEF Shown
<1> QED BY <1>1, <1>2 DEF Log!vars

\* A batch is looked at, its delay passes, or it cannot be acknowledged.
LEMMA LookShows ==
  ASSUME OutputInv, OnlyFirstShown, NEW k \in DOMAIN pending, Keep(k) \/ AckFails(k) \/ Elapse(k)
  PROVE  OnlyFirstShown' /\ UNCHANGED Log!vars
<1>1. /\ UNCHANGED <<receipts, recorded, confirmed, next>> /\ k \in DOMAIN pending
      /\ \/ pending' = [pending EXCEPT ![k] = Seen(k)]
         \/ pending' = [pending EXCEPT ![k].due = TRUE]
  BY DEF Keep, AckFails, Elapse, backendVars, senderVars, history
<1>2. pending[k] \in Batch
  BY <1>1, Types
<1>3. /\ DOMAIN pending' = DOMAIN pending
      /\ \A j \in DOMAIN pending : j # k => pending'[j] = pending[j]
      /\ pending'[k] = Seen(k) \/ pending'[k] = [pending[k] EXCEPT !.due = TRUE]
  BY <1>1
<1>4. pending'[k].last = pending[k].last /\ (pending[k].state = "delivered" => pending'[k].state = "delivered")
  BY <1>2, <1>3 DEF Seen, Batch
<1>5. OnlyFirstShown'
  BY <1>1, <1>3, <1>4, NothingShown DEF Shown
<1> QED BY <1>1, <1>5 DEF Log!vars

\* A batch is handed over: to the terminal, which shows it, or to the manager.
LEMMA SendShows ==
  ASSUME OutputInv, OnlyFirstShown, NEW k \in DOMAIN pending, Send(k)
  PROVE  /\ OnlyFirstShown'
         /\ UNCHANGED Log!vars \/ Log!Show(k[1], pending[k].last)
<1>0. PICK a : a = pending[k].attempt + 1
  OBVIOUS
<1> DEFINE receipt(ok) == [key |-> k, attempt |-> a, ok |-> ok]
<1>1. /\ pending[k].state \in {"collecting", "retry"} /\ ~Earlier(k)
      /\ DOMAIN pending' = DOMAIN pending
      /\ \A j \in DOMAIN pending : j # k => pending'[j] = pending[j]
      /\ pending'[k].last = pending[k].last
      /\ \/ UNCHANGED <<receipts, confirmed>>
         \/ receipts' = receipts \cup {receipt(FALSE)} /\ UNCHANGED confirmed
         \/ receipts' = receipts \cup {receipt(TRUE)} /\ confirmed' = confirmed \cup EventsOf(k, pending[k].last)
  BY <1>0, SendIs
<1>2. UNCHANGED <<next, recorded>>
  BY DEF Send, backendVars
<1>3. k[2] = recorded[k[1]] + 1 /\ ~Shown(k)
  BY <1>1, FirstIs, NothingUnderway DEF Shown
<1>4. receipts \subseteq receipts'
  BY <1>1
<1>5. \A j \in DOMAIN pending : Shown(j) => Shown(j)'
  BY <1>1, <1>3, <1>4 DEF Shown
<1>6. CASE confirmed' = confirmed
  <2>1. OnlyFirstShown'
    BY <1>1, <1>2, <1>5, <1>6, NothingShown
  <2> QED BY <2>1, <1>2, <1>6 DEF Log!vars
<1>7. CASE receipts' = receipts \cup {receipt(TRUE)} /\ confirmed' = confirmed \cup EventsOf(k, pending[k].last)
  <2>1. Shown(k)'
    <3>1. receipt(TRUE) \in receipts' /\ receipt(TRUE).key = k /\ receipt(TRUE).ok
      BY <1>7
    <3> HIDE DEF receipt
    <3> QED BY <3>1 DEF Shown
  <2>2. \A j \in DOMAIN pending : pending'[j].last = pending[j].last
    BY <1>1
  <2> QED BY <2>1, <2>2, <1>1, <1>2, <1>3, <1>5, <1>7, BatchShown
<1> QED BY <1>1, <1>6, <1>7

\* The manager answers: what was sent is shown.
LEMMA FinishShows ==
  ASSUME OutputInv, OnlyFirstShown, NEW try \in Attempt, NEW ok \in BOOLEAN, Finish(try, ok),
         Awaits(try.key, try.attempt), try.last = pending[try.key].last,
         \A r \in receipts : r.key # try.key, UNCHANGED <<pending, recorded, next>>
  PROVE  /\ OnlyFirstShown'
         /\ UNCHANGED Log!vars \/ Log!Show(try.key[1], pending[try.key].last)
<1> DEFINE receipt == [key |-> try.key, attempt |-> try.attempt, ok |-> ok]
<1>1. /\ receipts' = receipts \cup {receipt}
      /\ confirmed' = IF ok THEN confirmed \cup EventsOf(try.key, try.last) ELSE confirmed
  BY DEF Finish
<1>2. PICK k \in DOMAIN pending : k = try.key /\ pending[k].state = "awaiting"
  BY DEF Awaits
<1>3. ~Earlier(k)
  <2>1. \A j \in DOMAIN pending : j[1] = k[1] => k[2] <= j[2]
    BY <1>2 DEF OutputInv, Attempts, FirstAwaits
  <2>2. \A j \in DOMAIN pending : j[2] \in Nat
    BY Types
  <2> QED BY <2>1, <2>2 DEF Earlier, Of
<1>4. k[2] = recorded[k[1]] + 1 /\ ~Shown(k)
  BY <1>2, <1>3, FirstIs DEF Shown
<1>5. \A j \in DOMAIN pending : Shown(j) => Shown(j)'
  BY <1>1 DEF Shown
<1>6. CASE ~ok
  <2>1. OnlyFirstShown'
    BY <1>1, <1>5, <1>6, NothingShown
  <2> QED BY <2>1, <1>1, <1>6 DEF Log!vars
<1>7. CASE ok
  <2>1. Shown(k)'
    <3>1. receipt \in receipts' /\ receipt.key = k /\ receipt.ok
      BY <1>1, <1>2, <1>7
    <3> HIDE DEF receipt
    <3> QED BY <3>1 DEF Shown
  <2>2. confirmed' = confirmed \cup EventsOf(k, pending[k].last)
    BY <1>1, <1>2, <1>7
  <2>3. OnlyFirstShown' /\ Log!Show(k[1], pending[k].last)
    BY <2>1, <2>2, <1>4, <1>5, BatchShown
  <2> QED BY <2>3, <1>2
<1> QED BY <1>6, <1>7

LEMMA SenderShows ==
  ASSUME OutputInv, OnlyFirstShown, Take \/ Drain \/ \E ok \in BOOLEAN : Sent(ok)
  PROVE  /\ OnlyFirstShown'
         /\ UNCHANGED Log!vars \/ \E k \in DOMAIN pending : Log!Show(k[1], pending[k].last)
<1>1. UNCHANGED <<pending, recorded, next>>
  BY DEF Take, Drain, Sent, backendVars, monitorVars
<1>2. /\ Current(outbound) /\ Current(holding) /\ Apart
      /\ outbound \in Seq(Attempt) /\ holding \in Seq(Attempt)
  BY DEF OutputInv, TypeOK, Attempts
<1>3. CASE outbound # <<>> /\ \E ok \in BOOLEAN : Finish(Head(outbound), ok)
  <2>1. Head(outbound) = outbound[1] /\ 1 \in DOMAIN outbound /\ outbound[1] \in Attempt
    BY <1>2, <1>3, TailIs
  <2>2. PICK try \in Attempt, ok \in BOOLEAN : try = outbound[1] /\ Finish(try, ok)
    BY <1>3, <2>1
  <2>3. Awaits(try.key, try.attempt) /\ try.last = pending[try.key].last
    BY <1>2, <2>1, <2>2 DEF Current
  <2>4. \A r \in receipts : r.key # try.key
    BY <1>2, <2>1, <2>2 DEF Apart
  <2>5. OnlyFirstShown' /\ (UNCHANGED Log!vars \/ Log!Show(try.key[1], pending[try.key].last))
    BY <2>2, <2>3, <2>4, <1>1, FinishShows
  <2> QED BY <2>3, <2>5 DEF Awaits
<1>4. CASE UNCHANGED <<receipts, confirmed>>
  <2>1. OnlyFirstShown'
    BY <1>1, <1>4, NothingShown DEF Shown
  <2> QED BY <2>1, <1>1, <1>4 DEF Log!vars
<1>5. ASSUME NEW ok \in BOOLEAN, Sent(ok)
      PROVE  /\ OnlyFirstShown'
             /\ UNCHANGED Log!vars \/ \E k \in DOMAIN pending : Log!Show(k[1], pending[k].last)
  <2>1. sender = "send" /\ Finish(holding[1], ok)
    BY <1>5 DEF Sent
  <2>2. Len(holding) = 1
    BY <2>1 DEF OutputInv, TypeOK
  <2>3. 1 \in DOMAIN holding /\ holding[1] \in Attempt
    BY <1>2, <2>2, LenProperties, ElementOfSeq
  <2>4. PICK try \in Attempt : try = holding[1]
    BY <2>3
  <2>5. Awaits(try.key, try.attempt) /\ try.last = pending[try.key].last
    BY <1>2, <2>3, <2>4 DEF Current
  <2>6. \A r \in receipts : r.key # try.key
    BY <1>2, <2>3, <2>4 DEF Apart
  <2>7. OnlyFirstShown' /\ (UNCHANGED Log!vars \/ Log!Show(try.key[1], pending[try.key].last))
    BY <2>1, <2>4, <2>5, <2>6, <1>1, FinishShows
  <2> QED BY <2>5, <2>7 DEF Awaits
<1>6. CASE Take
  <2>1. (outbound # <<>> /\ Finish(Head(outbound), FALSE)) \/ UNCHANGED <<receipts, confirmed>>
    BY <1>6 DEF Take
  <2> QED BY <2>1, <1>3, <1>4
<1>7. CASE Drain
  BY <1>7, <1>3 DEF Drain
<1> QED BY <1>5, <1>6, <1>7

\* Every step shows and records in order, or neither.
LEMMA StepShows ==
  ASSUME OutputInv, OnlyFirstShown, [Next]_vars
  PROVE  OnlyFirstShown' /\ [Log!Next]_(Log!vars)
<1>1. ASSUME NEW k \in DOMAIN pending,
             Log!Show(k[1], pending[k].last) \/ Log!Settle(k[1], pending[k].last)
      PROVE  Log!Next
  <2>1. k[1] \in Sessions /\ pending[k].last \in Nat /\ pending[k].last > 0
        /\ next[k[1]] \in Nat /\ pending[k].last < next[k[1]]
    BY Types DEF OutputInv, Chain
  <2>2. pending[k].last \in 1..next[k[1]] - 1
    BY <2>1
  <2> QED BY <2>1, <2>2, <1>1 DEF Log!Next
<1>2. CASE UNCHANGED vars
  <2>1. UNCHANGED <<pending, receipts, recorded, confirmed, next>>
    BY <1>2 DEF vars, backendVars, monitorVars, senderVars, history
  <2>2. OnlyFirstShown'
    BY <2>1, NothingShown DEF Shown
  <2> QED BY <2>1, <2>2 DEF Log!vars
<1>3. CASE \E s \in Sessions : ReadLine(s)
  <2>1. OnlyFirstShown' /\ ((\E s \in Sessions : Log!Line(s)) \/ UNCHANGED Log!vars)
    BY <1>3, LineShows
  <2> QED BY <2>1 DEF Log!Next
<1>4. CASE \/ CheckClosing \/ WakeToClose \/ Close \/ Signal
           \/ \E s \in Sessions : Exit(s) \/ EndOfPipe(s) \/ RecordFinished(s) \/ TaskEnds(s)
  BY <1>4, OthersShow
<1>5. CASE Poll \/ NoPoll
  BY <1>5, PollShows
<1>6. ASSUME NEW k \in DOMAIN pending, Keep(k) \/ AckFails(k) \/ Elapse(k)
      PROVE  OnlyFirstShown' /\ [Log!Next]_(Log!vars)
  BY <1>6, LookShows
<1>7. ASSUME NEW k \in DOMAIN pending, Send(k)
      PROVE  OnlyFirstShown' /\ [Log!Next]_(Log!vars)
  BY <1>7, <1>1, SendShows
<1>8. ASSUME NEW k \in DOMAIN pending, Resolve(k)
      PROVE  OnlyFirstShown' /\ [Log!Next]_(Log!vars)
  BY <1>8, <1>1, BatchSettled
<1>9. CASE Take \/ Drain \/ \E ok \in BOOLEAN : Sent(ok)
  BY <1>9, <1>1, SenderShows
<1>10. CASE \E k \in Keys : Elapse(k)
  <2>1. PICK k \in DOMAIN pending : Elapse(k)
    BY <1>10 DEF Elapse
  <2> QED BY <2>1, <1>6
<1> QED BY <1>2, <1>3, <1>4, <1>5, <1>6, <1>7, <1>8, <1>9, <1>10 DEF Next, MonitorStep, SenderStep

\* The way of the output implements what its user is promised: however it is
\* polled, cut, retried, shut down and acknowledged, a session's lines are shown
\* and settled in order, none is shown twice, and lines are settled unseen only
\* together.
THEOREM OutputKeepsLog == Spec => KeepsLog
<1>1. Init => OnlyFirstShown /\ Log!Init
  <2> SUFFICES ASSUME Init PROVE OnlyFirstShown /\ Log!Init
    OBVIOUS
  <2>1. [s \in Sessions |-> next[s] - 1] = [s \in Sessions |-> 0]
    BY DEF Init
  <2> QED BY <2>1 DEF Init, OnlyFirstShown, Log!Init
<1>2. OutputInv /\ OnlyFirstShown /\ [Next]_vars => OnlyFirstShown' /\ [Log!Next]_(Log!vars)
  BY StepShows
<1> QED BY <1>1, <1>2, OutputInvariant, PTL DEF Spec, KeepsLog, Log!Spec

=============================================================================

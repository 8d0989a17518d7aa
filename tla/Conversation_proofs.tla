------------------------- MODULE Conversation_proofs -------------------------
(***************************************************************************)
(* For every number of inputs and every script of them: a channel has one  *)
(* user task at a time, and texts are read in the order they were sent.    *)
(*                                                                         *)
(* One task.  While a task is open, or is to be dispatched after it was    *)
(* continued, no other one is and nothing runs for the ended ones (Slot).  *)
(* A task is founded only when no task is open and nothing runs for an     *)
(* ended one, so what is left to show is that no task that ended in this   *)
(* frame is about to be dispatched: that needs the order of the systems    *)
(* (Frames, Named) and that messages which found a task are there only     *)
(* while no task is open (Quiet).                                          *)
(*                                                                         *)
(* The order.  The barrier lets inputs be taken in their order, and the    *)
(* marks of a frame leave nothing ahead of a command (Barrier).  A command *)
(* that ends a task takes effect before the next input is let in, and a    *)
(* stop before the next system that could move a text (Doors).  A text     *)
(* goes from the delivery to the inbox and to the memory, or is continued  *)
(* with, and none of the four overtakes the one ahead of it but for a text *)
(* a stop has left in the inbox (Course); that needs to know what a task   *)
(* does while something is on its way to it (Turns).                       *)
(*                                                                         *)
(* The channel.  Both give the refinement of ChannelSlot: who has the      *)
(* channel is the newest task there is (Newest), since inputs are let in   *)
(* in their order, and a new one finds nothing left of the last.           *)
(***************************************************************************)
EXTENDS Conversation, WellFoundedInduction, FiniteSetTheorems, TLAPS


-----------------------------------------------------------------------------
(* The least of a set of inputs.                                           *)

LEMMA FirstIs ==
  ASSUME NEW S, S \subseteq Nat, S # {}
  PROVE  First(S) \in S /\ \A m \in S : First(S) <= m
<1> DEFINE R == {ss \in Nat \X Nat : ss[1] < ss[2]}
<1>1. IsWellFoundedOn(R, Nat)
  BY NatLessThanWellFounded, Zenon DEF OpToRel
<1>2. \A x, y \in Nat : x < y => <<x, y>> \in R
  OBVIOUS
<1> HIDE DEF R
<1>3. \E x \in S : \A y \in S : ~ (<<y, x>> \in R)
  BY <1>1, WFMin
<1>4. PICK x \in S : \A y \in S : ~ (<<y, x>> \in R)
  BY <1>3
<1>5. \A y \in S : ~ (y < x)
  BY <1>2, <1>4, Zenon
<1>6. \A y \in S : x <= y
  <2> TAKE y \in S
  <2>1. ~ (y < x) /\ x \in Nat /\ y \in Nat
    BY <1>5
  <2> QED
    BY <2>1, SMT
<1>7. \E n \in S : \A m \in S : n <= m
  BY <1>6
<1> QED
  BY <1>7 DEF First

-----------------------------------------------------------------------------
(* The inductive invariant.                                                *)

Types ==
  /\ next \in Nat \ {0} /\ waiting \subseteq Inputs /\ creates \subseteq Inputs
  /\ status \in [Tasks -> Statuses] /\ held \in [Tasks -> SUBSET Work]
  /\ due \in [Tasks -> {"none", "live", "agent"}]
  /\ \A c \in continues : c.task \in Tasks

\* The order of the systems that the others rely on.
Frames ==
  /\ "command" \in todo => "route" \in todo
  /\ "route" \in todo => "dispatch" \in todo
  /\ "continue" \in todo => "dispatch" \in todo

\* Inputs that wait have not been used; tasks that were not created hold nothing.
Fresh ==
  /\ \A n \in waiting \cup creates : status[n] = "none" /\ n < next
  /\ waiting \cap creates = {}
  /\ \A t \in Tasks :
       /\ t >= next => status[t] = "none"
       /\ status[t] = "none" => held[t] = {} /\ due[t] = "none"
  /\ \A t \in finishes \cup clears : t \in Tasks /\ status[t] # "none"

\* A continued task is to be dispatched in the same frame, after its routing.
Named ==
  \A t \in Tasks : due[t] = "agent" =>
    /\ "dispatch" \in todo /\ "route" \notin todo
    /\ status[t] \notin {"none", "gone"}

\* Has the channel, or will have it again in this frame.
Owner(t) == Open(t) \/ due[t] = "agent"

Quiet == creates # {} => \A t \in Tasks : ~Owner(t)

Slot ==
  \A t, u \in Tasks : t # u /\ Owner(t) => ~Owner(u) /\ (status[u] = "ended" => held[u] = {})

IInv == Types /\ Frames /\ Fresh /\ Named /\ Quiet /\ Slot

-----------------------------------------------------------------------------
\* A system that has run keeps the order of those that are left.
LEMMA FrameStep ==
  ASSUME Frames, NEW s \in Systems, Done(s)
  PROVE  /\ Frames'
         /\ todo' \subseteq todo
         /\ s # "dispatch" /\ "dispatch" \in todo => "dispatch" \in todo'
  BY DEF Frames, Done, Runs, Before, Systems

LEMMA InitIInv ==
  ASSUME ConversationAssumption, Init
  PROVE  IInv
<1>1. Types
  BY SMT DEF Init, Types, Inputs, Tasks, Statuses, Work
<1>2. Frames /\ Named /\ Quiet /\ Slot
  BY SMT DEF Init, Frames, Named, Quiet, Slot, Owner, Open
<1>3. Fresh
  <2>1. \A t \in Tasks : status[t] = "none" /\ held[t] = {} /\ due[t] = "none"
    BY DEF Init
  <2>2. waiting = {} /\ creates = {} /\ finishes = {} /\ clears = {}
    BY DEF Init
  <2> QED
    BY <2>1, <2>2 DEF Fresh
<1> QED
  BY <1>1, <1>2, <1>3 DEF IInv

\* Steps that leave the tasks and the messages as they are.
LEMMA ArriveStep ==
  ASSUME ConversationAssumption, IInv, Arrive
  PROVE  IInv'
<1>1. /\ next \in Inputs /\ next' = next + 1 /\ waiting' = waiting \cup {next}
      /\ UNCHANGED <<taskVars, mailVars, todo>>
  BY SMT DEF ConversationAssumption, Arrive, IInv, Types, Inputs, Fresh
<1>2. Types'
  BY <1>1, SMT DEF IInv, Types, taskVars, mailVars
<1>3. Frames' /\ Named' /\ Quiet' /\ Slot'
  BY <1>1, SMT DEF IInv, Frames, Named, Quiet, Slot, Owner, Open, taskVars, mailVars
<1>4. Fresh'
  BY <1>1, SMT DEF IInv, Types, Fresh, taskVars, mailVars, Inputs, Tasks
<1> QED
  BY <1>2, <1>3, <1>4 DEF IInv

LEMMA TickStep ==
  ASSUME IInv, Tick
  PROVE  IInv'
  BY SMT DEF Tick, IInv, Types, Frames, Fresh, Named, Quiet, Slot, Owner, Open,
    Inputs, Tasks, inputVars, taskVars, mailVars, Systems

\* The work that was cancelled.
LEMMA CancelledIs ==
  ASSUME NEW w \in SUBSET Work
  PROVE  Cancelled(w) \in SUBSET Work /\ Cancelled({}) = {}
  BY DEF Cancelled, Work

\* Between frames, work of one task returns or goes.
LEMMA ReturnStep ==
  ASSUME IInv, NEW t \in Tasks, ToolReturns(t)
  PROVE  IInv'
<1>1. Types'
  BY SMT DEF ToolReturns, Holds, Owes, IInv, Types, Work, inputVars, mailVars
<1>2. Frames' /\ Named' /\ Quiet'
  BY SMT DEF ToolReturns, Owes, IInv, Types, Frames, Named, Quiet, Owner, Open, mailVars
<1>3. Fresh'
  BY SMT DEF ToolReturns, Holds, Owes, IInv, Types, Fresh, inputVars, mailVars
<1>4. Slot'
  BY SMT DEF ToolReturns, Holds, Owes, IInv, Types, Slot, Owner, Open
<1> QED
  BY <1>1, <1>2, <1>3, <1>4 DEF IInv

LEMMA GoneStep ==
  ASSUME IInv, NEW t \in Tasks, Released(t) \/ ShellExits(t)
  PROVE  IInv'
<1>1. Types'
  BY SMT DEF Released, ShellExits, Holds, IInv, Types, Work, inputVars, mailVars
<1>2. Frames' /\ Named' /\ Quiet'
  BY SMT DEF Released, ShellExits, IInv, Types, Frames, Named, Quiet, Owner, Open, mailVars
<1>3. Fresh'
  BY SMT DEF Released, ShellExits, Holds, IInv, Types, Fresh, inputVars, mailVars
<1>4. Slot'
  BY SMT DEF Released, ShellExits, Holds, IInv, Types, Slot, Owner, Open
<1> QED
  BY <1>1, <1>2, <1>3, <1>4 DEF IInv

LEMMA IdleStep ==
  ASSUME IInv, NEW t \in Tasks, IdleEnds(t)
  PROVE  IInv'
  BY SMT DEF IdleEnds, IInv, Types, Frames, Fresh, Named, Quiet, Slot, Owner, Open,
    inputVars, taskVars, mailVars

\* A system that leaves tasks and inputs as they are.
LEMMA KeptStep ==
  ASSUME IInv, NEW s \in Systems \ {"dispatch"}, Done(s),
         UNCHANGED <<next, waiting, creates, status, held, due, finishes, clears>>,
         \A c \in continues' : c.task \in Tasks
  PROVE  IInv'
<1>1. Frames' /\ todo' \subseteq todo /\ ("dispatch" \in todo => "dispatch" \in todo')
  BY FrameStep DEF IInv
<1>2. Types'
  BY SMT DEF IInv, Types
<1>3. Fresh'
  BY SMT DEF IInv, Fresh
<1>4. Named'
  BY <1>1, SMT DEF IInv, Named
<1>5. Quiet' /\ Slot'
  BY SMT DEF IInv, Quiet, Slot, Owner, Open
<1> QED
  BY <1>1, <1>2, <1>3, <1>4, <1>5 DEF IInv

LEMMA KeepingSteps ==
  ASSUME IInv, Order \/ RouteEnds \/ Ingest \/ Wake \/ ContinueEnds
  PROVE  IInv'
<1>1. CASE Order
  BY <1>1, KeptStep, SMT DEF Order, IInv, Types, Systems, taskVars, mailVars
<1>2. CASE RouteEnds
  BY <1>2, KeptStep, SMT DEF RouteEnds, IInv, Types, Systems, inputVars, taskVars, mailVars
<1>3. CASE Ingest
  BY <1>3, KeptStep, SMT DEF Ingest, IInv, Types, Systems, inputVars
<1>4. CASE Wake
  <2>1. \A c \in continues' : c.task \in Tasks
    BY <1>4, SMT DEF Wake, IInv, Types
  <2> QED
    BY <1>4, <2>1, KeptStep, SMT DEF Wake, Systems, inputVars
<1>5. CASE ContinueEnds
  BY <1>5, KeptStep, SMT DEF ContinueEnds, IInv, Types, Systems, inputVars, taskVars, mailVars
<1> QED
  BY <1>1, <1>2, <1>3, <1>4, <1>5

-----------------------------------------------------------------------------
(* Inputs.                                                                 *)

LEMMA CardStep ==
  ASSUME IInv, Card
  PROVE  IInv'
<1>1. Frames' /\ todo' \subseteq todo /\ ("dispatch" \in todo => "dispatch" \in todo')
  BY FrameStep DEF Card, IInv, Systems
<1>2. CASE UNCHANGED <<inputVars, status, due, finishes, stops, histVars>>
  BY <1>2, KeptStep, SMT DEF Card, IInv, Types, Systems, inputVars
<1>3. CASE \E n \in {m \in Free : IsCard(m)}, t \in {m \in Tasks : status[m] # "none"} \cup {0},
               fresh \in BOOLEAN :
             LET ok == t # 0 /\ Open(t) /\ fresh
             IN /\ Consumed(n)
                /\ finishes' = IF ok /\ script.kind[n] = "cardFinish" THEN finishes \cup {t} ELSE finishes
                /\ IF ok /\ script.kind[n] = "cardAnswer" /\ status[t] = "question"
                     THEN status' = [status EXCEPT ![t] = "working"] /\ Owes(t, "live")
                     ELSE UNCHANGED <<status, due>>
  <2>1. PICK n \in Free, t \in {m \in Tasks : status[m] # "none"} \cup {0} :
          /\ Consumed(n)
          /\ finishes' = finishes \/ (t \in Tasks /\ status[t] # "none" /\ finishes' = finishes \cup {t})
          /\ \/ UNCHANGED <<status, due>>
             \/ /\ t \in Tasks /\ status[t] = "question"
                /\ status' = [status EXCEPT ![t] = "working"] /\ due' = [due EXCEPT ![t] = "live"]
    BY <1>3, SMT DEF Owes, Open
  <2>2. /\ waiting' = waiting \ {n} /\ next' = next
        /\ UNCHANGED <<creates, held, continues, clears>>
    BY <2>1 DEF Consumed, Card
  <2>3. Types'
    BY <2>1, <2>2, SMT DEF IInv, Types, Statuses
  <2>4. \A u \in Tasks : /\ status'[u] = status[u] \/ (status[u] = "question" /\ status'[u] = "working")
                         /\ due'[u] = due[u] \/ (status[u] = "question" /\ due'[u] = "live")
    BY <2>1, SMT DEF IInv, Types
  <2>5. Fresh'
    <3>1. \A m \in waiting' \cup creates' : m \in waiting \cup creates /\ m \in Tasks
      BY <2>2, SMT DEF IInv, Types, Inputs, Tasks
    <3>2. \A m \in waiting' \cup creates' : status'[m] = "none" /\ m < next'
      BY <2>2, <2>4, <3>1, SMT DEF IInv, Fresh
    <3>3. waiting' \cap creates' = {}
      BY <2>2, SMT DEF IInv, Fresh
    <3>4. \A u \in Tasks : /\ u >= next' => status'[u] = "none"
                           /\ status'[u] = "none" => held'[u] = {} /\ due'[u] = "none"
      BY <2>2, <2>4, SMT DEF IInv, Fresh
    <3>5. \A u \in finishes' \cup clears' : u \in Tasks /\ status'[u] # "none"
      BY <2>1, <2>2, <2>4, SMT DEF IInv, Fresh
    <3> QED
      BY <3>2, <3>3, <3>4, <3>5 DEF Fresh
  <2>6. Named' /\ Quiet' /\ Slot'
    BY <1>1, <2>2, <2>4, SMT DEF IInv, Types, Named, Quiet, Slot, Owner, Open
  <2> QED
    BY <1>1, <2>3, <2>5, <2>6 DEF IInv
<1> QED
  BY <1>2, <1>3 DEF Card

LEMMA CommandStep ==
  ASSUME ConversationAssumption, IInv, Command
  PROVE  IInv'
<1>1. Frames' /\ todo' \subseteq todo /\ ("dispatch" \in todo => "dispatch" \in todo')
  BY FrameStep DEF Command, IInv, Systems
<1>2. CASE {n \in Free : ~IsText(n) /\ ~IsCard(n)} = {}
  BY <1>2, KeptStep, SMT DEF Command, IInv, Types, Systems, inputVars, taskVars
<1>3. CASE {n \in Free : ~IsText(n) /\ ~IsCard(n)} # {}
  <2> DEFINE n == First({m \in Free : ~IsText(m) /\ ~IsCard(m)})
  <2>1. n \in waiting
    <3> DEFINE X == {m \in Free : ~IsText(m) /\ ~IsCard(m)}
    <3>1. waiting \subseteq Nat
      BY SMT DEF IInv, Types, Inputs
    <3>2. X \subseteq Nat /\ X \subseteq waiting
      BY <3>1, Zenon DEF Free
    <3>3. X # {}
      BY <1>3
    <3> HIDE DEF X
    <3>4. First(X) \in X
      BY <3>2, <3>3, FirstIs
    <3> QED
      BY <3>2, <3>4 DEF X
  <2> DEFINE To(k, S) == IF script.kind[n] = k THEN S ELSE {}
  <2>2. /\ Consumed(n) /\ UNCHANGED <<taskVars, continues>>
        /\ creates' = creates \cup To("new", IF OpenRoots = {} THEN {n} ELSE {})
        /\ finishes' = finishes \cup To("finish", Sole)
        /\ clears' = clears \cup To("clear", Sole)
    BY <1>3 DEF Command
  <2> HIDE DEF n
  <2>3. Sole \subseteq OpenRoots
    BY DEF Sole
  <2>4. finishes' \subseteq finishes \cup OpenRoots /\ clears' \subseteq clears \cup OpenRoots
    BY <2>2, <2>3
  <2>5. creates' = creates \/ (OpenRoots = {} /\ creates' = creates \cup {n})
    BY <2>2
  <2>6. /\ waiting' = waiting \ {n} /\ UNCHANGED <<next, taskVars, continues>>
        /\ creates' = creates \/ (OpenRoots = {} /\ creates' = creates \cup {n})
        /\ finishes' \subseteq finishes \cup OpenRoots /\ clears' \subseteq clears \cup OpenRoots
    BY <2>2, <2>4, <2>5 DEF Consumed
  <2>7. Types'
    BY <2>1, <2>6, SMT DEF IInv, Types, taskVars
  <2>8. Fresh'
    BY <2>1, <2>6, SMT DEF IInv, Types, Fresh, taskVars, OpenRoots, Open
  <2>9. "route" \in todo
    BY DEF Command, Done, Runs, IInv, Frames
  <2>10. Named' /\ Quiet' /\ Slot'
    BY <1>1, <2>6, <2>9, SMT DEF IInv, Types, Named, Quiet, Slot, Owner, Open, OpenRoots, taskVars
  <2> QED
    BY <1>1, <2>7, <2>8, <2>10 DEF IInv
<1> QED
  BY <1>2, <1>3

LEMMA RouteStep ==
  ASSUME ConversationAssumption, IInv, Route
  PROVE  IInv'
<1> DEFINE n == First(FreeTexts)
<1>1. n \in waiting
  <2>1. waiting \subseteq Nat
    BY SMT DEF IInv, Types, Inputs
  <2>2. FreeTexts \subseteq Nat /\ FreeTexts \subseteq waiting
    BY <2>1, Zenon DEF FreeTexts, Free
  <2>3. FreeTexts # {}
    BY DEF Route
  <2>4. First(FreeTexts) \in FreeTexts
    BY <2>2, <2>3, FirstIs
  <2> QED
    BY <2>2, <2>4
<1> DEFINE toUser == {t \in Sole : status[t] \in {"user"}}
           replied == IF script.client THEN {} ELSE {t \in Sole : status[t] \in {"question"}}
<1>2. /\ status' = [t \in Tasks |-> IF t \in toUser \cup replied THEN "working" ELSE status[t]]
      /\ due' = [t \in Tasks |-> IF t \in replied THEN "live" ELSE due[t]]
      /\ continues' = continues \cup {[task |-> t, items |-> <<n>>] : t \in toUser}
  BY DEF Route
<1>3. toUser \subseteq OpenRoots /\ replied \subseteq OpenRoots
  BY DEF Sole
<1>4. \A c \in continues' : c \in continues \/ c.task \in toUser
  BY <1>2
<1> HIDE DEF toUser, replied
<1>5. PICK S \in SUBSET OpenRoots, A \in SUBSET OpenRoots :
        /\ A \subseteq S
        /\ status' = [t \in Tasks |-> IF t \in S THEN "working" ELSE status[t]]
        /\ due' = [t \in Tasks |-> IF t \in A THEN "live" ELSE due[t]]
        /\ \A c \in continues' : c \in continues \/ c.task \in S
  <2>1. toUser \cup replied \in SUBSET OpenRoots /\ replied \in SUBSET OpenRoots
    BY <1>3
  <2>2. /\ replied \subseteq toUser \cup replied
        /\ \A c \in continues' : c \in continues \/ c.task \in toUser \cup replied
    BY <1>4
  <2> QED
    BY <1>2, <2>1, <2>2, Zenon
<1>6. /\ waiting' = waiting \ {n} /\ UNCHANGED <<next, held, finishes, clears, todo>>
      /\ creates' = creates \/ (OpenRoots = {} /\ creates' = creates \cup {n})
      /\ "route" \in todo
  BY SMT DEF Route, Consumed, Runs
<1> HIDE DEF n
<1>7. Types'
  BY <1>1, <1>5, <1>6, SMT DEF IInv, Types, OpenRoots, Statuses
<1>8. \A u \in Tasks : /\ status'[u] = status[u] \/ (Open(u) /\ status'[u] = "working")
                       /\ due'[u] = due[u] \/ (Open(u) /\ due'[u] = "live")
  BY <1>5, SMT DEF OpenRoots
<1>9. Fresh'
  <2>1. \A m \in waiting' \cup creates' : m \in waiting \cup creates /\ m \in Tasks
    BY <1>1, <1>6, SMT DEF IInv, Types, Inputs, Tasks
  <2>2. \A m \in waiting' \cup creates' : status'[m] = "none" /\ m < next'
    BY <1>6, <1>8, <2>1, SMT DEF IInv, Fresh, Open
  <2>3. waiting' \cap creates' = {}
    BY <1>6, SMT DEF IInv, Fresh
  <2>4. \A u \in Tasks : /\ u >= next' => status'[u] = "none"
                         /\ status'[u] = "none" => held'[u] = {} /\ due'[u] = "none"
    BY <1>6, <1>8, SMT DEF IInv, Fresh, Open
  <2>5. \A u \in finishes' \cup clears' : u \in Tasks /\ status'[u] # "none"
    BY <1>6, <1>8, SMT DEF IInv, Fresh
  <2> QED
    BY <2>2, <2>3, <2>4, <2>5 DEF Fresh
<1>10. Frames' /\ Named' /\ Quiet' /\ Slot'
  BY <1>5, <1>6, SMT DEF IInv, Types, Frames, Named, Quiet, Slot, Owner, Open, OpenRoots
<1> QED
  BY <1>7, <1>9, <1>10 DEF IInv

-----------------------------------------------------------------------------
(* Systems that change tasks: no task becomes an owner, and one that is    *)
(* not an owner and has ended gets no work.                                *)

LEMMA TasksStep ==
  ASSUME IInv, Frames', Types', UNCHANGED <<next, waiting, creates>>,
         finishes' \subseteq finishes, clears' \subseteq clears,
         \A t \in Tasks :
           /\ Owner(t)' => Owner(t)
           /\ status'[t] = "ended" =>
                Owner(t) \/ (status[t] = "ended" /\ (held[t] = {} => held'[t] = {}))
           /\ status[t] = "none" => status'[t] = "none" /\ held'[t] = held[t] /\ due'[t] = due[t]
           /\ status'[t] = "none" => status[t] = "none"
           /\ due'[t] = "agent" =>
                "dispatch" \in todo' /\ "route" \notin todo' /\ status'[t] \notin {"none", "gone"}
  PROVE  IInv'
<1>1. Fresh'
  <2>1. \A n \in waiting \cup creates : n \in Tasks
    BY SMT DEF IInv, Types, Inputs, Tasks
  <2> QED
    BY <2>1, SMT DEF IInv, Fresh
<1>2. Named'
  BY DEF Named
<1>3. Quiet'
  BY DEF IInv, Quiet
<1>4. Slot'
  BY DEF IInv, Slot
<1> QED
  BY <1>1, <1>2, <1>3, <1>4 DEF IInv

LEMMA FinishStep ==
  ASSUME IInv, Finish
  PROVE  IInv'
<1> DEFINE over == {t \in finishes : status[t] # "gone"}
<1>1. Frames' /\ todo' \subseteq todo /\ ("dispatch" \in todo => "dispatch" \in todo')
  BY FrameStep DEF Finish, IInv, Systems
<1>2. /\ UNCHANGED <<next, waiting, creates, due, clears, continues>> /\ finishes' = {}
      /\ status' = [t \in Tasks |-> IF t \in over THEN "ended" ELSE status[t]]
      /\ held' = [t \in Tasks |-> IF t \in over THEN Cancelled(held[t]) ELSE held[t]]
  BY DEF Finish, inputVars
<1>3. \A t \in over : t \in Tasks /\ status[t] \notin {"none", "gone"}
  BY DEF IInv, Fresh
<1> HIDE DEF over
<1>4. \A t \in Tasks : held[t] \in SUBSET Work /\ status[t] \in Statuses
  BY DEF IInv, Types
<1>5. Types'
  BY <1>2, <1>4, CancelledIs DEF IInv, Types, Statuses
<1>6. \A t \in Tasks : held[t] = {} => held'[t] = {}
  BY <1>2, <1>4, CancelledIs
<1>7. \A t \in Tasks : status'[t] = status[t] \/ (status'[t] = "ended" /\ t \in over)
  BY <1>2
<1>8. \A t \in over : Open(t) \/ status[t] = "ended"
  BY <1>3, <1>4 DEF Open, Statuses
<1>9. \A t \in Tasks : status[t] = "none" => t \notin over
  BY <1>3
<1>10. \A t \in Tasks :
           /\ Owner(t)' => Owner(t)
           /\ status'[t] = "ended" =>
                Owner(t) \/ (status[t] = "ended" /\ (held[t] = {} => held'[t] = {}))
  BY <1>2, <1>6, <1>7, <1>8 DEF Owner, Open
<1>11. \A t \in Tasks :
           /\ status[t] = "none" => status'[t] = "none" /\ held'[t] = held[t] /\ due'[t] = due[t]
           /\ status'[t] = "none" => status[t] = "none"
  BY <1>2, <1>9
<1>12. \A t \in Tasks : due'[t] = "agent" =>
                "dispatch" \in todo' /\ "route" \notin todo' /\ status'[t] \notin {"none", "gone"}
  BY <1>1, <1>2, <1>7 DEF IInv, Named
<1>13. finishes' \subseteq finishes /\ clears' \subseteq clears
  BY <1>2
<1> QED
  BY <1>1, <1>2, <1>5, <1>10, <1>11, <1>12, <1>13, TasksStep

LEMMA ClearStep ==
  ASSUME IInv, Clear
  PROVE  IInv'
<1>1. Frames' /\ todo' \subseteq todo /\ ("dispatch" \in todo => "dispatch" \in todo')
  BY FrameStep DEF Clear, IInv, Systems
<1>2. PICK gone \in SUBSET clears :
        /\ clears' = clears \ gone
        /\ status' = [t \in Tasks |-> IF t \in gone THEN "gone" ELSE status[t]]
        /\ held' = [t \in Tasks |-> IF t \in gone THEN {}
                                    ELSE IF t \in clears THEN Cancelled(held[t]) ELSE held[t]]
        /\ due' = [t \in Tasks |-> IF t \in gone THEN "none" ELSE due[t]]
  BY DEF Clear
<1>3. UNCHANGED <<next, waiting, creates, finishes, continues>>
  BY DEF Clear, inputVars
<1>4. \A t \in clears : t \in Tasks /\ status[t] # "none"
  BY DEF IInv, Fresh
<1>5. \A t \in Tasks : held[t] \in SUBSET Work
  BY DEF IInv, Types
<1>6. Types'
  <2>1. held' \in [Tasks -> SUBSET Work]
    BY <1>2, <1>5, CancelledIs
  <2>2. status' \in [Tasks -> Statuses] /\ due' \in [Tasks -> {"none", "live", "agent"}]
    BY <1>2 DEF IInv, Types, Statuses
  <2> QED
    BY <1>3, <2>1, <2>2 DEF IInv, Types
<1>7. \A t \in Tasks : held[t] = {} => held'[t] = {}
  BY <1>2, <1>5, CancelledIs
<1>8. \A t \in Tasks : /\ t \notin gone => status'[t] = status[t] /\ due'[t] = due[t]
                       /\ t \in gone => status'[t] = "gone" /\ due'[t] = "none"
                       /\ t \notin clears => held'[t] = held[t]
  BY <1>2
<1>9. \A t \in Tasks :
           /\ Owner(t)' => Owner(t)
           /\ status'[t] = "ended" =>
                Owner(t) \/ (status[t] = "ended" /\ (held[t] = {} => held'[t] = {}))
  BY <1>7, <1>8 DEF Owner, Open
<1>10. \A t \in Tasks :
           /\ status[t] = "none" => status'[t] = "none" /\ held'[t] = held[t] /\ due'[t] = due[t]
           /\ status'[t] = "none" => status[t] = "none"
  BY <1>4, <1>8
<1>11. \A t \in Tasks : due'[t] = "agent" =>
                "dispatch" \in todo' /\ "route" \notin todo' /\ status'[t] \notin {"none", "gone"}
  BY <1>1, <1>8 DEF IInv, Named
<1>12. finishes' \subseteq finishes /\ clears' \subseteq clears
  BY <1>2, <1>3
<1> QED
  BY <1>1, <1>3, <1>6, <1>9, <1>10, <1>11, <1>12, TasksStep

\* The message a task is founded on is one of those that are there.
LEMMA ForemostIs ==
  ASSUME NEW S, S \subseteq Nat, S # {}
  PROVE  Foremost(S) \in S
<1> DEFINE X == {n \in S : IsText(n)}
<1>1. CASE X = {}
  BY <1>1, FirstIs DEF Foremost
<1>2. CASE X # {}
  <2>1. X \subseteq Nat /\ X \subseteq S
    OBVIOUS
  <2> HIDE DEF X
  <2>2. First(X) \in X
    BY <1>2, <2>1, FirstIs
  <2>3. Foremost(S) = First(X)
    BY <1>2 DEF Foremost, X
  <2> QED
    BY <2>1, <2>2, <2>3
<1> QED
  BY <1>1, <1>2

LEMMA CreateStep ==
  ASSUME ConversationAssumption, IInv, Create
  PROVE  IInv'
<1>1. Frames' /\ todo' \subseteq todo /\ ("dispatch" \in todo => "dispatch" \in todo')
  BY FrameStep DEF Create, IInv, Systems
<1>2. UNCHANGED <<next, held, continues, finishes, clears>>
  BY DEF Create
<1>3. CASE creates = {} \/ Closing
  BY <1>2, <1>3, KeptStep, SMT DEF Create, IInv, Types, Systems
<1>4. CASE creates # {} /\ ~Closing /\ OpenRoots # {}
  <2>1. PICK t \in Tasks : Open(t)
    BY <1>4 DEF OpenRoots
  <2> QED
    BY <1>4, <2>1 DEF IInv, Quiet, Owner
<1>5. CASE creates # {} /\ ~Closing /\ OpenRoots = {}
  <2> DEFINE f == Foremost(creates)
  <2>1. f \in creates /\ f \in Tasks
    <3>1. creates \subseteq Nat
      BY SMT DEF IInv, Types, Inputs
    <3>2. f \in creates
      BY <1>5, <3>1, ForemostIs
    <3> QED
      BY <3>2 DEF IInv, Types, Tasks
  <2>2. /\ creates' = {} /\ waiting' = waiting
        /\ status' = [t \in Tasks |-> IF t = f THEN "working" ELSE status[t]]
        /\ due' = [t \in Tasks |-> IF t = f THEN "live" ELSE due[t]]
    BY <1>5 DEF Create, Founded
  <2> HIDE DEF f
  <2>3. Types'
    BY <1>2, <2>1, <2>2 DEF IInv, Types, Statuses
  <2>4. status[f] = "none" /\ f < next /\ f \notin waiting
    BY <2>1 DEF IInv, Fresh
  <2>5. Fresh'
    <3>1. \A n \in waiting : n \in Tasks
      BY DEF IInv, Types, Tasks
    <3>2. \A n \in waiting' \cup creates' : status'[n] = "none" /\ n < next'
      BY <1>2, <2>2, <2>4, <3>1 DEF IInv, Fresh
    <3>3. \A t \in Tasks : t >= next' => status'[t] = "none"
      BY <1>2, <2>2, <2>4, SMT DEF IInv, Types, Fresh, Tasks, Inputs
    <3>4. \A t \in Tasks : status'[t] = "none" => held'[t] = {} /\ due'[t] = "none"
      BY <1>2, <2>2 DEF IInv, Fresh
    <3>5. \A t \in finishes' \cup clears' : t \in Tasks /\ status'[t] # "none"
      BY <1>2, <2>2 DEF IInv, Fresh
    <3> QED
      BY <2>2, <3>2, <3>3, <3>4, <3>5 DEF Fresh
  <2>6. Named'
    BY <1>1, <2>2 DEF IInv, Named
  <2>7. Quiet'
    BY <2>2 DEF Quiet
  <2>8. Slot'
    <3>1. \A t \in Tasks : ~Owner(t)
      BY <1>5 DEF IInv, Quiet
    <3>2. \A t \in Tasks : t # f => ~Owner(t)'
      BY <2>2, <3>1 DEF Owner, Open
    <3>3. \A t \in Tasks : status'[t] = "ended" => held'[t] = {}
      BY <1>2, <1>5, <2>2 DEF Closing
    <3> QED
      BY <3>2, <3>3 DEF Slot
  <2> QED
    BY <1>1, <2>3, <2>5, <2>6, <2>7, <2>8 DEF IInv
<1> QED
  BY <1>3, <1>4, <1>5

LEMMA ContinueStep ==
  ASSUME IInv, Continue
  PROVE  IInv'
<1>1. "dispatch" \in todo /\ "route" \notin todo /\ todo' = todo
  BY DEF Continue, Runs, Before, IInv, Frames
<1>2. UNCHANGED <<next, waiting, held, creates, finishes, clears>>
  BY DEF Continue, inputVars
<1>3. PICK c \in continues :
        /\ continues' = continues \ {c}
        /\ \/ UNCHANGED <<status, due>>
           \/ /\ Open(c.task) /\ status' = [status EXCEPT ![c.task] = "working"]
              /\ due' = [due EXCEPT ![c.task] = "agent"]
  BY DEF Continue, Owes
<1>4. Frames'
  BY <1>1 DEF IInv, Frames
<1>5. Types'
  BY <1>2, <1>3 DEF IInv, Types, Statuses
<1>6. \A t \in Tasks : (status'[t] = status[t] /\ due'[t] = due[t])
                       \/ (Open(t) /\ status'[t] = "working" /\ due'[t] = "agent")
  BY <1>3 DEF IInv, Types
<1>7. \A t \in Tasks :
           /\ Owner(t)' => Owner(t)
           /\ status'[t] = "ended" =>
                Owner(t) \/ (status[t] = "ended" /\ (held[t] = {} => held'[t] = {}))
  BY <1>2, <1>6 DEF Owner, Open
<1>8. \A t \in Tasks :
           /\ status[t] = "none" => status'[t] = "none" /\ held'[t] = held[t] /\ due'[t] = due[t]
           /\ status'[t] = "none" => status[t] = "none"
  BY <1>2, <1>6 DEF Open
<1>9. \A t \in Tasks : due'[t] = "agent" =>
                "dispatch" \in todo' /\ "route" \notin todo' /\ status'[t] \notin {"none", "gone"}
  BY <1>1, <1>6 DEF IInv, Named
<1>10. finishes' \subseteq finishes /\ clears' \subseteq clears
  BY <1>2
<1> QED
  BY <1>2, <1>4, <1>5, <1>7, <1>8, <1>9, <1>10, TasksStep

LEMMA LlmStep ==
  ASSUME IInv, Llm
  PROVE  IInv'
<1>1. Frames' /\ todo' \subseteq todo /\ ("dispatch" \in todo => "dispatch" \in todo')
  BY FrameStep DEF Llm, IInv, Systems
<1>2. UNCHANGED <<next, waiting, due, creates, continues, finishes, clears>>
  BY DEF Llm, inputVars, mailVars
<1>3. CASE Nothing
  BY <1>2, <1>3, KeptStep, SMT DEF Nothing, Llm, Systems, IInv, Types
<1>4. CASE \E t \in Tasks :
             /\ status[t] = "working" /\ "llm" \in held[t]
             /\ \/ status' = [status EXCEPT ![t] = "user"] /\ Holds(t, held[t] \ {"llm"})
                \/ Holds(t, (held[t] \ {"llm"}) \cup {"tool"}) /\ UNCHANGED status
                \/ status' = [status EXCEPT ![t] = "ended"] /\ Holds(t, held[t] \ {"llm"})
  <2>1. PICK t \in Tasks, w \in SUBSET Work, s \in {"working", "user", "ended"} :
          /\ status[t] = "working"
          /\ status' = [status EXCEPT ![t] = s] /\ held' = [held EXCEPT ![t] = w]
    <3>1. PICK t \in Tasks :
             /\ status[t] = "working"
             /\ \/ status' = [status EXCEPT ![t] = "user"] /\ Holds(t, held[t] \ {"llm"})
                \/ Holds(t, (held[t] \ {"llm"}) \cup {"tool"}) /\ UNCHANGED status
                \/ status' = [status EXCEPT ![t] = "ended"] /\ Holds(t, held[t] \ {"llm"})
      BY <1>4
    <3>2. held[t] \ {"llm"} \in SUBSET Work /\ (held[t] \ {"llm"}) \cup {"tool"} \in SUBSET Work
      BY DEF IInv, Types, Work
    <3>3. status = [status EXCEPT ![t] = "working"]
      BY <3>1 DEF IInv, Types
    <3> QED
      BY <3>1, <3>2, <3>3, Zenon DEF Holds
  <2>2. \A u \in Tasks : u # t => status'[u] = status[u] /\ held'[u] = held[u]
    BY <2>1 DEF IInv, Types
  <2>3. status[t] = "working" /\ status'[t] \in {"working", "user", "ended"}
    BY <2>1 DEF IInv, Types
  <2>4. Types'
    BY <1>2, <2>1 DEF IInv, Types, Statuses
  <2>5. \A u \in Tasks :
           /\ Owner(u)' => Owner(u)
           /\ status'[u] = "ended" =>
                Owner(u) \/ (status[u] = "ended" /\ (held[u] = {} => held'[u] = {}))
    BY <1>2, <2>2, <2>3 DEF Owner, Open
  <2>6. \A u \in Tasks :
           /\ status[u] = "none" => status'[u] = "none" /\ held'[u] = held[u] /\ due'[u] = due[u]
           /\ status'[u] = "none" => status[u] = "none"
    BY <1>2, <2>2, <2>3
  <2>7. \A u \in Tasks : due'[u] = "agent" =>
                "dispatch" \in todo' /\ "route" \notin todo' /\ status'[u] \notin {"none", "gone"}
    BY <1>1, <1>2, <2>2, <2>3 DEF IInv, Named
  <2>8. finishes' \subseteq finishes /\ clears' \subseteq clears
    BY <1>2
  <2> QED
    BY <1>1, <1>2, <2>4, <2>5, <2>6, <2>7, <2>8, TasksStep
<1> QED
  BY <1>3, <1>4 DEF Llm

LEMMA StopStep ==
  ASSUME IInv, Stop
  PROVE  IInv'
<1> DEFINE stopped == {t \in stops : Open(t) /\ status[t] # "user"}
<1>1. Frames' /\ todo' \subseteq todo /\ ("dispatch" \in todo => "dispatch" \in todo')
  BY FrameStep DEF Stop, IInv, Systems
<1>2. /\ UNCHANGED <<next, waiting, creates, finishes, clears, continues>>
      /\ status' = [t \in Tasks |-> IF t \in stopped THEN "user" ELSE status[t]]
      /\ held' = [t \in Tasks |-> IF t \in stopped THEN Cancelled(held[t]) ELSE held[t]]
      /\ due' = [t \in Tasks |-> IF t \in stopped /\ due[t] = "live" THEN "none" ELSE due[t]]
  BY DEF Stop, inputVars
<1>3. \A t \in stopped : Open(t)
  OBVIOUS
<1> HIDE DEF stopped
<1>4. \A t \in Tasks : held[t] \in SUBSET Work
  BY DEF IInv, Types
<1>5. Types'
  <2>1. held' \in [Tasks -> SUBSET Work]
    BY <1>2, <1>4, CancelledIs
  <2>2. status' \in [Tasks -> Statuses] /\ due' \in [Tasks -> {"none", "live", "agent"}]
    BY <1>2 DEF IInv, Types, Statuses
  <2> QED
    BY <1>2, <2>1, <2>2 DEF IInv, Types
<1>6. \A t \in Tasks : /\ t \notin stopped => status'[t] = status[t] /\ held'[t] = held[t] /\ due'[t] = due[t]
                       /\ t \in stopped => Open(t) /\ status'[t] = "user"
                       /\ due'[t] = "agent" => due[t] = "agent"
  BY <1>2, <1>3
<1>7. \A t \in Tasks :
           /\ Owner(t)' => Owner(t)
           /\ status'[t] = "ended" =>
                Owner(t) \/ (status[t] = "ended" /\ (held[t] = {} => held'[t] = {}))
  BY <1>6 DEF Owner, Open
<1>8. \A t \in Tasks :
           /\ status[t] = "none" => status'[t] = "none" /\ held'[t] = held[t] /\ due'[t] = due[t]
           /\ status'[t] = "none" => status[t] = "none"
  BY <1>6 DEF Open
<1>9. \A t \in Tasks : due'[t] = "agent" =>
                "dispatch" \in todo' /\ "route" \notin todo' /\ status'[t] \notin {"none", "gone"}
  BY <1>1, <1>6 DEF IInv, Named
<1>10. finishes' \subseteq finishes /\ clears' \subseteq clears
  BY <1>2
<1> QED
  BY <1>1, <1>2, <1>5, <1>7, <1>8, <1>9, <1>10, TasksStep

LEMMA TerminateStep ==
  ASSUME IInv, Terminate
  PROVE  IInv'
<1> DEFINE over == {t \in Tasks : status[t] = "ended" /\ ~seen[t]}
<1>1. Frames' /\ todo' \subseteq todo /\ ("dispatch" \in todo => "dispatch" \in todo')
  BY FrameStep DEF Terminate, IInv, Systems
<1>2. UNCHANGED <<next, waiting, status, due, creates, continues, finishes, clears>>
  BY DEF Terminate, inputVars, mailVars
<1>3. PICK kept \in SUBSET Tasks :
        held' = [t \in Tasks |-> IF t \in over \ kept THEN Cancelled(held[t] \ {"shell"})
                                 ELSE IF t \in over THEN Cancelled(held[t]) ELSE held[t]]
  BY DEF Terminate
<1>4. \A t \in over : status[t] = "ended"
  OBVIOUS
<1> HIDE DEF over
<1>5. \A t \in Tasks : held[t] \in SUBSET Work /\ held[t] \ {"shell"} \in SUBSET Work
  BY DEF IInv, Types
<1>6. held' \in [Tasks -> SUBSET Work]
  BY <1>3, <1>5, CancelledIs
<1>7. Types'
  BY <1>2, <1>6 DEF IInv, Types
<1>8. \A t \in Tasks : held[t] = {} => held'[t] = {}
  <2>1. {} \ {"shell"} = {}
    OBVIOUS
  <2> QED
    BY <1>3, <1>5, <2>1, CancelledIs
<1>9. \A t \in Tasks : t \notin over => held'[t] = held[t]
  BY <1>3
<1>10. \A t \in Tasks :
           /\ Owner(t)' => Owner(t)
           /\ status'[t] = "ended" =>
                Owner(t) \/ (status[t] = "ended" /\ (held[t] = {} => held'[t] = {}))
  BY <1>2, <1>8 DEF Owner, Open
<1>11. \A t \in Tasks :
           /\ status[t] = "none" => status'[t] = "none" /\ held'[t] = held[t] /\ due'[t] = due[t]
           /\ status'[t] = "none" => status[t] = "none"
  BY <1>2, <1>4, <1>9
<1>12. \A t \in Tasks : due'[t] = "agent" =>
                "dispatch" \in todo' /\ "route" \notin todo' /\ status'[t] \notin {"none", "gone"}
  BY <1>1, <1>2 DEF IInv, Named
<1>13. finishes' \subseteq finishes /\ clears' \subseteq clears
  BY <1>2
<1> QED
  BY <1>1, <1>2, <1>7, <1>10, <1>11, <1>12, <1>13, TasksStep

LEMMA DispatchStep ==
  ASSUME IInv, Dispatch
  PROVE  IInv'
<1> DEFINE resumed == {t \in answers : status[t] = "approval"}
           sending == {t \in Tasks : due[t] = "agent" \/ (due[t] = "live" /\ status[t] = "working")}
           calling == {t \in Tasks \ resumed : status[t] = "working" /\ "tool" \in held[t]}
<1>1. Frames'
  BY FrameStep DEF Dispatch, IInv, Systems
<1>2. /\ UNCHANGED <<next, waiting, creates, continues, finishes, clears>>
      /\ due' = [t \in Tasks |-> "none"]
  BY DEF Dispatch, inputVars
<1>3. PICK asks \in {"nothing", "approval", "question"} :
        /\ status' = [t \in Tasks |->
             IF t \in resumed \cup sending THEN "working"
             ELSE IF t \in calling /\ asks # "nothing" THEN asks ELSE status[t]]
        /\ held' = [t \in Tasks |->
             IF t \in sending THEN held[t] \cup {"llm"}
             ELSE IF t \in calling /\ asks = "question" THEN held[t] \ {"tool"} ELSE held[t]]
  BY DEF Dispatch
<1>4. \A t \in sending : t \in Tasks /\ Owner(t) /\ status[t] # "none"
  BY DEF Owner, Open, IInv, Named
<1>5. \A t \in resumed \cup calling : Open(t)
  BY DEF Open
<1> HIDE DEF resumed, sending, calling
<1>6. \A t \in Tasks : held[t] \in SUBSET Work /\ status[t] \in Statuses
  BY DEF IInv, Types
<1>7. held' \in [Tasks -> SUBSET Work]
  BY <1>3, <1>6 DEF Work
<1>8. status' \in [Tasks -> Statuses]
  BY <1>3, <1>6 DEF Statuses
<1>9. Types'
  BY <1>2, <1>7, <1>8 DEF IInv, Types
<1>10. \A t \in Tasks :
           \/ status'[t] = status[t] /\ held'[t] = held[t]
           \/ /\ Owner(t) /\ status[t] # "none"
              /\ status'[t] = status[t] \/ status'[t] \in {"working", "approval", "question"}
  BY <1>3, <1>4, <1>5 DEF Owner, Open
<1>11. \A t \in Tasks :
           /\ Owner(t)' => Owner(t)
           /\ status'[t] = "ended" =>
                Owner(t) \/ (status[t] = "ended" /\ (held[t] = {} => held'[t] = {}))
  BY <1>2, <1>10 DEF Owner, Open
<1>12. \A t \in Tasks : status[t] = "none" => due[t] = "none"
  BY DEF IInv, Fresh
<1>13. \A t \in Tasks :
           /\ status[t] = "none" => status'[t] = "none" /\ held'[t] = held[t] /\ due'[t] = due[t]
           /\ status'[t] = "none" => status[t] = "none"
  BY <1>2, <1>10, <1>12
<1>14. \A t \in Tasks : due'[t] = "agent" =>
                "dispatch" \in todo' /\ "route" \notin todo' /\ status'[t] \notin {"none", "gone"}
  BY <1>2
<1>15. finishes' \subseteq finishes /\ clears' \subseteq clears
  BY <1>2
<1> QED
  BY <1>1, <1>2, <1>9, <1>11, <1>13, <1>14, <1>15, TasksStep

-----------------------------------------------------------------------------
(* The theorem.                                                            *)

LEMMA NextStep ==
  ASSUME ConversationAssumption, IInv, [Next]_vars
  PROVE  IInv'
<1>1. CASE UNCHANGED vars
  BY <1>1, SMT DEF vars, inputVars, taskVars, mailVars, IInv, Types, Frames, Fresh, Named, Quiet,
    Slot, Owner, Open
<1>2. CASE Arrive
  BY <1>2, ArriveStep
<1>3. CASE Tick
  BY <1>3, TickStep
<1>4. CASE Frame
  BY <1>4, KeepingSteps, CardStep, CommandStep, FinishStep, ClearStep, RouteStep, CreateStep,
    ContinueStep, LlmStep, StopStep, TerminateStep, DispatchStep DEF Frame
<1>5. CASE \E t \in Tasks : ToolReturns(t) \/ Released(t) \/ ShellExits(t) \/ IdleEnds(t)
  BY <1>5, ReturnStep, GoneStep, IdleStep
<1> QED
  BY <1>1, <1>2, <1>3, <1>4, <1>5 DEF Next

\* The channel has one user task at a time: while a task is open every other
\* one has ended and nothing of its tree runs.
THEOREM Exclusive == Spec => []SlotExclusive
<1>1. Init => IInv
  BY InitIInv, ConversationAssumption
<1>2. IInv /\ [Next]_vars => IInv'
  BY NextStep, ConversationAssumption
<1>3. IInv => SlotExclusive
  BY DEF IInv, Slot, SlotExclusive, Owner
<1> QED
  BY <1>1, <1>2, <1>3, PTL DEF Spec

-----------------------------------------------------------------------------
(* A finite set of numbers in order: every member has a rank of its own.   *)

Below(S, n) == {m \in S : m < n}
Rank(S) == [n \in S |-> Cardinality(Below(S, n))]

\* The ranks of a finite set of numbers are those below its cardinality, in its order.
LEMMA RankIs ==
  ASSUME NEW S, S \subseteq Nat, IsFiniteSet(S)
  PROVE  /\ Rank(S) \in [S -> 0..(Cardinality(S) - 1)]
         /\ \A n, m \in S : n < m => Rank(S)[n] < Rank(S)[m]
         /\ \A k \in 0..(Cardinality(S) - 1) : \E n \in S : Rank(S)[n] = k
<1> DEFINE c == Cardinality(S)
           r == Rank(S)
<1>1. c \in Nat
  BY FS_CardinalityType
<1>2. \A n \in S : /\ Below(S, n) \in SUBSET S /\ IsFiniteSet(Below(S, n))
                   /\ Cardinality(Below(S, n)) \in Nat /\ r[n] = Cardinality(Below(S, n))
  <2> TAKE n \in S
  <2>1. Below(S, n) \in SUBSET S
    BY DEF Below
  <2>2. IsFiniteSet(Below(S, n))
    BY <2>1, FS_Subset
  <2> QED
    BY <2>1, <2>2, FS_CardinalityType DEF Rank
<1>3. ASSUME NEW n \in S, NEW T, IsFiniteSet(T), n \in T, Below(S, n) \subseteq T \ {n}
      PROVE  r[n] < Cardinality(T) /\ Cardinality(T) \in Nat
  <2>1. IsFiniteSet(T \ {n}) /\ Cardinality(T \ {n}) = Cardinality(T) - 1
    BY <1>3, FS_RemoveElement
  <2>2. Cardinality(Below(S, n)) <= Cardinality(T \ {n})
    BY <1>3, <2>1, FS_Subset
  <2>3. Cardinality(T) \in Nat
    BY <1>3, FS_CardinalityType
  <2> QED
    BY <1>2, <2>1, <2>2, <2>3, SMT
<1>4. \A n \in S : r[n] < c
  <2> TAKE n \in S
  <2>1. Below(S, n) \subseteq S \ {n}
    BY SMT DEF Below
  <2> QED
    BY <1>3, <2>1
<1>5. r \in [S -> 0..(c - 1)]
  <2>1. \A n \in S : r[n] \in 0..(c - 1)
    BY <1>1, <1>2, <1>4, SMT
  <2>2. r = [n \in S |-> r[n]]
    BY DEF Rank
  <2> HIDE DEF r
  <2> QED
    BY <2>1, <2>2
<1>6. \A n, m \in S : n < m => r[n] < r[m]
  <2> TAKE n, m \in S
  <2>1. SUFFICES ASSUME n < m PROVE r[n] < r[m]
    OBVIOUS
  <2>2. n \in Below(S, m)
    BY <2>1 DEF Below
  <2>3. \A x \in Below(S, n) : x \in Below(S, m) /\ x # n
    BY <2>1, SMT DEF Below
  <2>4. Below(S, n) \subseteq Below(S, m) \ {n}
    BY <2>3, Zenon
  <2> QED
    BY <1>2, <1>3, <2>2, <2>4
<1>7. \A n, m \in S : r[n] = r[m] => n = m
  <2> TAKE n, m \in S
  <2>1. n \in Nat /\ m \in Nat
    OBVIOUS
  <2>2. r[n] \in Nat /\ r[m] \in Nat
    BY <1>2
  <2>3. (n < m => r[n] < r[m]) /\ (m < n => r[m] < r[n])
    BY <1>6
  <2> HIDE DEF r
  <2> QED
    BY <2>1, <2>2, <2>3, SMT
<1> HIDE DEF r
<1>8. r \in Injection(S, 0..(c - 1))
  BY <1>5, <1>7 DEF Injection, IsInjective
<1>9. IsFiniteSet(0..(c - 1)) /\ Cardinality(0..(c - 1)) = c
  <2>1. 0 \in Int /\ c - 1 \in Int
    BY <1>1, SMT
  <2>2. IsFiniteSet(0..(c - 1)) /\ Cardinality(0..(c - 1)) = IF 0 > c - 1 THEN 0 ELSE (c - 1) - 0 + 1
    BY <2>1, FS_Interval
  <2> QED
    BY <1>1, <2>2, SMT
<1>10. r \in Surjection(S, 0..(c - 1))
  BY <1>8, <1>9, FS_Injection
<1>11. \A k \in 0..(c - 1) : \E n \in S : r[n] = k
  BY <1>10 DEF Surjection
<1> QED
  BY <1>5, <1>6, <1>11 DEF r

Increasing(s) == \A p, q \in DOMAIN s : p < q => s[p] < s[q]

\* The inputs of a set in order: all of them, the smallest first.
LEMMA InOrderOfIs ==
  ASSUME NEW S, S \subseteq Inputs, N \in Nat
  PROVE  /\ InOrderOf(S) \in Seq(S) /\ Range(InOrderOf(S)) = S
         /\ Increasing(InOrderOf(S))
<1> DEFINE c == Cardinality(S)
           r == Rank(S)
           s == InOrderOf(S)
<1>1. S \subseteq Nat /\ IsFiniteSet(S)
  <2>1. IsFiniteSet(Inputs)
    BY FS_Interval, SMT DEF Inputs
  <2>2. IsFiniteSet(S)
    BY <2>1, FS_Subset
  <2> QED
    BY <2>2, SMT DEF Inputs
<1>2. c \in Nat
  BY <1>1, FS_CardinalityType
<1>3. /\ r \in [S -> 0..(c - 1)]
      /\ \A n, m \in S : n < m => r[n] < r[m]
      /\ \A k \in 0..(c - 1) : \E n \in S : r[n] = k
  BY <1>1, RankIs
<1>4. s = [k \in 1..c |-> CHOOSE n \in S : Cardinality({m \in S : m < n}) = k - 1]
  BY DEF InOrderOf
<1>10. \A n \in S : Cardinality({m \in S : m < n}) = r[n]
  BY DEF Rank, Below
<1> HIDE DEF r, s
<1>5. \A k \in 1..c : s[k] \in S /\ r[s[k]] = k - 1
  <2> TAKE k \in 1..c
  <2>1. k - 1 \in 0..(c - 1)
    BY <1>2, SMT
  <2>2. \E n \in S : Cardinality({m \in S : m < n}) = k - 1
    BY <1>3, <1>10, <2>1
  <2>3. s[k] = CHOOSE n \in S : Cardinality({m \in S : m < n}) = k - 1
    BY <1>4
  <2>4. s[k] \in S /\ Cardinality({m \in S : m < s[k]}) = k - 1
    BY <2>2, <2>3, Zenon
  <2> QED
    BY <1>10, <2>4
<1>6. s \in [1..c -> S] /\ DOMAIN s = 1..c
  BY <1>4, <1>5
<1>7. s \in Seq(S)
  BY <1>2, <1>6, SMT
<1>8. Increasing(s)
  <2>1. SUFFICES ASSUME NEW p \in 1..c, NEW q \in 1..c, p < q PROVE s[p] < s[q]
    BY <1>6 DEF Increasing
  <2>2. s[p] \in S /\ s[q] \in S /\ r[s[p]] = p - 1 /\ r[s[q]] = q - 1
    BY <1>5
  <2>3. s[p] \in Nat /\ s[q] \in Nat
    BY <1>1, <2>2
  <2>4. s[q] < s[p] => r[s[q]] < r[s[p]]
    BY <1>3, <2>2
  <2> QED
    BY <2>1, <2>2, <2>3, <2>4, <1>2, SMT
<1>9. Range(s) = S
  <2>1. \A n \in S : \E k \in 1..c : s[k] = n
    <3> TAKE n \in S
    <3>1. r[n] \in 0..(c - 1)
      BY <1>3
    <3>2. r[n] + 1 \in 1..c /\ (r[n] + 1) - 1 = r[n]
      BY <1>2, <3>1, SMT
    <3> DEFINE m == s[r[n] + 1]
    <3>3. m \in S /\ r[m] = r[n]
      BY <1>5, <3>2
    <3> HIDE DEF m
    <3>4. m \in Nat /\ n \in Nat /\ r[n] \in Nat
      BY <1>1, <3>1, <3>3, SMT
    <3>5. (n < m => r[n] < r[m]) /\ (m < n => r[m] < r[n])
      BY <1>3, <3>3
    <3>6. m = n
      BY <3>3, <3>4, <3>5, SMT
    <3> QED
      BY <3>2, <3>6 DEF m
  <2> QED
    BY <1>5, <1>6, <2>1 DEF Range
<1> QED
  BY <1>7, <1>8, <1>9 DEF s

-----------------------------------------------------------------------------
(* Sequences of texts in order.                                            *)

\* A stop was sent between m and n.
Stopped(H, m, n) == \E s \in m..n : s \in H

\* In order, but for texts with a stop in between.
Ordered(H, s) == \A p, q \in DOMAIN s : p < q /\ s[p] > s[q] => Stopped(H, s[q], s[p])
Follows(H, A, B) == \A m \in A, n \in B : m > n => Stopped(H, n, m)

\* What a concatenation holds.
LEMMA Concat ==
  ASSUME NEW S, NEW s \in Seq(S), NEW t \in Seq(S)
  PROVE  /\ s \o t \in Seq(S)
         /\ Range(s \o t) = Range(s) \cup Range(t)
         /\ Range(s) \subseteq S
<1>1. s \o t \in Seq(S) /\ Len(s \o t) = Len(s) + Len(t)
  OBVIOUS
<1>2. /\ DOMAIN s = 1..Len(s) /\ DOMAIN t = 1..Len(t) /\ DOMAIN (s \o t) = 1..(Len(s) + Len(t))
      /\ Len(s) \in Nat /\ Len(t) \in Nat
  OBVIOUS
<1>3. \A k \in DOMAIN (s \o t) :
        (s \o t)[k] = IF k \in DOMAIN s THEN s[k] ELSE t[k - Len(s)]
  OBVIOUS
<1>4. \A k \in DOMAIN (s \o t) : k \in DOMAIN s \/ k - Len(s) \in DOMAIN t
  BY <1>2, SMT
<1>5. \A k \in DOMAIN (s \o t) : (s \o t)[k] \in Range(s) \cup Range(t)
  BY <1>3, <1>4 DEF Range
<1>6. \A k \in DOMAIN s : k \in DOMAIN (s \o t) /\ (s \o t)[k] = s[k]
  BY <1>2, <1>3, SMT
<1>7. \A k \in DOMAIN t : /\ k + Len(s) \in DOMAIN (s \o t) /\ (k + Len(s)) - Len(s) = k
                          /\ k + Len(s) \notin DOMAIN s
  BY <1>2, SMT
<1>8. \A k \in DOMAIN t : (s \o t)[k + Len(s)] = t[k]
  BY <1>3, <1>7
<1>9. Range(s) \subseteq Range(s \o t) /\ Range(t) \subseteq Range(s \o t)
  BY <1>6, <1>7, <1>8 DEF Range
<1>10. Range(s \o t) \subseteq Range(s) \cup Range(t)
  BY <1>5 DEF Range
<1>11. Range(s) \subseteq S
  BY DEF Range
<1> QED
  BY <1>1, <1>9, <1>10, <1>11

\* Two sequences in order make one when the second follows the first.
LEMMA OrderedConcat ==
  ASSUME NEW H, NEW s \in Seq(Nat), NEW t \in Seq(Nat),
         Ordered(H, s), Ordered(H, t), Follows(H, Range(s), Range(t))
  PROVE  Ordered(H, s \o t)
<1> DEFINE l == Len(s)
           u == s \o t
<1>1. SUFFICES ASSUME NEW p \in DOMAIN u, NEW q \in DOMAIN u, p < q, u[p] > u[q]
               PROVE  Stopped(H, u[q], u[p])
  BY DEF Ordered
<1>2. /\ p \in Nat /\ q \in Nat /\ l \in Nat
      /\ u[p] = IF p \in DOMAIN s THEN s[p] ELSE t[p - l]
      /\ u[q] = IF q \in DOMAIN s THEN s[q] ELSE t[q - l]
      /\ p \in DOMAIN s \/ p - l \in DOMAIN t
      /\ q \in DOMAIN s \/ q - l \in DOMAIN t
      /\ q \in DOMAIN s => p \in DOMAIN s
      /\ p - l < q - l
  BY <1>1, SMT
<1> HIDE DEF u, l
<1>3. CASE q \in DOMAIN s
  BY <1>1, <1>2, <1>3 DEF Ordered
<1>4. CASE p \notin DOMAIN s
  BY <1>1, <1>2, <1>4 DEF Ordered
<1>5. CASE p \in DOMAIN s /\ q \notin DOMAIN s
  <2>1. u[p] \in Range(s) /\ u[q] \in Range(t)
    BY <1>2, <1>5 DEF Range
  <2> QED
    BY <1>1, <2>1 DEF Follows
<1> QED
  BY <1>3, <1>4, <1>5

\* A sequence that increases is in order.
LEMMA IncreasingIsOrdered ==
  ASSUME NEW H, NEW s \in Seq(Nat), Increasing(s)
  PROVE  Ordered(H, s)
<1>1. SUFFICES ASSUME NEW p \in DOMAIN s, NEW q \in DOMAIN s, p < q, s[p] > s[q] PROVE FALSE
  BY DEF Ordered
<1>2. s[p] < s[q] /\ s[p] \in Nat /\ s[q] \in Nat
  BY <1>1 DEF Increasing
<1> QED
  BY <1>1, <1>2, SMT

-----------------------------------------------------------------------------
(* Every variable has its type.                                            *)

Typed == IInv /\ TypeOK

LEMMA TypeInit ==
  ASSUME ConversationAssumption, Init
  PROVE  TypeOK
<1>1. <<>> \in Seq(Inputs)
  OBVIOUS
<1>2. next \in 1..(N + 1)
  BY SMT DEF Init, ConversationAssumption
<1> QED
  BY <1>1, <1>2 DEF Init, TypeOK, Tasks, Statuses, Work

\* Steps that leave the messages and what a task has read as they are.
LEMMA TypeOutside ==
  ASSUME ConversationAssumption, Typed, Types',
         Arrive \/ Tick \/ \E t \in Tasks : ToolReturns(t) \/ Released(t) \/ ShellExits(t) \/ IdleEnds(t)
  PROVE  TypeOK'
<1>1. CASE Arrive
  <2>1. next' \in 1..(N + 1)
    BY <1>1, SMT DEF ConversationAssumption, Arrive, Typed, TypeOK
  <2> QED
    BY <1>1, <2>1 DEF Arrive, Typed, TypeOK, Types, taskVars, mailVars, histVars
<1>2. CASE Tick
  BY <1>2 DEF Tick, Typed, TypeOK, inputVars, taskVars, mailVars, histVars
<1>3. CASE \E t \in Tasks : ToolReturns(t) \/ Released(t) \/ ShellExits(t)
  BY <1>3 DEF ToolReturns, Released, ShellExits, Owes, Typed, TypeOK, Types, inputVars, mailVars,
    histVars
<1>4. CASE \E t \in Tasks : IdleEnds(t)
  BY <1>4 DEF IdleEnds, Typed, TypeOK, inputVars, taskVars, histVars
<1> QED
  BY <1>1, <1>2, <1>3, <1>4

\* What a command records as ended.
LEMMA EndedByIs ==
  ASSUME ended \in [Inputs -> {0} \cup Tasks], NEW n \in Inputs, NEW S, S \subseteq Tasks, EndedBy(n, S)
  PROVE  /\ ended' \in [Inputs -> {0} \cup Tasks]
         /\ \A m \in Inputs : m # n => ended'[m] = ended[m]
         /\ ended'[n] \in S \cup {0}
<1>0. S \subseteq Nat
  BY SMT DEF Tasks, Inputs
<1>1. S # {} => First(S) \in S
  BY <1>0, FirstIs
<1>2. (IF S = {} THEN 0 ELSE First(S)) \in S \cup {0}
  BY <1>1
<1> QED
  BY <1>2 DEF EndedBy

\* What a command and a text may do: the first input of its kind is taken.
LEMMA FirstFree ==
  ASSUME Types, NEW S, S \subseteq Free, S # {}
  PROVE  /\ First(S) \in S /\ First(S) \in waiting /\ First(S) \in Inputs
         /\ \A m \in S : First(S) <= m
<1>1. S \subseteq waiting
  BY DEF Free
<1>2. S \subseteq Inputs
  BY <1>1 DEF Types
<1>3. S \subseteq Nat
  BY <1>2, SMT DEF Inputs
<1>4. First(S) \in S /\ \A m \in S : First(S) <= m
  BY <1>3, FirstIs
<1> QED
  BY <1>1, <1>2, <1>4

\* The task a command is for is an open one.
LEMMA SoleIs ==
  /\ Sole \subseteq OpenRoots /\ Sole \subseteq Tasks
  BY DEF Sole, OpenRoots

\* The systems that take an input.
LEMMA TypeInputs ==
  ASSUME Typed, Types', Order \/ Card \/ Command \/ Route \/ RouteEnds
  PROVE  TypeOK'
<1>1. CASE Order
  BY <1>1 DEF Order, Done, Marked, Typed, TypeOK, taskVars, mailVars, histVars
<1>2. CASE Card
  <2>1. /\ UNCHANGED <<script, held, seen, inbox, told, creates, continues, deliveries, answers, clears>>
        /\ todo' \subseteq todo
    BY <1>2 DEF Card, Done
  <2>2. CASE UNCHANGED <<inputVars, status, due, finishes, stops, histVars>>
    BY <2>1, <2>2 DEF Typed, TypeOK, inputVars, histVars
  <2>3. CASE ~ UNCHANGED <<inputVars, status, due, finishes, stops, histVars>>
    <3>1. PICK n \in Free, t \in {m \in Tasks : status[m] # "none"} \cup {0}, ok \in BOOLEAN :
            /\ ok => t \in Tasks
            /\ Consumed(n)
            /\ finishes' \in {finishes, finishes \cup {t}} /\ (~ok => finishes' = finishes)
            /\ stops' \in {stops, stops \cup {t}} /\ (~ok => stops' = stops)
            /\ EndedBy(n, IF ok /\ script.kind[n] = "cardFinish" THEN {t} ELSE {})
            /\ UNCHANGED <<lost, revived>>
      BY <1>2, <2>3 DEF Card
    <3>2. n \in Inputs
      BY DEF Free, Typed, TypeOK
    <3>3. (IF ok /\ script.kind[n] = "cardFinish" THEN {t} ELSE {}) \subseteq Tasks
      BY <3>1
    <3>4. ended' \in [Inputs -> {0} \cup Tasks]
      BY <3>1, <3>2, <3>3, EndedByIs DEF Typed, TypeOK
    <3>5. finishes' \subseteq Tasks /\ stops' \subseteq Tasks
      BY <3>1 DEF Typed, TypeOK
    <3> QED
      BY <2>1, <3>1, <3>4, <3>5 DEF Typed, TypeOK, Types, Consumed
  <2> QED
    BY <2>2, <2>3
<1>3. CASE Command
  <2> DEFINE X == {n \in Free : ~IsText(n) /\ ~IsCard(n)}
  <2>1. UNCHANGED <<script, taskVars, continues, deliveries, answers>> /\ todo' \subseteq todo
    BY <1>3 DEF Command, Done
  <2>2. CASE X = {}
    BY <1>3, <2>1, <2>2 DEF Command, Typed, TypeOK, inputVars, taskVars, histVars
  <2>3. CASE X # {}
    <3> DEFINE n == First(X)
               To(k, S) == IF script.kind[n] = k THEN S ELSE {}
    <3>1. n \in Inputs
      BY <2>3, FirstFree DEF Typed, IInv
    <3>2. /\ Consumed(n)
          /\ finishes' = finishes \cup To("finish", Sole)
          /\ stops' = stops \cup To("stop", Sole)
          /\ clears' = clears \cup To("clear", Sole)
          /\ EndedBy(n, To("finish", Sole) \cup To("clear", Sole)) /\ UNCHANGED <<lost, revived>>
      BY <1>3, <2>3 DEF Command
    <3> HIDE DEF n, X
    <3>3. To("finish", Sole) \cup To("clear", Sole) \subseteq Tasks /\ To("stop", Sole) \subseteq Tasks
      BY SoleIs
    <3> HIDE DEF To
    <3>4. ended' \in [Inputs -> {0} \cup Tasks]
      BY <3>1, <3>2, <3>3, EndedByIs DEF Typed, TypeOK
    <3> QED
      BY <2>1, <3>2, <3>3, <3>4 DEF Typed, TypeOK, Types, Consumed, taskVars
  <2> QED
    BY <2>2, <2>3
<1>4. CASE Route
  <2> DEFINE n == First(FreeTexts)
             only(S) == {t \in Sole : status[t] \in S}
             asked == IF script.client THEN {} ELSE only({"approval"})
  <2>1. n \in Inputs
    <3>1. FreeTexts \subseteq Free /\ FreeTexts # {}
      BY <1>4 DEF Route, FreeTexts
    <3> QED
      BY <3>1, FirstFree DEF Typed, IInv
  <2>2. /\ Consumed(n)
        /\ continues' = continues \cup {[task |-> t, items |-> <<n>>] : t \in only({"user"})}
        /\ deliveries' = deliveries \cup {[task |-> t, item |-> n] : t \in only({"working"})}
        /\ answers' \in {answers, answers \cup asked}
        /\ UNCHANGED <<script, held, seen, inbox, told, finishes, stops, clears, todo, histVars>>
    BY <1>4 DEF Route
  <2> HIDE DEF n
  <2>3. only({"user"}) \subseteq Tasks /\ only({"working"}) \subseteq Tasks /\ asked \subseteq Tasks
    BY SoleIs
  <2> HIDE DEF only, asked
  <2>4. <<n>> \in Seq(Inputs)
    BY <2>1
  <2>5. continues' \subseteq [task : Tasks, items : Seq(Inputs)]
    <3>1. \A t \in only({"user"}) : [task |-> t, items |-> <<n>>] \in [task : Tasks, items : Seq(Inputs)]
      BY <2>3, <2>4
    <3>2. continues \subseteq [task : Tasks, items : Seq(Inputs)]
      BY DEF Typed, TypeOK
    <3> QED
      BY <2>2, <3>1, <3>2, Zenon
  <2>6. deliveries' \subseteq [task : Tasks, item : Inputs]
    BY <2>1, <2>2, <2>3 DEF Typed, TypeOK
  <2>7. answers' \subseteq Tasks
    BY <2>2, <2>3 DEF Typed, TypeOK
  <2> QED
    BY <2>2, <2>5, <2>6, <2>7 DEF Typed, TypeOK, Types, Consumed, histVars
<1>5. CASE RouteEnds
  BY <1>5 DEF RouteEnds, Done, Typed, TypeOK, inputVars, taskVars, mailVars, histVars
<1> QED
  BY <1>1, <1>2, <1>3, <1>4, <1>5

\* The systems that end, stop or clear a task, and the turn.
LEMMA TypeTasks ==
  ASSUME ConversationAssumption, Typed, Types', Finish \/ Clear \/ Llm \/ Stop \/ Terminate \/ Dispatch
  PROVE  TypeOK'
<1>1. CASE Finish
  BY <1>1 DEF Finish, Done, Typed, TypeOK, Types, inputVars, histVars
<1>2. CASE Clear
  <2>1. clears' \subseteq clears
    BY <1>2 DEF Clear
  <2> QED
    BY <1>2, <2>1 DEF Clear, Done, Typed, TypeOK, Types, inputVars, histVars
<1>3. CASE Llm
  BY <1>3 DEF Llm, Done, Typed, TypeOK, Types, inputVars, mailVars, histVars
<1>4. CASE Stop
  BY <1>4 DEF Stop, Done, Typed, TypeOK, Types, inputVars, histVars
<1>5. CASE Terminate
  <2>1. seen' \in [Tasks -> BOOLEAN]
    BY <1>5 DEF Terminate
  <2> QED
    BY <1>5, <2>1 DEF Terminate, Done, Typed, TypeOK, Types, inputVars, mailVars, histVars
<1>6. CASE Dispatch
  <2> DEFINE sending == {t \in Tasks : due[t] = "agent" \/ (due[t] = "live" /\ status[t] = "working")}
  <2>1. /\ told' = [t \in Tasks |-> IF t \in sending THEN told[t] \o inbox[t] ELSE told[t]]
        /\ inbox' = [t \in Tasks |-> IF t \in sending THEN <<>> ELSE inbox[t]]
        /\ revived' = revived \cup {t \in sending : status[t] = "ended"}
        /\ answers' = {} /\ todo' \subseteq todo
        /\ UNCHANGED <<script, inputVars, seen, creates, continues, deliveries, finishes, stops, clears,
                       ended, lost>>
    BY <1>6 DEF Dispatch, Done
  <2>2. sending \subseteq Tasks
    OBVIOUS
  <2> HIDE DEF sending
  <2>3. \A t \in Tasks : /\ told[t] \in Seq(Inputs) /\ inbox[t] \in Seq(Inputs)
                         /\ told[t] \o inbox[t] \in Seq(Inputs)
    BY Concat DEF Typed, TypeOK
  <2>4. told' \in [Tasks -> Seq(Inputs)]
    BY <2>1, <2>3, Zenon
  <2>5. <<>> \in Seq(Inputs)
    OBVIOUS
  <2>6. inbox' \in [Tasks -> Seq(Inputs)]
    BY <2>1, <2>3, <2>5, Zenon
  <2>7. revived' \subseteq Tasks
    BY <2>1, <2>2 DEF Typed, TypeOK
  <2> QED
    BY <2>1, <2>4, <2>6, <2>7 DEF Typed, TypeOK, Types, inputVars
<1> QED
  BY <1>1, <1>2, <1>3, <1>4, <1>5, <1>6

\* The task that is founded is one of the messages.
LEMMA FoundedIs ==
  ASSUME Types, creates # {}
  PROVE  /\ Foremost(creates) \in creates /\ Foremost(creates) \in Tasks
         /\ Founded = {Foremost(creates)} /\ First(Founded) = Foremost(creates)
<1>1. creates \subseteq Nat
  BY SMT DEF Types, Inputs
<1>2. Foremost(creates) \in creates
  BY <1>1, ForemostIs
<1>3. First({Foremost(creates)}) \in {Foremost(creates)}
  BY <1>1, <1>2, FirstIs
<1> QED
  BY <1>2, <1>3 DEF Founded, Types, Tasks

\* The systems that move texts.
LEMMA TypeMails ==
  ASSUME ConversationAssumption, Typed, Types', Create \/ Ingest \/ Wake \/ Continue \/ ContinueEnds
  PROVE  TypeOK'
<1>1. CASE Create
  <2>1. UNCHANGED <<script, next, blocked, held, seen, inbox, continues, answers, finishes, stops,
                    clears, histVars>> /\ todo' \subseteq todo
    BY <1>1 DEF Create, Done
  <2>2. CASE UNCHANGED <<told, deliveries>>
    BY <2>1, <2>2 DEF Typed, TypeOK, Types, histVars
  <2>3. CASE ~ UNCHANGED <<told, deliveries>>
    <3> DEFINE f == First(Founded)
    <3>1. /\ creates # {}
          /\ told' = [t \in Tasks |-> IF t \in Founded THEN <<t>> ELSE told[t]]
          /\ deliveries' = deliveries \cup {[task |-> f, item |-> n] : n \in creates \ Founded}
      BY <1>1, <2>3 DEF Create
    <3>2. f \in Tasks
      BY <3>1, FoundedIs DEF Typed, IInv
    <3> HIDE DEF f
    <3>3. deliveries' \subseteq [task : Tasks, item : Inputs]
      BY <3>1, <3>2 DEF Typed, TypeOK
    <3>4. \A t \in Tasks : <<t>> \in Seq(Inputs) /\ told[t] \in Seq(Inputs)
      BY DEF Typed, TypeOK, Tasks
    <3>5. told' \in [Tasks -> Seq(Inputs)]
      BY <3>1, <3>4, Zenon
    <3> QED
      BY <2>1, <3>3, <3>5 DEF Typed, TypeOK, Types, histVars
  <2> QED
    BY <2>2, <2>3
<1>2. CASE Ingest
  <2> DEFINE to(t) == {d.item : d \in {e \in deliveries : e.task = t}}
  <2>1. /\ inbox' = [t \in Tasks |-> IF Open(t) THEN inbox[t] \o InOrderOf(to(t)) ELSE inbox[t]]
        /\ deliveries' = {} /\ todo' \subseteq todo
        /\ UNCHANGED <<script, inputVars, status, held, due, seen, told, creates, continues, answers,
                       finishes, stops, clears, histVars>>
    BY <1>2 DEF Ingest, Done
  <2>2. \A t \in Tasks : to(t) \subseteq Inputs
    BY DEF Typed, TypeOK
  <2> HIDE DEF to
  <2>3. \A t \in Tasks : inbox[t] \o InOrderOf(to(t)) \in Seq(Inputs) /\ inbox[t] \in Seq(Inputs)
    <3> TAKE t \in Tasks
    <3>1. InOrderOf(to(t)) \in Seq(to(t))
      BY <2>2, InOrderOfIs DEF ConversationAssumption
    <3>2. InOrderOf(to(t)) \in Seq(Inputs)
      BY <2>2, <3>1
    <3>3. inbox[t] \in Seq(Inputs)
      BY DEF Typed, TypeOK
    <3> QED
      BY <3>2, <3>3, Concat
  <2>4. inbox' \in [Tasks -> Seq(Inputs)]
    BY <2>1, <2>3, Zenon
  <2> QED
    BY <2>1, <2>4 DEF Typed, TypeOK, Types, inputVars, histVars
<1>3. CASE Wake
  <2> DEFINE idle == {t \in Tasks : status[t] = "user" /\ inbox[t] # <<>>}
  <2>1. /\ continues' = continues \cup {[task |-> t, items |-> inbox[t]] : t \in idle}
        /\ inbox' = [t \in Tasks |-> IF t \in idle THEN <<>> ELSE inbox[t]]
        /\ todo' \subseteq todo
        /\ UNCHANGED <<script, inputVars, status, held, due, seen, told, creates, deliveries, answers,
                       finishes, stops, clears, histVars>>
    BY <1>3 DEF Wake, Done
  <2>2. idle \subseteq Tasks
    OBVIOUS
  <2> HIDE DEF idle
  <2>3. \A t \in Tasks : inbox[t] \in Seq(Inputs) /\ <<>> \in Seq(Inputs)
    BY DEF Typed, TypeOK
  <2>4. inbox' \in [Tasks -> Seq(Inputs)]
    BY <2>1, <2>3, Zenon
  <2>5. continues' \subseteq [task : Tasks, items : Seq(Inputs)]
    BY <2>1, <2>2, <2>3 DEF Typed, TypeOK
  <2> QED
    BY <2>1, <2>4, <2>5 DEF Typed, TypeOK, Types, inputVars, histVars
<1>4. CASE Continue
  <2>1. PICK c \in continues :
          /\ continues' = continues \ {c}
          /\ \/ told' = [told EXCEPT ![c.task] = @ \o c.items] /\ UNCHANGED lost
             \/ lost' = lost \cup Range(c.items) /\ UNCHANGED told
    BY <1>4 DEF Continue
  <2>2. UNCHANGED <<script, inputVars, held, seen, inbox, creates, deliveries, answers, finishes, stops,
                    clears, todo, ended, revived>>
    BY <1>4 DEF Continue
  <2>3. c.task \in Tasks /\ c.items \in Seq(Inputs) /\ told[c.task] \in Seq(Inputs)
    BY DEF Typed, TypeOK
  <2>4. told[c.task] \o c.items \in Seq(Inputs) /\ Range(c.items) \subseteq Inputs
    BY <2>3, Concat
  <2>5. told \in [Tasks -> Seq(Inputs)] /\ lost \subseteq Inputs
    BY DEF Typed, TypeOK
  <2>6. [told EXCEPT ![c.task] = @ \o c.items] \in [Tasks -> Seq(Inputs)]
    <3> DEFINE s == told[c.task] \o c.items
    <3>1. s \in Seq(Inputs)
      BY <2>4
    <3> HIDE DEF s
    <3>2. [told EXCEPT ![c.task] = s] \in [Tasks -> Seq(Inputs)]
      BY <2>3, <2>5, <3>1
    <3> QED
      BY <3>2 DEF s
  <2>7. told' \in [Tasks -> Seq(Inputs)] /\ lost' \subseteq Inputs
    BY <2>1, <2>4, <2>5, <2>6
  <2> QED
    BY <2>1, <2>2, <2>7 DEF Typed, TypeOK, Types, inputVars
<1>5. CASE ContinueEnds
  BY <1>5 DEF ContinueEnds, Done, Typed, TypeOK, inputVars, taskVars, mailVars, histVars
<1> QED
  BY <1>1, <1>2, <1>3, <1>4, <1>5

\* Every step keeps the types.
LEMMA TypedStep ==
  ASSUME ConversationAssumption, Typed, [Next]_vars
  PROVE  Typed'
<1>1. IInv'
  BY NextStep DEF Typed
<1>2. Types'
  BY <1>1 DEF IInv
<1>3. TypeOK'
  <2>1. CASE UNCHANGED vars
    BY <2>1 DEF vars, inputVars, taskVars, mailVars, histVars, Typed, TypeOK
  <2>2. CASE Arrive \/ Tick \/ \E t \in Tasks : ToolReturns(t) \/ Released(t) \/ ShellExits(t) \/ IdleEnds(t)
    BY <1>2, <2>2, TypeOutside
  <2>3. CASE Frame
    BY <1>2, <2>3, TypeInputs, TypeTasks, TypeMails DEF Frame
  <2> QED
    BY <2>1, <2>2, <2>3 DEF Next
<1> QED
  BY <1>1, <1>3 DEF Typed

\* Every variable has its type.
THEOREM ConversationTypeCorrect == Spec => []TypeOK
<1>1. Init => Typed
  BY InitIInv, TypeInit, ConversationAssumption DEF Typed
<1>2. Typed /\ [Next]_vars => Typed'
  BY TypedStep, ConversationAssumption
<1>3. Typed => TypeOK
  BY DEF Typed
<1> QED
  BY <1>1, <1>2, <1>3, PTL DEF Spec

-----------------------------------------------------------------------------
(* What a step does with an input.                                         *)

Halts == {n \in Inputs : script.kind[n] \in {"stop", "cardStop"}}

\* A card is taken, for a task that is open or for none.
LEMMA CardIs ==
  ASSUME Typed, Card
  PROVE  /\ Done("card")
         /\ UNCHANGED <<script, held, seen, inbox, told, creates, continues, deliveries, answers, clears>>
         /\ \/ /\ \A n \in Free : ~IsCard(n)
               /\ UNCHANGED <<inputVars, status, due, finishes, stops, histVars>>
            \/ \E n \in Free, t \in Tasks \cup {0}, ok \in BOOLEAN :
                 /\ IsCard(n) /\ n \in Inputs /\ n \in waiting /\ Consumed(n)
                 /\ ok => t \in Tasks /\ Open(t)
                 /\ finishes' = finishes \/ (ok /\ finishes' = finishes \cup {t})
                 /\ stops' = stops \/ (ok /\ n \in Halts /\ stops' = stops \cup {t})
                 /\ \A u \in Tasks : status'[u] = status[u] \/ (status[u] = "question" /\ status'[u] = "working")
                 /\ ended' \in [Inputs -> {0} \cup Tasks]
                 /\ \A m \in Inputs : m # n => ended'[m] = ended[m]
                 /\ ended'[n] = 0 \/ (ok /\ ended'[n] = t /\ t \in finishes')
                 /\ UNCHANGED <<lost, revived>>
<1>1. /\ Done("card")
      /\ UNCHANGED <<script, held, seen, inbox, told, creates, continues, deliveries, answers, clears>>
  BY DEF Card
<1>2. CASE \A n \in Free : ~IsCard(n)
  BY <1>1, <1>2 DEF Card
<1>3. CASE ~ \A n \in Free : ~IsCard(n)
  <2>1. PICK n \in {m \in Free : IsCard(m)}, t \in {m \in Tasks : status[m] # "none"} \cup {0},
               fresh \in BOOLEAN :
         LET ok == t # 0 /\ Open(t) /\ fresh
         IN
         /\ t < n /\ Consumed(n)
         /\ finishes' = IF ok /\ script.kind[n] = "cardFinish" THEN finishes \cup {t} ELSE finishes
         /\ stops' = IF ok /\ script.kind[n] = "cardStop" /\ status[t] # "user"
                     THEN stops \cup {t} ELSE stops
         /\ IF ok /\ script.kind[n] = "cardAnswer" /\ status[t] = "question"
              THEN status' = [status EXCEPT ![t] = "working"] /\ Owes(t, "live")
              ELSE UNCHANGED <<status, due>>
         /\ EndedBy(n, IF ok /\ script.kind[n] = "cardFinish" THEN {t} ELSE {}) /\ UNCHANGED <<lost, revived>>
    BY <1>3, Zenon DEF Card
  <2> DEFINE ok == t # 0 /\ Open(t) /\ fresh
             S == IF ok /\ script.kind[n] = "cardFinish" THEN {t} ELSE {}
  <2>2. ok \in BOOLEAN /\ (ok => t \in Tasks /\ Open(t)) /\ t \in Tasks \cup {0}
    BY <2>1
  <2>3. /\ IsCard(n) /\ n \in Inputs /\ n \in waiting /\ Consumed(n) /\ n \in Free
        /\ UNCHANGED <<lost, revived>>
    BY <2>1 DEF Typed, TypeOK, Free
  <2>4. /\ finishes' = finishes \/ (ok /\ finishes' = finishes \cup {t})
        /\ ok /\ script.kind[n] = "cardFinish" => t \in finishes'
    BY <2>1
  <2>5. stops' = stops \/ (ok /\ n \in Halts /\ stops' = stops \cup {t})
    BY <2>1, <2>3 DEF Halts
  <2>6. \A u \in Tasks : status'[u] = status[u] \/ (status[u] = "question" /\ status'[u] = "working")
    BY <2>1 DEF Typed, TypeOK
  <2>7. EndedBy(n, S) /\ S \subseteq Tasks /\ (S = {} \/ (ok /\ S = {t} /\ t \in finishes'))
    BY <2>1, <2>2, <2>4
  <2> HIDE DEF ok, S
  <2>8. /\ ended' \in [Inputs -> {0} \cup Tasks] /\ ended'[n] \in S \cup {0}
        /\ \A m \in Inputs : m # n => ended'[m] = ended[m]
    BY <2>3, <2>7, EndedByIs DEF Typed, TypeOK
  <2>9. ended'[n] = 0 \/ (ok /\ ended'[n] = t /\ t \in finishes')
    BY <2>7, <2>8
  <2>10. \E k \in BOOLEAN :
           /\ k => t \in Tasks /\ Open(t)
           /\ finishes' = finishes \/ (k /\ finishes' = finishes \cup {t})
           /\ stops' = stops \/ (k /\ n \in Halts /\ stops' = stops \cup {t})
           /\ ended'[n] = 0 \/ (k /\ ended'[n] = t /\ t \in finishes')
    BY <2>2, <2>4, <2>5, <2>9
  <2> QED
    BY <1>1, <2>2, <2>3, <2>6, <2>8, <2>10, Zenon
<1> QED
  BY <1>2, <1>3

\* The first command is taken, for the one open task or for none.
LEMMA CommandIs ==
  ASSUME Typed, Command
  PROVE  /\ Done("command") /\ UNCHANGED <<script, taskVars, continues, deliveries, answers>>
         /\ \/ /\ \A n \in Free : IsText(n) \/ IsCard(n)
               /\ UNCHANGED <<inputVars, creates, finishes, stops, clears, histVars>>
            \/ \E n \in Free :
                 /\ ~IsText(n) /\ ~IsCard(n) /\ n \in Inputs /\ n \in waiting /\ Consumed(n)
                 /\ creates' = creates \/ (OpenRoots = {} /\ creates' = creates \cup {n})
                 /\ finishes \subseteq finishes' /\ finishes' \subseteq finishes \cup OpenRoots
                 /\ clears \subseteq clears' /\ clears' \subseteq clears \cup OpenRoots
                 /\ stops' = stops \/ (n \in Halts /\ stops' \subseteq stops \cup OpenRoots)
                 /\ ended' \in [Inputs -> {0} \cup Tasks]
                 /\ \A m \in Inputs : m # n => ended'[m] = ended[m]
                 /\ ended'[n] = 0 \/ ended'[n] \in OpenRoots \cap (finishes' \cup clears')
                 /\ UNCHANGED <<lost, revived>>
<1> DEFINE X == {n \in Free : ~IsText(n) /\ ~IsCard(n)}
<1>1. Done("command") /\ UNCHANGED <<script, taskVars, continues, deliveries, answers>>
  BY DEF Command
<1>2. CASE X = {}
  BY <1>1, <1>2 DEF Command
<1>3. CASE X # {}
  <2> DEFINE n == First(X)
             To(k, S) == IF script.kind[n] = k THEN S ELSE {}
  <2>1. n \in X /\ n \in Inputs /\ n \in waiting
    BY <1>3, FirstFree DEF Typed, IInv
  <2>2. n \in Free /\ ~IsText(n) /\ ~IsCard(n)
    BY <2>1
  <2>3. /\ Consumed(n)
        /\ creates' = creates \cup To("new", IF OpenRoots = {} THEN {n} ELSE {})
        /\ finishes' = finishes \cup To("finish", Sole)
        /\ stops' = stops \cup To("stop", Sole)
        /\ clears' = clears \cup To("clear", Sole)
        /\ EndedBy(n, To("finish", Sole) \cup To("clear", Sole)) /\ UNCHANGED <<lost, revived>>
    BY <1>3 DEF Command
  <2> HIDE DEF n, X
  <2>4. To("finish", Sole) \cup To("clear", Sole) \subseteq OpenRoots /\ OpenRoots \subseteq Tasks
    BY SoleIs DEF OpenRoots
  <2>5. /\ finishes \subseteq finishes' /\ finishes' \subseteq finishes \cup OpenRoots
        /\ clears \subseteq clears' /\ clears' \subseteq clears \cup OpenRoots
        /\ To("finish", Sole) \cup To("clear", Sole) \subseteq finishes' \cup clears'
    BY <2>3, SoleIs
  <2>6. stops' = stops \/ (n \in Halts /\ stops' \subseteq stops \cup OpenRoots)
    BY <2>1, <2>3, SoleIs DEF Halts
  <2>7. creates' = creates \/ (OpenRoots = {} /\ creates' = creates \cup {n})
    BY <2>3
  <2> DEFINE T == To("finish", Sole) \cup To("clear", Sole)
  <2>8. T \subseteq Tasks /\ T \subseteq OpenRoots \cap (finishes' \cup clears') /\ EndedBy(n, T)
    BY <2>3, <2>4, <2>5
  <2> HIDE DEF To, T
  <2>9. /\ ended' \in [Inputs -> {0} \cup Tasks] /\ ended'[n] \in T \cup {0}
        /\ \A m \in Inputs : m # n => ended'[m] = ended[m]
    BY <2>1, <2>8, EndedByIs DEF Typed, TypeOK
  <2>10. ended'[n] = 0 \/ ended'[n] \in OpenRoots \cap (finishes' \cup clears')
    BY <2>8, <2>9
  <2> QED
    BY <1>1, <2>1, <2>2, <2>3, <2>5, <2>6, <2>7, <2>9, <2>10, Zenon
<1> QED
  BY <1>2, <1>3

\* The first text is taken, for the one open task or as a task of its own.
LEMMA RouteIs ==
  ASSUME Typed, Route
  PROVE  /\ Runs("route")
         /\ UNCHANGED <<script, held, seen, inbox, told, finishes, stops, clears, todo, histVars>>
         /\ \E n \in FreeTexts :
              /\ n \in Inputs /\ n \in waiting /\ Consumed(n) /\ \A m \in FreeTexts : n <= m
              /\ \A u \in Tasks : \/ status'[u] = status[u]
                                  \/ status[u] \in {"user", "question"} /\ status'[u] = "working"
              /\ continues \subseteq continues'
              /\ \A c \in continues' :
                   \/ c \in continues
                   \/ /\ c.task \in Tasks /\ status[c.task] = "user" /\ status'[c.task] = "working"
                      /\ c = [task |-> c.task, items |-> <<n>>]
              /\ \A d \in deliveries' :
                   \/ d \in deliveries
                   \/ d.task \in Tasks /\ status[d.task] = "working" /\ d.item = n
              /\ creates' \subseteq creates \cup {n} /\ creates \subseteq creates'
<1> DEFINE n == First(FreeTexts)
           only(S) == {t \in Sole : status[t] \in S}
           toUser == only({"user"})
           toWork == only({"working"})
           replied == IF script.client THEN {} ELSE only({"question"})
<1>1. FreeTexts \subseteq Free /\ FreeTexts # {}
  BY DEF Route, FreeTexts
<1>2. n \in FreeTexts /\ n \in Inputs /\ n \in waiting /\ \A m \in FreeTexts : n <= m
  BY <1>1, FirstFree DEF Typed, IInv
<1>3. /\ Consumed(n)
      /\ status' = [t \in Tasks |-> IF t \in toUser \cup replied THEN "working" ELSE status[t]]
      /\ continues' = continues \cup {[task |-> t, items |-> <<n>>] : t \in toUser}
      /\ deliveries' = deliveries \cup {[task |-> t, item |-> n] : t \in toWork}
      /\ creates' \subseteq creates \cup {n} /\ creates \subseteq creates'
  BY DEF Route
<1>4. Runs("route") /\ UNCHANGED <<script, held, seen, inbox, told, finishes, stops, clears, todo, histVars>>
  BY DEF Route
<1> HIDE DEF n
<1>5. /\ \A t \in toUser : t \in Tasks /\ status[t] = "user"
      /\ \A t \in toWork : t \in Tasks /\ status[t] = "working"
      /\ \A t \in replied : t \in Tasks /\ status[t] = "question"
  BY SoleIs
<1> HIDE DEF only, toUser, toWork, replied
<1>6. \A u \in Tasks : \/ status'[u] = status[u]
                       \/ status[u] \in {"user", "question"} /\ status'[u] = "working"
  BY <1>3, <1>5
<1>7. \A t \in toUser : status'[t] = "working"
  BY <1>3, <1>5
<1>8. \A c \in continues' :
        \/ c \in continues
        \/ /\ c.task \in Tasks /\ status[c.task] = "user" /\ status'[c.task] = "working"
           /\ c = [task |-> c.task, items |-> <<n>>]
  <2>1. ASSUME NEW t \in toUser, NEW c, c = [task |-> t, items |-> <<n>>]
        PROVE  /\ c.task \in Tasks /\ status[c.task] = "user" /\ status'[c.task] = "working"
               /\ c = [task |-> c.task, items |-> <<n>>]
    <3>1. c.task = t
      BY <2>1
    <3> QED
      BY <1>5, <1>7, <2>1, <3>1
  <2> QED
    BY <1>3, <2>1
<1>9. \A d \in deliveries' :
        \/ d \in deliveries
        \/ d.task \in Tasks /\ status[d.task] = "working" /\ d.item = n
  <2>1. ASSUME NEW t \in toWork, NEW d, d = [task |-> t, item |-> n]
        PROVE  d.task \in Tasks /\ status[d.task] = "working" /\ d.item = n
    BY <1>5, <2>1
  <2> QED
    BY <1>3, <2>1
<1> QED
  BY <1>2, <1>3, <1>4, <1>6, <1>8, <1>9

-----------------------------------------------------------------------------
(* The barrier: which inputs are free, and which are still there.          *)

\* Taken by a task or a command.
Used(n) == n < next /\ n \notin waiting

\* The marks are those of this frame.
InFrame == todo # {} /\ "order" \notin todo

\* The systems run in their order.
Systematic == \A s \in Systems : s \notin todo => Before(s) \cap todo = {}

\* Inputs are taken in their order.
Queue ==
  /\ \A n \in waiting : n < next
  /\ \A n \in waiting, m \in Inputs : n < m /\ m < next => m \in waiting

\* Only texts are ahead of a free text, and nothing is ahead of another free input.
Marks ==
  InFrame => \A n \in Free, m \in waiting :
    IF IsText(n) THEN m < n => m \in Free /\ IsText(m) ELSE n <= m

\* Each of the systems leaves none of its inputs free.
Emptied ==
  InFrame =>
    /\ "card" \notin todo => \A n \in Free : ~IsCard(n)
    /\ "command" \notin todo => \A n \in Free : IsText(n)
    /\ "route" \notin todo => Free = {}

Barrier == Systematic /\ Queue /\ Marks /\ Emptied

\* A system that has run was after those before it.
LEMMA Earlier ==
  ASSUME Systematic, todo \subseteq Systems
  PROVE  /\ "card" \notin todo => "order" \notin todo
         /\ "command" \notin todo => "card" \notin todo
         /\ "finish" \notin todo => "command" \notin todo
         /\ "clear" \notin todo => "command" \notin todo
         /\ "route" \notin todo => "command" \notin todo
         /\ "create" \notin todo => "route" \notin todo
         /\ "ingest" \notin todo => "route" \notin todo
         /\ "llm" \notin todo => "ingest" \notin todo
         /\ "wake" \notin todo => "llm" \notin todo
         /\ "stop" \notin todo => "llm" \notin todo
         /\ "terminate" \notin todo => "llm" \notin todo
         /\ "continue" \notin todo => "wake" \notin todo
         /\ "dispatch" \notin todo => todo = {}
<1>1. ASSUME NEW s \in Systems, NEW r \in Before(s), s \notin todo PROVE r \notin todo
  BY <1>1 DEF Systematic
<1>2. "dispatch" \notin todo => todo = {}
  <2>1. Before("dispatch") = Systems \ {"dispatch"} /\ "dispatch" \in Systems
    BY DEF Before, Systems
  <2> QED
    BY <1>1, <2>1
<1> QED
  BY <1>1, <1>2 DEF Before, Systems

\* What a system that runs finds.
LEMMA RunsAt ==
  ASSUME Systematic, todo \subseteq Systems, NEW s, Runs(s)
  PROVE  /\ todo # {}
         /\ s # "order" /\ s \in Systems => InFrame
         /\ s = "order" => ~InFrame
         /\ s = "card" => "command" \in todo
         /\ s \in {"card", "command"} =>
              {"finish", "clear", "route", "create", "ingest", "llm", "wake", "stop", "continue"} \subseteq todo
         /\ s = "route" =>
              /\ "command" \notin todo
              /\ {"create", "ingest", "llm", "wake", "stop", "continue"} \subseteq todo
         /\ s \in {"finish", "clear"} => "command" \notin todo
         /\ s = "create" => {"command", "route"} \cap todo = {}
         /\ s = "ingest" => /\ {"command", "route"} \cap todo = {}
                            /\ {"llm", "wake", "stop", "continue"} \subseteq todo
         /\ s = "llm" => /\ {"command", "route", "ingest"} \cap todo = {}
                         /\ {"wake", "stop", "continue"} \subseteq todo
         /\ s = "wake" => {"command", "route", "ingest", "llm"} \cap todo = {} /\ "continue" \in todo
         /\ s = "stop" => {"command", "route", "ingest", "llm"} \cap todo = {}
         /\ s = "continue" => {"command", "route", "ingest", "llm", "wake"} \cap todo = {}
         /\ s = "dispatch" => todo = {"dispatch"}
<1> USE Earlier
<1>1. s \in todo /\ Before(s) \cap todo = {} /\ s \in Systems
  BY DEF Runs
<1>2. InFrame <=> "order" \notin todo
  BY <1>1 DEF InFrame
<1>3. CASE s = "order"
  BY <1>1, <1>2, <1>3
<1>4. CASE s = "card"
  BY <1>1, <1>2, <1>4 DEF Before
<1>5. CASE s = "command"
  BY <1>1, <1>2, <1>5 DEF Before
<1>6. CASE s \in {"finish", "clear"}
  BY <1>1, <1>2, <1>6 DEF Before
<1>7. CASE s = "route"
  BY <1>1, <1>2, <1>7 DEF Before
<1>8. CASE s = "create"
  BY <1>1, <1>2, <1>8 DEF Before
<1>9. CASE s = "ingest"
  BY <1>1, <1>2, <1>9 DEF Before
<1>10. CASE s = "llm"
  BY <1>1, <1>2, <1>10 DEF Before
<1>11. CASE s \in {"wake", "stop", "terminate"}
  BY <1>1, <1>2, <1>11 DEF Before
<1>12. CASE s = "continue"
  BY <1>1, <1>2, <1>12 DEF Before
<1>13. CASE s = "dispatch"
  <2>1. Before(s) = Systems \ {"dispatch"}
    BY <1>13 DEF Before
  <2>2. todo = {"dispatch"}
    BY <1>1, <1>13, <2>1
  <2> QED
    BY <1>2, <1>13, <2>2
<1> QED
  BY <1>1, <1>3, <1>4, <1>5, <1>6, <1>7, <1>8, <1>9, <1>10, <1>11, <1>12, <1>13 DEF Systems

\* The order of the systems is kept.
LEMMA SystematicStep ==
  ASSUME TypeOK, Systematic, [Next]_vars
  PROVE  Systematic'
<1>1. CASE todo' = todo \/ todo' = Systems
  BY <1>1 DEF Systematic
<1>2. CASE \E s \in Systems : Done(s)
  <2>1. PICK s \in Systems : Runs(s) /\ todo' = todo \ {s}
    BY <1>2 DEF Done
  <2> QED
    BY <2>1 DEF Systematic, Runs
<1>3. (todo' = todo \/ todo' = Systems) \/ \E s \in Systems : Done(s)
  <2>1. CASE UNCHANGED vars
    BY <2>1 DEF vars
  <2>2. CASE Arrive \/ Tick
    BY <2>2 DEF Arrive, Tick
  <2>3. CASE \E t \in Tasks : ToolReturns(t) \/ Released(t) \/ ShellExits(t) \/ IdleEnds(t)
    BY <2>3 DEF ToolReturns, Released, ShellExits, IdleEnds
  <2>4. CASE Order \/ Card \/ Command \/ Finish \/ Clear \/ RouteEnds \/ Create \/ Ingest \/ Wake
    BY <2>4 DEF Order, Card, Command, Finish, Clear, RouteEnds, Create, Ingest, Wake, Systems
  <2>5. CASE Route \/ Continue
    BY <2>5 DEF Route, Continue
  <2>6. CASE ContinueEnds \/ Llm \/ Stop \/ Terminate \/ Dispatch
    BY <2>6 DEF ContinueEnds, Llm, Stop, Terminate, Dispatch, Systems
  <2> QED
    BY <2>1, <2>2, <2>3, <2>4, <2>5, <2>6 DEF Next, Frame
<1> QED
  BY <1>1, <1>2, <1>3

\* The input that is taken is the first one.
LEMMA TakesFirst ==
  ASSUME Typed, Barrier, InFrame, NEW n \in Free, IsText(n) => \A m \in FreeTexts : n <= m
  PROVE  /\ \A m \in waiting : n <= m
         /\ ~IsText(n) => Free = {n}
<1>1. n \in Nat /\ n \in waiting /\ \A m \in waiting : m \in Nat
  BY SMT DEF Typed, TypeOK, Inputs, Free
<1>2. ASSUME NEW m \in waiting PROVE n <= m
  <2>1. CASE IsText(n)
    <3>1. m < n => m \in FreeTexts
      BY <2>1 DEF Barrier, Marks, FreeTexts
    <3>2. m < n => n <= m
      BY <2>1, <3>1
    <3> QED
      BY <1>1, <3>2, SMT
  <2>2. CASE ~IsText(n)
    BY <2>2 DEF Barrier, Marks
  <2> QED
    BY <2>1, <2>2
<1>3. ASSUME ~IsText(n), NEW m \in Free PROVE m = n
  <2>1. m \in waiting /\ n <= m
    BY <1>2 DEF Free
  <2>2. CASE IsText(m)
    <3>1. n < m => IsText(n)
      BY <1>1, <2>2 DEF Barrier, Marks
    <3> QED
      BY <1>1, <1>3, <2>1, <3>1, SMT
  <2>3. CASE ~IsText(m)
    <3>1. m <= n
      BY <1>1, <2>3 DEF Barrier, Marks
    <3> QED
      BY <1>1, <2>1, <3>1, SMT
  <2> QED
    BY <2>2, <2>3
<1> QED
  BY <1>2, <1>3

\* So it comes after all that were taken before it.
LEMMA AfterUsed ==
  ASSUME Typed, Barrier, NEW n \in waiting, NEW m \in Inputs, Used(m)
  PROVE  m < n
<1>1. n < next /\ m \in Nat /\ n \in Nat
  BY SMT DEF Barrier, Queue, Typed, TypeOK, Inputs
<1>2. n < m => m \in waiting
  BY <1>1 DEF Barrier, Queue, Used
<1> QED
  BY <1>1, <1>2, SMT DEF Used

\* An input is taken.
LEMMA BarrierTaken ==
  ASSUME Typed, Barrier, Systematic', NEW n \in Free, NEW s, Runs(s), s \in {"card", "command", "route"},
         todo' \subseteq todo, todo \ {s} \subseteq todo', script' = script, Consumed(n),
         IsText(n) => s = "route" /\ todo' = todo /\ \A m \in FreeTexts : n <= m
  PROVE  /\ Barrier' /\ InFrame /\ InFrame'
         /\ \A m \in waiting : n <= m
         /\ ~IsText(n) => Free = {n} /\ Free' = {}
<1>1. InFrame
  BY RunsAt DEF Barrier, Typed, TypeOK, Systems
<1>2. (\A m \in waiting : n <= m) /\ (~IsText(n) => Free = {n})
  BY <1>1, TakesFirst
<1>3. waiting' = waiting \ {n} /\ UNCHANGED <<next, blocked>>
  BY DEF Consumed
<1>4. Free' = Free \ {n}
  BY <1>3 DEF Free
<1>5. "dispatch" \in todo
  BY Earlier DEF Barrier, Typed, TypeOK, Runs
<1>6. InFrame'
  BY <1>1, <1>5 DEF InFrame
<1>7. \A m \in Inputs : (IsText(m))' = IsText(m) /\ (IsCard(m))' = IsCard(m)
  BY DEF IsText, IsCard
<1>8. Free \subseteq Inputs /\ waiting \subseteq Inputs /\ Free \subseteq waiting
  BY DEF Typed, TypeOK, Free
<1>9. Queue'
  <2>1. \A m \in waiting : m # n => n < m
    BY <1>2, <1>8, SMT DEF Inputs
  <2>2. n \in Inputs /\ \A m \in Inputs : m \in Nat
    BY <1>8, SMT DEF Inputs
  <2>3. \A m \in Inputs, k \in waiting' : k < m => m # n
    BY <1>3, <1>8, <2>1, <2>2, SMT
  <2> QED
    BY <1>3, <1>8, <2>3 DEF Barrier, Queue
<1>10. Marks'
  <2>1. ASSUME NEW k \in Free', NEW m \in waiting'
        PROVE  IF IsText(k) THEN m < k => m \in Free' /\ IsText(m) ELSE k <= m
    BY <1>1, <1>3, <1>4 DEF Barrier, Marks
  <2> QED
    BY <1>3, <1>4, <1>7, <1>8, <2>1 DEF Marks
<1>11. Emptied'
  <2>1. CASE IsText(n)
    <3>1. todo' = todo /\ Free' \subseteq Free
      BY <1>4, <2>1
    <3>2. "route" \in todo
      BY <2>1 DEF Runs
    <3> QED
      BY <1>1, <1>7, <1>8, <3>1, <3>2 DEF Barrier, Emptied
  <2>2. CASE ~IsText(n)
    <3>1. Free' = {}
      BY <1>2, <1>4, <2>2
    <3> QED
      BY <3>1 DEF Emptied
  <2> QED
    BY <2>1, <2>2
<1> QED
  BY <1>1, <1>2, <1>4, <1>6, <1>9, <1>10, <1>11 DEF Barrier

\* No input is taken, and the marks stay.
LEMMA BarrierKept ==
  ASSUME Typed, Barrier, Systematic', UNCHANGED <<script, next, waiting, blocked>>,
         todo' \subseteq todo \/ InFrame' = FALSE,
         "order" \in todo => "order" \in todo' \/ todo' = {},
         InFrame /\ "card" \in todo /\ "card" \notin todo' => \A n \in Free : ~IsCard(n),
         InFrame /\ "command" \in todo /\ "command" \notin todo' => \A n \in Free : IsText(n),
         InFrame /\ "route" \in todo /\ "route" \notin todo' => Free = {}
  PROVE  Barrier'
<1>1. Free' = Free /\ Free \subseteq Inputs /\ waiting \subseteq Inputs
  BY DEF Free, Typed, TypeOK
<1>2. \A m \in Inputs : (IsText(m))' = IsText(m) /\ (IsCard(m))' = IsCard(m)
  BY DEF IsText, IsCard
<1>3. Queue'
  BY DEF Barrier, Queue
<1>4. InFrame' => InFrame /\ todo' \subseteq todo
  BY DEF InFrame
<1>5. Marks'
  <2>1. InFrame' => \A n \in Free, m \in waiting :
          IF IsText(n) THEN m < n => m \in Free /\ IsText(m) ELSE n <= m
    BY <1>4 DEF Barrier, Marks
  <2> QED
    BY <1>1, <1>2, <2>1 DEF Marks
<1>6. Emptied'
  <2>1. InFrame' =>
    /\ "card" \notin todo' => \A n \in Free : ~IsCard(n)
    /\ "command" \notin todo' => \A n \in Free : IsText(n)
    /\ "route" \notin todo' => Free = {}
    BY <1>4 DEF Barrier, Emptied
  <2> QED
    BY <1>1, <1>2, <2>1 DEF Emptied
<1> QED
  BY <1>3, <1>5, <1>6 DEF Barrier

\* The marks of a frame are set.
LEMMA BarrierOrder ==
  ASSUME Typed, Barrier, Systematic', Order
  PROVE  /\ Barrier' /\ ~InFrame
         /\ Free' = {n \in waiting : ~HeldBack(n)}
<1>1. /\ Runs("order") /\ todo' = todo \ {"order"} /\ blocked' = {n \in waiting : HeldBack(n)}
      /\ UNCHANGED <<script, next, waiting>>
  BY DEF Order, Done, Marked
<1>2. ~InFrame
  BY <1>1, RunsAt DEF Barrier, Typed, TypeOK
<1>3. Free' = {n \in waiting : ~HeldBack(n)}
  BY <1>1 DEF Free
<1>4. {"card", "command", "route"} \subseteq todo'
  BY <1>1, Earlier DEF Barrier, Typed, TypeOK, Runs
<1>5. waiting \subseteq Inputs /\ \A m \in Inputs : m \in Nat
  BY SMT DEF Typed, TypeOK, Inputs
<1>6. \A m \in Inputs : (IsText(m))' = IsText(m)
  BY <1>1 DEF IsText
<1>7. Queue'
  BY <1>1 DEF Barrier, Queue
<1>8. ASSUME NEW n \in waiting, ~HeldBack(n), NEW m \in waiting, m < n
      PROVE  IsText(n) /\ IsText(m) /\ ~HeldBack(m)
  <2>1. IsText(n) /\ IsText(m)
    BY <1>8 DEF HeldBack
  <2>2. ~IsCard(n) /\ ~IsCard(m)
    BY <2>1 DEF IsText, IsCard, Cards
  <2>3. ~(Closing \/ Clearing)
    BY <1>8, <2>2 DEF HeldBack
  <2>4. ASSUME NEW k \in waiting, k < m PROVE IsText(k)
    <3>1. k < n
      BY <1>5, <1>8, <2>4, SMT
    <3> QED
      BY <1>8, <3>1 DEF HeldBack
  <2> QED
    BY <2>1, <2>3, <2>4 DEF HeldBack
<1>9. Marks'
  <2>1. ASSUME NEW n \in Free', NEW m \in waiting
        PROVE  IF IsText(n) THEN m < n => m \in Free' /\ IsText(m) ELSE n <= m
    <3>1. n \in waiting /\ ~HeldBack(n) /\ n \in Nat /\ m \in Nat
      BY <1>3, <1>5
    <3>2. m < n => IsText(n) /\ IsText(m) /\ m \in Free'
      BY <1>3, <1>8, <3>1
    <3>3. ~(m < n) => n <= m
      BY <3>1, SMT
    <3> QED
      BY <3>2, <3>3
  <2>2. Free' \subseteq Inputs
    BY <1>3, <1>5
  <2> QED
    BY <1>1, <1>5, <1>6, <2>1, <2>2 DEF Marks
<1>10. Emptied'
  BY <1>4 DEF Emptied
<1> QED
  BY <1>2, <1>3, <1>7, <1>9, <1>10 DEF Barrier

\* Before the first input there is none to hold back.
LEMMA BarrierInit ==
  ASSUME Init
  PROVE  Barrier
  BY DEF Init, Barrier, Systematic, Before, Systems, Queue, Marks, Emptied, InFrame

\* Every step keeps the barrier.
LEMMA BarrierStep ==
  ASSUME Typed, Typed', Barrier, [Next]_vars
  PROVE  Barrier'
<1>1. Systematic'
  BY SystematicStep DEF Typed, Barrier
<1> USE <1>1
<1>2. CASE UNCHANGED vars
  <2>1. UNCHANGED <<script, next, waiting, blocked, todo>>
    BY <1>2 DEF vars, inputVars
  <2> QED
    BY <2>1, BarrierKept
<1>3. CASE Arrive
  <2>1. /\ todo = {} /\ todo' = {} /\ UNCHANGED <<script, blocked>>
        /\ next' = next + 1 /\ waiting' = waiting \cup {next}
    BY <1>3 DEF Arrive
  <2>2. Queue'
    <3>1. next \in Nat /\ waiting \subseteq Inputs /\ \A m \in Inputs : m \in Nat
      BY SMT DEF Typed, TypeOK, Inputs
    <3>2. \A n \in waiting' : n < next'
      BY <2>1, <3>1, SMT DEF Barrier, Queue
    <3>3. ASSUME NEW n \in waiting', NEW m \in Inputs, n < m, m < next' PROVE m \in waiting'
      <4>1. m <= next /\ m \in Nat
        BY <2>1, <3>1, <3>3, SMT
      <4>2. CASE m = next
        BY <2>1, <4>2
      <4>3. CASE m < next
        <5>1. n \in waiting
          BY <2>1, <3>1, <3>3, <4>3, SMT
        <5> QED
          BY <2>1, <3>3, <4>3, <5>1 DEF Barrier, Queue
      <4> QED
        BY <3>1, <4>1, <4>2, <4>3, SMT
    <3> QED
      BY <3>2, <3>3 DEF Queue
  <2>3. Marks' /\ Emptied'
    BY <2>1 DEF Marks, Emptied, InFrame
  <2> QED
    BY <2>2, <2>3 DEF Barrier
<1>4. CASE Tick
  <2>1. todo = {} /\ todo' = Systems /\ UNCHANGED <<script, next, waiting, blocked>>
    BY <1>4 DEF Tick, inputVars
  <2>2. InFrame' = FALSE
    BY <2>1 DEF InFrame, Systems
  <2> QED
    BY <2>1, <2>2, BarrierKept
<1>5. CASE \E t \in Tasks : ToolReturns(t) \/ Released(t) \/ ShellExits(t) \/ IdleEnds(t)
  <2>1. UNCHANGED <<script, next, waiting, blocked, todo>>
    BY <1>5 DEF ToolReturns, Released, ShellExits, IdleEnds, inputVars
  <2> QED
    BY <2>1, BarrierKept
<1>6. CASE Order
  BY <1>6, BarrierOrder
<1>7. CASE Card
  <2>1. Done("card") /\ script' = script
    BY <1>7, CardIs
  <2>2. CASE (\A n \in Free : ~IsCard(n)) /\ UNCHANGED <<inputVars, status, due, finishes, stops, histVars>>
    BY <2>1, <2>2, BarrierKept DEF Done, inputVars
  <2>3. CASE \E n \in Free : IsCard(n) /\ Consumed(n)
    <3>1. PICK n \in Free : IsCard(n) /\ Consumed(n)
      BY <2>3
    <3>2. ~IsText(n)
      BY <3>1 DEF IsCard, IsText, Cards
    <3> QED
      BY <2>1, <3>1, <3>2, BarrierTaken DEF Done
  <2> QED
    BY <1>7, <2>2, <2>3, CardIs
<1>8. CASE Command
  <2>1. Done("command") /\ script' = script
    BY <1>8, CommandIs
  <2>2. CASE (\A n \in Free : IsText(n) \/ IsCard(n)) /\ UNCHANGED inputVars
    <3>1. Runs("command") /\ todo' = todo \ {"command"}
      BY <2>1 DEF Done
    <3>2. "card" \notin todo /\ InFrame
      BY <3>1, RunsAt DEF Runs, Before, Barrier, Typed, TypeOK, Systems
    <3>3. \A n \in Free : IsText(n)
      BY <2>2, <3>2 DEF Barrier, Emptied
    <3> QED
      BY <2>1, <2>2, <3>1, <3>3, BarrierKept DEF inputVars
  <2>3. CASE \E n \in Free : ~IsText(n) /\ Consumed(n)
    BY <2>1, <2>3, BarrierTaken DEF Done
  <2> QED
    BY <1>8, <2>2, <2>3, CommandIs
<1>9. CASE Route
  <2>1. PICK n \in FreeTexts : Consumed(n) /\ \A m \in FreeTexts : n <= m
    BY <1>9, RouteIs
  <2>2. Runs("route") /\ UNCHANGED <<script, todo>>
    BY <1>9, RouteIs
  <2>3. n \in Free
    BY DEF FreeTexts
  <2> QED
    BY <2>1, <2>2, <2>3, BarrierTaken
<1>10. CASE RouteEnds
  <2>1. Runs("route") /\ todo' = todo \ {"route"} /\ UNCHANGED <<script, next, waiting, blocked>> /\ FreeTexts = {}
    BY <1>10 DEF RouteEnds, Done, inputVars
  <2>2. "command" \notin todo /\ InFrame
    BY <2>1, RunsAt DEF Barrier, Typed, TypeOK, Systems
  <2>3. Free = {}
    BY <2>1, <2>2 DEF Barrier, Emptied, FreeTexts
  <2> QED
    BY <2>1, <2>3, BarrierKept
<1>11. CASE Create
  <2>1. UNCHANGED <<script, next, blocked>> /\ todo' = todo \ {"create"}
    BY <1>11 DEF Create, Done
  <2>2. waiting' = waiting
    <3>1. creates # {} => OpenRoots = {}
      BY DEF Typed, IInv, Quiet, Owner, OpenRoots
    <3> QED
      BY <1>11, <3>1 DEF Create
  <2> QED
    BY <2>1, <2>2, BarrierKept
<1>12. CASE Finish \/ Clear \/ Ingest \/ Wake \/ Continue \/ ContinueEnds \/ Llm \/ Stop \/ Terminate
  <2>1. \/ todo' = todo
        \/ \E s \in {"finish", "clear", "ingest", "wake", "continue", "llm", "stop", "terminate"} :
             todo' = todo \ {s}
    BY <1>12 DEF Finish, Clear, Ingest, Wake, Continue, ContinueEnds, Llm, Stop, Terminate, Done
  <2>2. UNCHANGED <<script, next, waiting, blocked>>
    BY <1>12 DEF Finish, Clear, Ingest, Wake, Continue, ContinueEnds, Llm, Stop, Terminate, inputVars
  <2> QED
    BY <2>1, <2>2, BarrierKept
<1>13. CASE Dispatch
  <2>1. Runs("dispatch") /\ todo' = todo \ {"dispatch"} /\ UNCHANGED <<script, next, waiting, blocked>>
    BY <1>13 DEF Dispatch, Done, inputVars
  <2>2. todo = {"dispatch"}
    BY <2>1, RunsAt DEF Barrier, Typed, TypeOK
  <2> QED
    BY <2>1, <2>2, BarrierKept
<1> QED
  BY <1>2, <1>3, <1>4, <1>5, <1>6, <1>7, <1>8, <1>9, <1>10, <1>11, <1>12, <1>13 DEF Next, Frame

-----------------------------------------------------------------------------
(* A task that exists stays, and what was taken stays taken.               *)

\* t goes on from one status to the next.
Goes(t) ==
  /\ status[t] # "none" => status'[t] # "none"
  /\ status[t] = "gone" => status'[t] = "gone"
  /\ status'[t] \in {"working", "user", "approval", "question"} =>
       Open(t) \/ status[t] = "none" \/ t \in revived'

\* A task that exists stays, and opens again only when it is dispatched.
LEMMA TasksGo ==
  ASSUME Typed, [Next]_vars
  PROVE  revived \subseteq revived' /\ \A t \in Tasks : Goes(t)
<1>0. ASSUME NEW t \in Tasks, status'[t] = status[t] PROVE Goes(t)
  BY <1>0 DEF Goes, Open
<1>1. CASE UNCHANGED <<status, revived>>
  BY <1>0, <1>1
<1>2. CASE Card
  <2>1. revived' = revived
    BY <1>2, CardIs DEF histVars
  <2>2. \A u \in Tasks : status'[u] = status[u] \/ (status[u] = "question" /\ status'[u] = "working")
    BY <1>2, CardIs
  <2> QED
    BY <2>1, <2>2 DEF Goes, Open
<1>3. CASE Finish
  <2>1. \A t \in finishes : t \in Tasks /\ status[t] # "none"
    BY DEF Typed, IInv, Fresh
  <2>2. \A t \in Tasks : status'[t] = status[t] \/ (t \in finishes /\ status[t] # "gone" /\ status'[t] = "ended")
    BY <1>3 DEF Finish
  <2> QED
    BY <1>3, <2>1, <2>2 DEF Goes, Open, Finish, histVars
<1>4. CASE Clear
  <2>1. \A t \in Tasks : status'[t] = status[t] \/ status'[t] = "gone"
    BY <1>4 DEF Clear
  <2> QED
    BY <1>4, <2>1 DEF Goes, Open, Clear, histVars
<1>5. CASE Route
  <2>1. revived' = revived
    BY <1>5, RouteIs DEF histVars
  <2>2. \A u \in Tasks : \/ status'[u] = status[u]
                         \/ status[u] \in {"user", "question"} /\ status'[u] = "working"
    BY <1>5, RouteIs
  <2> QED
    BY <2>1, <2>2 DEF Goes, Open
<1>6. CASE Create
  <2>1. creates # {} => \A t \in Founded : status[t] = "none"
    BY FoundedIs DEF Typed, IInv, Fresh
  <2>2. \A t \in Tasks : status'[t] = status[t] \/ (status[t] = "none" /\ status'[t] = "working")
    BY <1>6, <2>1 DEF Create
  <2> QED
    BY <1>6, <2>2 DEF Goes, Open, Create, histVars
<1>7. CASE Continue
  <2>1. \A t \in Tasks : status'[t] = status[t] \/ (Open(t) /\ status'[t] = "working")
    BY <1>7 DEF Continue, Typed, TypeOK
  <2> QED
    BY <1>7, <2>1 DEF Goes, Open, Continue
<1>8. CASE Llm
  <2>1. \A t \in Tasks : status'[t] = status[t] \/ (status[t] = "working" /\ status'[t] \in {"user", "ended"})
    BY <1>8 DEF Llm, Nothing, Typed, TypeOK
  <2> QED
    BY <1>8, <2>1 DEF Goes, Open, Llm, histVars
<1>9. CASE Stop
  <2>1. \A t \in Tasks : status'[t] = status[t] \/ (Open(t) /\ status'[t] = "user")
    BY <1>9 DEF Stop
  <2> QED
    BY <1>9, <2>1 DEF Goes, Open, Stop, histVars
<1>10. CASE Dispatch
  <2> DEFINE resumed == {t \in answers : status[t] = "approval"}
             sending == {t \in Tasks : due[t] = "agent" \/ (due[t] = "live" /\ status[t] = "working")}
             calling == {t \in Tasks \ resumed : status[t] = "working" /\ "tool" \in held[t]}
  <2>1. PICK asks \in {"nothing", "approval", "question"} :
          /\ status' = [t \in Tasks |->
               IF t \in resumed \cup sending THEN "working"
               ELSE IF t \in calling /\ asks # "nothing" THEN asks ELSE status[t]]
          /\ revived' = revived \cup {t \in sending : status[t] = "ended"}
    BY <1>10 DEF Dispatch
  <2>2. \A t \in sending : /\ status[t] \notin {"none", "gone"}
                           /\ status[t] = "working" \/ (due[t] = "agent" /\ status[t] \in Statuses)
    BY DEF Typed, TypeOK, IInv, Named
  <2>3. \A t \in resumed : status[t] = "approval"
    OBVIOUS
  <2>4. \A t \in calling : status[t] = "working"
    OBVIOUS
  <2>5. \A t \in Tasks : status'[t] = IF t \in resumed \cup sending THEN "working"
               ELSE IF t \in calling /\ asks # "nothing" THEN asks ELSE status[t]
    BY <2>1
  <2>6. \A t \in sending : Open(t) \/ t \in revived'
    BY <2>1, <2>2 DEF Open, Statuses
  <2> HIDE DEF resumed, sending, calling
  <2>7. \A t \in Tasks : Goes(t)
    BY <2>2, <2>3, <2>4, <2>5, <2>6 DEF Goes, Open
  <2> QED
    BY <2>1, <2>7
<1>11. \/ UNCHANGED <<status, revived>>
       \/ Card \/ Finish \/ Clear \/ Route \/ Create \/ Continue \/ Llm \/ Stop \/ Dispatch
  <2>1. CASE UNCHANGED vars
    BY <2>1 DEF vars, taskVars, histVars
  <2>2. CASE Arrive \/ Tick \/ Order \/ Command \/ RouteEnds \/ ContinueEnds
    <3>1. Command => UNCHANGED <<status, revived>>
      BY CommandIs DEF taskVars, histVars
    <3> QED
      BY <2>2, <3>1 DEF Arrive, Tick, Order, RouteEnds, ContinueEnds, taskVars, histVars
  <2>3. CASE Ingest \/ Wake \/ Terminate
    BY <2>3 DEF Ingest, Wake, Terminate, histVars
  <2>4. CASE \E t \in Tasks : ToolReturns(t) \/ Released(t) \/ ShellExits(t) \/ IdleEnds(t)
    BY <2>4 DEF ToolReturns, Released, ShellExits, IdleEnds, taskVars, histVars
  <2> QED
    BY <2>1, <2>2, <2>3, <2>4 DEF Next, Frame
<1> QED
  BY <1>1, <1>2, <1>3, <1>4, <1>5, <1>6, <1>7, <1>8, <1>9, <1>10, <1>11

\* What was taken stays taken.
LEMMA InputsGo ==
  ASSUME Typed, [Next]_vars
  PROVE  /\ script' = script /\ Halts' = Halts
         /\ \A n \in Inputs : Used(n) => Used(n)'
<1>1. CASE UNCHANGED <<script, next, waiting>>
  BY <1>1 DEF Used, Halts
<1>2. CASE Arrive
  <2>1. next \in Nat /\ \A n \in Inputs : n \in Nat
    BY SMT DEF Typed, TypeOK, Inputs
  <2> QED
    BY <1>2, <2>1, SMT DEF Arrive, Used, Halts
<1>3. CASE UNCHANGED <<script, next>> /\ waiting' \subseteq waiting
  BY <1>3 DEF Used, Halts
<1>4. Arrive \/ (UNCHANGED <<script, next>> /\ waiting' \subseteq waiting)
  <2>1. CASE UNCHANGED vars
    BY <2>1 DEF vars, inputVars
  <2>2. CASE Tick \/ Order \/ Finish \/ Clear \/ RouteEnds
    BY <2>2 DEF Tick, Order, Finish, Clear, RouteEnds, inputVars
  <2>3. CASE Card
    BY <2>3, CardIs DEF Consumed, inputVars
  <2>4. CASE Command
    BY <2>4, CommandIs DEF Consumed, inputVars
  <2>5. CASE Route
    BY <2>5, RouteIs DEF Consumed
  <2>6. CASE Create
    <3>1. creates # {} => OpenRoots = {}
      BY DEF Typed, IInv, Quiet, Owner, OpenRoots
    <3> QED
      BY <2>6, <3>1 DEF Create
  <2>7. CASE Ingest \/ Wake \/ Continue \/ ContinueEnds \/ Llm \/ Stop \/ Terminate \/ Dispatch
    BY <2>7 DEF Ingest, Wake, Continue, ContinueEnds, Llm, Stop, Terminate, Dispatch, inputVars
  <2>8. CASE \E t \in Tasks : ToolReturns(t) \/ Released(t) \/ ShellExits(t) \/ IdleEnds(t)
    BY <2>8 DEF ToolReturns, Released, ShellExits, IdleEnds, inputVars
  <2> QED
    BY <2>1, <2>2, <2>3, <2>4, <2>5, <2>6, <2>7, <2>8 DEF Next, Frame
<1> QED
  BY <1>1, <1>2, <1>3, <1>4

-----------------------------------------------------------------------------
(* The course of a conversation.                                           *)

\* Nothing is taken between a stop and its effect.
Stops ==
  stops # {} =>
    /\ "stop" \in todo /\ InFrame /\ Free = {}
    /\ \E s \in Halts : Used(s) /\ \A m \in Inputs : Used(m) => m <= s
    /\ \A t \in stops : status[t] # "none"

\* An input of which a task may come.
LettingIn == (InFrame /\ \E n \in Free : ~IsCard(n)) \/ creates # {}

\* It is let in when the last task has ended and nothing of it runs.
Settled == LettingIn => ~Closing /\ ("finish" \in todo => \A t \in finishes : held[t] = {})

Newcomers ==
  /\ creates # {} => "create" \in todo /\ "command" \notin todo /\ InFrame
  /\ \A n \in creates : Used(n) /\ (IsText(n) \/ (creates = {n} /\ Free = {}))

\* Tasks are to be finished in this frame, or are idle.
Finishing == IF InFrame THEN "finish" \notin todo => finishes = {} ELSE \A t \in finishes : held[t] = {}

Cleared == InFrame /\ Clearing => \A n \in Free : IsCard(n)

\* The task a command ended is ended, or will be before the next input is let in.
Ended ==
  /\ \A m \in Inputs : ended[m] # 0 => Used(m) /\ status[ended[m]] # "none"
  /\ \A m \in Inputs, t \in Tasks : ended[m] = t /\ Open(t) /\ t \notin revived =>
       t \in clears \/ (t \in finishes /\ "finish" \in todo /\ InFrame /\ Free = {})

Doors == Stops /\ Settled /\ Newcomers /\ Finishing /\ Cleared /\ Ended

\* A stop is an input.
LEMMA HaltsAre ==
  ASSUME TypeOK
  PROVE  Halts \subseteq Inputs /\ \A n \in Halts : n \in Nat
  BY SMT DEF Halts, Inputs

\* Before the first input no command is on its way.
LEMMA DoorsInit ==
  ASSUME Init
  PROVE  Doors
<1>1. /\ stops = {} /\ creates = {} /\ finishes = {} /\ clears = {} /\ todo = {}
      /\ ended = [n \in Inputs |-> 0]
  BY DEF Init
<1>2. \A n \in Inputs : n # 0
  BY SMT DEF Inputs
<1>3. \A m \in Inputs, t \in Tasks : ended[m] # t /\ ended[m] = 0
  BY <1>1, <1>2 DEF Tasks
<1> QED
  BY <1>1, <1>3 DEF Doors, Stops, LettingIn, Settled, Newcomers, Finishing, Cleared, Ended, InFrame

\* Between frames.
LEMMA DoorsOutside ==
  ASSUME Typed, Typed', Barrier, Doors, todo = {}, ~InFrame',
         UNCHANGED <<script, status, creates, stops, clears, ended, revived>>,
         \A n \in Inputs : Used(n) => Used(n)',
         \A t \in finishes' : t \in finishes \/ held'[t] = {},
         \A t \in Tasks : held[t] = {} => held'[t] = {}
  PROVE  Doors'
<1>1. ~InFrame /\ stops = {} /\ creates = {} /\ finishes \subseteq Tasks
  BY DEF InFrame, Doors, Stops, Newcomers, Typed, TypeOK
<1>2. Stops' /\ Settled' /\ Newcomers' /\ Cleared'
  BY <1>1 DEF Stops, Settled, LettingIn, Newcomers, Cleared
<1>3. Finishing'
  BY <1>1 DEF Doors, Finishing
<1>4. Ended'
  BY <1>1 DEF Doors, Ended, Open
<1> QED
  BY <1>2, <1>3, <1>4 DEF Doors

\* In a frame, when no input is taken: no task ends with work before those
\* that are let in have a task, and one that is ended by a command stays so.
LEMMA DoorsInside ==
  ASSUME Typed, Typed', Barrier, Doors, InFrame, InFrame',
         UNCHANGED <<script, next, waiting, blocked, ended>>,
         revived \subseteq revived', \A t \in Tasks : Goes(t),
         todo' \subseteq todo,
         stops' = {} \/ (stops' = stops /\ ("stop" \in todo => "stop" \in todo')),
         creates' = {} \/ (creates' = creates /\ ("create" \in todo => "create" \in todo')),
         IF "finish" \in todo /\ "finish" \notin todo'
           THEN /\ finishes' = {}
                /\ \A t \in finishes : ~ (status'[t] \in {"working", "user", "approval", "question"})
           ELSE finishes' = finishes,
         clears' \subseteq clears,
         \A t \in clears \ clears' : status'[t] = "gone",
         LettingIn => /\ \A t \in Tasks : status'[t] = "ended" => held'[t] = {}
                      /\ \A t \in Tasks : held[t] = {} => held'[t] = {}
  PROVE  Doors'
<1>1. Free' = Free /\ Free \subseteq Inputs /\ creates \subseteq Inputs /\ finishes \subseteq Tasks
      /\ clears \subseteq Tasks /\ stops \subseteq Tasks
  BY DEF Free, Typed, TypeOK
<1>2. /\ \A m \in Inputs : (IsText(m))' = IsText(m) /\ (IsCard(m))' = IsCard(m) /\ Used(m)' = Used(m)
      /\ Halts' = Halts
  BY DEF IsText, IsCard, Used, Halts
<1>3. Stops'
  <2>1. SUFFICES ASSUME stops' # {} PROVE Stops'
    BY DEF Stops
  <2>2. stops' = stops /\ ("stop" \in todo => "stop" \in todo')
    BY <2>1
  <2>3. PICK s \in Halts : Used(s) /\ \A m \in Inputs : Used(m) => m <= s
    BY <2>1, <2>2 DEF Doors, Stops
  <2>4. s \in Halts' /\ Used(s)' /\ \A m \in Inputs : Used(m)' => m <= s
    BY <1>2, <2>3, HaltsAre DEF Typed
  <2>5. \A t \in stops : status'[t] # "none"
    BY <1>1, <2>1, <2>2 DEF Doors, Stops, Goes
  <2> QED
    BY <1>1, <2>1, <2>2, <2>4, <2>5 DEF Doors, Stops
<1>4. LettingIn' => LettingIn
  BY <1>1, <1>2 DEF LettingIn
<1>5. Settled'
  <2>1. SUFFICES ASSUME LettingIn' PROVE Settled'
    BY DEF Settled
  <2>2. ~Closing'
    BY <1>4, <2>1 DEF Closing
  <2>3. "finish" \in todo' => \A t \in finishes' : held'[t] = {}
    BY <1>1, <1>4, <2>1 DEF Doors, Settled
  <2> QED
    BY <2>2, <2>3 DEF Settled
<1>6. Newcomers'
  BY <1>1, <1>2 DEF Doors, Newcomers
<1>7. Finishing'
  BY DEF Doors, Finishing
<1>8. Cleared'
  <2>1. Clearing' => Clearing
    BY <1>1 DEF Clearing, Goes, Typed, IInv, Fresh
  <2> QED
    BY <1>1, <1>2, <2>1 DEF Doors, Cleared
<1>9. Ended'
  <2>1. \A m \in Inputs : ended'[m] # 0 => Used(m)' /\ status'[ended'[m]] # "none"
    <3>1. \A m \in Inputs : ended[m] \in Tasks \cup {0}
      BY DEF Typed, TypeOK
    <3> QED
      BY <1>2, <3>1 DEF Doors, Ended, Goes
  <2>2. ASSUME NEW m \in Inputs, NEW t \in Tasks, ended'[m] = t, Open(t)', t \notin revived'
        PROVE  t \in clears' \/ (t \in finishes' /\ "finish" \in todo' /\ InFrame' /\ Free' = {})
    <3>1. ended[m] = t /\ t # 0
      BY <2>2, SMT DEF Tasks, Inputs
    <3>2. status[t] # "none" /\ Open(t) /\ t \notin revived
      BY <2>2, <3>1 DEF Doors, Ended, Goes, Open
    <3>3. t \in clears \/ (t \in finishes /\ "finish" \in todo /\ Free = {})
      BY <3>1, <3>2 DEF Doors, Ended
    <3>4. t \in clears => t \in clears'
      BY <2>2 DEF Open
    <3>5. t \in finishes => t \in finishes' /\ ("finish" \in todo => "finish" \in todo')
      BY <2>2 DEF Open
    <3> QED
      BY <1>1, <3>3, <3>4, <3>5
  <2> QED
    BY <2>1, <2>2 DEF Ended
<1> QED
  BY <1>3, <1>5, <1>6, <1>7, <1>8, <1>9 DEF Doors

-----------------------------------------------------------------------------
(* The doors, one system after the other.                                  *)

\* A frame goes on until its last system.
LEMMA StaysInFrame ==
  ASSUME Typed, Barrier, NEW s \in Systems \ {"order", "dispatch"}, Runs(s),
         todo' \subseteq todo, todo \ {s} \subseteq todo'
  PROVE  InFrame /\ InFrame'
<1>1. InFrame
  BY RunsAt DEF Barrier, Typed, TypeOK
<1>2. "dispatch" \in todo
  BY Earlier DEF Barrier, Typed, TypeOK, Runs
<1> QED
  BY <1>1, <1>2 DEF InFrame

\* What is let in finds no work of a task that has ended.
LEMMA NothingRuns ==
  ASSUME Typed, Doors, LettingIn
  PROVE  /\ \A t \in Tasks : status[t] = "ended" => held[t] = {}
         /\ "finish" \in todo => \A t \in finishes : held[t] = {}
  BY DEF Doors, Settled, Closing

\* The messages of commands are there when an input is taken, or none are.
LEMMA DoorsTaken ==
  ASSUME Typed, Typed', Barrier, Barrier', Doors, InFrame, InFrame',
         NEW n \in Free, n \in Inputs, ~IsText(n), Consumed(n), Free = {n}, Free' = {},
         UNCHANGED <<script, held>>, revived' = revived, \A t \in Tasks : Goes(t),
         "command" \in todo, {"finish", "create", "stop"} \subseteq todo',
         \/ creates' = creates
         \/ /\ creates' = creates \cup {n} /\ OpenRoots = {} /\ status' = status
            /\ ~IsCard(n) /\ "command" \notin todo',
         finishes \subseteq finishes', finishes' \subseteq finishes \cup OpenRoots,
         clears \subseteq clears', clears' \subseteq clears \cup OpenRoots,
         stops' = stops \/ (n \in Halts /\ stops' \subseteq stops \cup OpenRoots),
         \A m \in Inputs : m # n => ended'[m] = ended[m],
         ended'[n] = 0 \/ ended'[n] \in OpenRoots \cap (finishes' \cup clears')
  PROVE  Doors'
<1>1. creates = {} /\ stops = {} /\ waiting' = waiting \ {n} /\ next' = next /\ n \in waiting
  BY DEF Doors, Newcomers, Stops, Consumed, Free
<1>2. /\ \A m \in Inputs : (IsText(m))' = IsText(m) /\ (IsCard(m))' = IsCard(m)
      /\ Halts' = Halts
  BY DEF IsText, IsCard, Halts
<1>3. /\ \A m \in Inputs : Used(m)' <=> Used(m) \/ m = n
      /\ \A m \in Inputs : Used(m)' => m <= n
  <2>1. n < next
    BY <1>1 DEF Barrier, Queue
  <2>2. \A m \in Inputs : Used(m)' <=> Used(m) \/ m = n
    BY <1>1, <2>1 DEF Used
  <2>3. \A m \in Inputs : Used(m) => m < n
    BY <1>1, AfterUsed
  <2>4. \A m \in Inputs : m \in Nat
    BY SMT DEF Inputs
  <2> QED
    BY <2>2, <2>3, <2>4, SMT
<1>4. \A t \in OpenRoots : t \in Tasks /\ Open(t) /\ status[t] # "none" /\ status'[t] # "none"
  BY DEF OpenRoots, Open, Goes
<1>5. Stops'
  <2>1. SUFFICES ASSUME stops' # {} PROVE Stops'
    BY DEF Stops
  <2>2. n \in Halts /\ stops' \subseteq OpenRoots
    BY <1>1, <2>1
  <2> QED
    BY <1>2, <1>3, <1>4, <2>2 DEF Stops
<1>6. Settled' /\ Newcomers'
  <2>1. CASE creates' = {}
    BY <2>1 DEF Settled, Newcomers, LettingIn
  <2>2. CASE creates' # {}
    <3>1. creates' = {n} /\ OpenRoots = {} /\ status' = status /\ ~IsCard(n) /\ "command" \notin todo'
      BY <1>1, <2>2
    <3>2. LettingIn
      BY <3>1 DEF LettingIn
    <3>3. "finish" \in todo
      BY Earlier DEF Barrier, Typed, TypeOK
    <3>4. (\A t \in Tasks : status[t] = "ended" => held[t] = {}) /\ \A t \in finishes : held[t] = {}
      BY <3>2, <3>3, NothingRuns
    <3>5. ~Closing' /\ \A t \in finishes' : held'[t] = {}
      BY <3>1, <3>4 DEF Closing
    <3>6. Newcomers'
      BY <1>3, <3>1 DEF Newcomers
    <3> QED
      BY <3>5, <3>6 DEF Settled
  <2> QED
    BY <2>1, <2>2
<1>7. Finishing' /\ Cleared'
  BY DEF Finishing, Cleared
<1>8. Ended'
  <2>1. \A m \in Inputs : ended'[m] # 0 => Used(m)' /\ status'[ended'[m]] # "none"
    <3>1. \A m \in Inputs : ended[m] \in Tasks \cup {0}
      BY DEF Typed, TypeOK
    <3>2. \A m \in Inputs : ended[m] # 0 => Used(m)' /\ status'[ended[m]] # "none"
      BY <1>3, <3>1 DEF Doors, Ended, Goes
    <3>3. ended'[n] # 0 => Used(n)' /\ status'[ended'[n]] # "none"
      BY <1>3, <1>4
    <3> QED
      BY <3>2, <3>3
  <2>2. ASSUME NEW m \in Inputs, NEW t \in Tasks, ended'[m] = t, Open(t)', t \notin revived'
        PROVE  t \in clears' \/ (t \in finishes' /\ "finish" \in todo' /\ InFrame' /\ Free' = {})
    <3>1. t # 0
      BY SMT DEF Tasks, Inputs
    <3>2. CASE m = n
      BY <2>2, <3>1, <3>2
    <3>3. CASE m # n
      <4>1. ended[m] = t
        BY <2>2, <3>3
      <4>2. status[t] # "none" /\ Open(t) /\ t \notin revived
        BY <2>2, <3>1, <4>1 DEF Doors, Ended, Goes, Open
      <4>3. t \in clears
        BY <4>1, <4>2 DEF Doors, Ended
      <4> QED
        BY <4>3
    <3> QED
      BY <3>2, <3>3
  <2> QED
    BY <2>1, <2>2 DEF Ended
<1> QED
  BY <1>5, <1>6, <1>7, <1>8 DEF Doors

\* A card lets no other input in before it has its effect.
LEMMA DoorsCard ==
  ASSUME Typed, Typed', Barrier, Barrier', Doors, Card, \A t \in Tasks : Goes(t)
  PROVE  Doors'
<1>1. Runs("card") /\ todo' = todo \ {"card"}
  BY CardIs DEF Done
<1>2. UNCHANGED <<script, held, seen, inbox, told, creates, continues, deliveries, answers, clears>>
  BY CardIs
<1>3. /\ InFrame /\ InFrame' /\ "command" \in todo /\ {"finish", "create", "stop"} \subseteq todo'
  BY <1>1, StaysInFrame, RunsAt DEF Systems, Barrier, Typed, TypeOK
<1>4. CASE UNCHANGED <<inputVars, status, due, finishes, stops, histVars>>
  <2>1. LettingIn => /\ \A t \in Tasks : status'[t] = "ended" => held'[t] = {}
                     /\ \A t \in Tasks : held[t] = {} => held'[t] = {}
    BY <1>2, <1>4, NothingRuns
  <2> QED
    BY <1>1, <1>2, <1>3, <1>4, <2>1, DoorsInside DEF inputVars, histVars
<1>5. CASE ~ UNCHANGED <<inputVars, status, due, finishes, stops, histVars>>
  <2>1. PICK n \in Free, t \in Tasks \cup {0}, ok \in BOOLEAN :
                 /\ IsCard(n) /\ n \in Inputs /\ n \in waiting /\ Consumed(n)
                 /\ ok => t \in Tasks /\ Open(t)
                 /\ finishes' = finishes \/ (ok /\ finishes' = finishes \cup {t})
                 /\ stops' = stops \/ (ok /\ n \in Halts /\ stops' = stops \cup {t})
                 /\ \A m \in Inputs : m # n => ended'[m] = ended[m]
                 /\ ended'[n] = 0 \/ (ok /\ ended'[n] = t /\ t \in finishes')
                 /\ UNCHANGED <<lost, revived>>
    BY <1>5, CardIs
  <2>2. ~IsText(n)
    BY <2>1 DEF IsCard, IsText, Cards
  <2>3. Free = {n} /\ Free' = {}
    BY <1>1, <1>2, <2>1, <2>2, BarrierTaken DEF Barrier
  <2>4. ok => t \in OpenRoots
    BY <2>1 DEF OpenRoots
  <2>5. /\ finishes \subseteq finishes' /\ finishes' \subseteq finishes \cup OpenRoots
        /\ stops' = stops \/ (n \in Halts /\ stops' \subseteq stops \cup OpenRoots)
        /\ ended'[n] = 0 \/ ended'[n] \in OpenRoots \cap (finishes' \cup clears')
    BY <2>1, <2>4
  <2> QED
    BY <1>2, <1>3, <2>1, <2>2, <2>3, <2>5, DoorsTaken
<1> QED
  BY <1>4, <1>5

\* A command lets no other input in before it has its effect.
LEMMA DoorsCommand ==
  ASSUME Typed, Typed', Barrier, Barrier', Doors, Command, \A t \in Tasks : Goes(t)
  PROVE  Doors'
<1>1. Runs("command") /\ todo' = todo \ {"command"}
  BY CommandIs DEF Done
<1>2. UNCHANGED <<script, status, held>>
  BY CommandIs DEF taskVars
<1>3. /\ InFrame /\ InFrame' /\ "command" \in todo /\ {"finish", "create", "stop"} \subseteq todo'
      /\ "command" \notin todo'
  BY <1>1, StaysInFrame, RunsAt DEF Systems, Barrier, Typed, TypeOK, Runs
<1>4. CASE UNCHANGED <<inputVars, creates, finishes, stops, clears, histVars>>
  <2>1. LettingIn => /\ \A t \in Tasks : status'[t] = "ended" => held'[t] = {}
                     /\ \A t \in Tasks : held[t] = {} => held'[t] = {}
    BY <1>2, NothingRuns
  <2> QED
    BY <1>1, <1>2, <1>3, <1>4, <2>1, DoorsInside DEF inputVars, histVars
<1>5. CASE ~ UNCHANGED <<inputVars, creates, finishes, stops, clears, histVars>>
  <2>1. PICK n \in Free :
                 /\ ~IsText(n) /\ ~IsCard(n) /\ n \in Inputs /\ n \in waiting /\ Consumed(n)
                 /\ creates' = creates \/ (OpenRoots = {} /\ creates' = creates \cup {n})
                 /\ finishes \subseteq finishes' /\ finishes' \subseteq finishes \cup OpenRoots
                 /\ clears \subseteq clears' /\ clears' \subseteq clears \cup OpenRoots
                 /\ stops' = stops \/ (n \in Halts /\ stops' \subseteq stops \cup OpenRoots)
                 /\ \A m \in Inputs : m # n => ended'[m] = ended[m]
                 /\ ended'[n] = 0 \/ ended'[n] \in OpenRoots \cap (finishes' \cup clears')
                 /\ UNCHANGED <<lost, revived>>
    BY <1>5, CommandIs
  <2>2. Free = {n} /\ Free' = {}
    BY <1>1, <1>2, <2>1, BarrierTaken DEF Barrier
  <2> QED
    BY <1>2, <1>3, <2>1, <2>2, DoorsTaken
<1> QED
  BY <1>4, <1>5

\* A text is let in when nothing of an ended task runs.
LEMMA DoorsRoute ==
  ASSUME Typed, Typed', Barrier, Barrier', Doors, Route, \A t \in Tasks : Goes(t)
  PROVE  Doors'
<1>1. Runs("route") /\ UNCHANGED <<script, held, finishes, stops, clears, todo, ended, revived>>
  BY RouteIs DEF histVars
<1>2. PICK n \in FreeTexts :
        /\ n \in Inputs /\ n \in waiting /\ Consumed(n)
        /\ \A u \in Tasks : \/ status'[u] = status[u]
                            \/ status[u] \in {"user", "question"} /\ status'[u] = "working"
        /\ creates' \subseteq creates \cup {n} /\ creates \subseteq creates'
  BY RouteIs
<1>3. InFrame /\ InFrame' /\ "create" \in todo /\ "command" \notin todo
  BY <1>1, StaysInFrame, RunsAt DEF Systems, Barrier, Typed, TypeOK
<1>4. n \in Free /\ IsText(n) /\ ~IsCard(n)
  BY DEF FreeTexts, IsText, IsCard, Cards
<1>5. /\ waiting' = waiting \ {n} /\ UNCHANGED <<next, blocked>> /\ Free' = Free \ {n}
  BY <1>2 DEF Consumed, Free
<1>6. /\ \A m \in Inputs : (IsText(m))' = IsText(m) /\ (IsCard(m))' = IsCard(m)
      /\ \A m \in Inputs : Used(m) => Used(m)'
      /\ Used(n)' /\ creates \subseteq Inputs /\ Free \subseteq Inputs
  BY <1>1, <1>2, <1>5 DEF IsText, IsCard, Used, Barrier, Queue, Typed, TypeOK, Free
<1>7. stops = {}
  BY <1>4 DEF Doors, Stops
<1>8. Stops'
  BY <1>1, <1>7 DEF Stops
<1>9. LettingIn
  BY <1>3, <1>4 DEF LettingIn
<1>10. Settled'
  <2>1. ~Closing'
    BY <1>1, <1>2, <1>9, NothingRuns DEF Closing
  <2> QED
    BY <1>1, <1>9, <2>1, NothingRuns DEF Settled
<1>11. Newcomers'
  <2>1. \A m \in creates : Used(m)' /\ IsText(m)
    BY <1>4, <1>6 DEF Doors, Newcomers
  <2>2. \A m \in creates' : Used(m)' /\ IsText(m)'
    BY <1>2, <1>4, <1>6, <2>1
  <2> QED
    BY <1>1, <1>3, <2>2 DEF Newcomers
<1>12. Finishing'
  BY <1>1, <1>3 DEF Doors, Finishing
<1>13. Cleared'
  <2>1. Clearing' => Clearing
    BY <1>1 DEF Clearing, Goes, Typed, TypeOK, IInv, Fresh
  <2> QED
    BY <1>3, <1>4, <2>1 DEF Doors, Cleared
<1>14. Ended'
  <2>1. \A m \in Inputs : ended'[m] # 0 => Used(m)' /\ status'[ended'[m]] # "none"
    <3>1. \A m \in Inputs : ended[m] \in Tasks \cup {0}
      BY DEF Typed, TypeOK
    <3> QED
      BY <1>1, <1>6, <3>1 DEF Doors, Ended, Goes
  <2>2. ASSUME NEW m \in Inputs, NEW t \in Tasks, ended'[m] = t, Open(t)', t \notin revived'
        PROVE  t \in clears'
    <3>1. t # 0
      BY SMT DEF Tasks, Inputs
    <3>2. ended[m] = t /\ t \notin revived
      BY <1>1, <2>2
    <3>3. Open(t)
      BY <2>2, <3>1, <3>2 DEF Doors, Ended, Goes, Open
    <3> QED
      BY <1>1, <1>4, <3>2, <3>3 DEF Doors, Ended
  <2> QED
    BY <2>1, <2>2 DEF Ended
<1> QED
  BY <1>8, <1>10, <1>11, <1>12, <1>13, <1>14 DEF Doors

\* The marks keep what follows a command out.
LEMMA DoorsOrder ==
  ASSUME Typed, Typed', Barrier, Barrier', Doors, Order
  PROVE  Doors'
<1>1. /\ Runs("order") /\ todo' = todo \ {"order"}
      /\ UNCHANGED <<script, next, waiting, status, held, creates, finishes, stops, clears, ended, revived>>
  BY DEF Order, Done, taskVars, mailVars, histVars
<1>2. ~InFrame /\ Free' = {n \in waiting : ~HeldBack(n)} /\ waiting \subseteq Inputs
  BY BarrierOrder DEF Barrier, Typed, TypeOK
<1>3. stops = {} /\ creates = {} /\ \A t \in finishes : held[t] = {}
  BY <1>2 DEF Doors, Stops, Newcomers, Finishing
<1>4. "finish" \in todo'
  BY <1>1, Earlier DEF Barrier, Typed, TypeOK, Runs
<1>5. \A m \in Inputs : (IsCard(m))' = IsCard(m) /\ Used(m)' = Used(m)
  BY <1>1 DEF IsCard, Used
<1>6. \A n \in Free' : Closing \/ Clearing => IsCard(n)
  BY <1>2 DEF HeldBack
<1>7. Closing' = Closing /\ Clearing' = Clearing
  BY <1>1 DEF Closing, Clearing
<1>8. Free' \subseteq Inputs
  BY <1>2
<1>9. Stops' /\ Newcomers'
  BY <1>1, <1>3 DEF Stops, Newcomers
<1>10. Settled' /\ Cleared'
  BY <1>1, <1>3, <1>5, <1>6, <1>7, <1>8 DEF Settled, LettingIn, Cleared
<1>11. Finishing'
  BY <1>1, <1>3, <1>4 DEF Finishing
<1>12. Ended'
  BY <1>1, <1>2, <1>5 DEF Doors, Ended, Open
<1> QED
  BY <1>9, <1>10, <1>11, <1>12 DEF Doors

\* At the end of a frame every command has had its effect.
LEMMA DoorsDispatch ==
  ASSUME Typed, Typed', Barrier, Barrier', Doors, Dispatch, \A t \in Tasks : Goes(t), revived \subseteq revived'
  PROVE  Doors'
<1>1. /\ Runs("dispatch") /\ todo' = todo \ {"dispatch"}
      /\ UNCHANGED <<next, waiting, creates, finishes, stops, clears, ended>>
  BY DEF Dispatch, Done, inputVars
<1>2. todo = {"dispatch"}
  BY <1>1, RunsAt DEF Barrier, Typed, TypeOK
<1>3. InFrame /\ ~InFrame'
  BY <1>1, <1>2 DEF InFrame
<1>4. stops = {} /\ creates = {} /\ finishes = {}
  BY <1>2, <1>3 DEF Doors, Stops, Newcomers, Finishing
<1>5. Stops' /\ Settled' /\ Newcomers' /\ Finishing' /\ Cleared'
  BY <1>1, <1>3, <1>4 DEF Stops, Settled, LettingIn, Newcomers, Finishing, Cleared
<1>6. Ended'
  <2>1. \A m \in Inputs : ended'[m] # 0 => Used(m)' /\ status'[ended'[m]] # "none"
    <3>1. \A m \in Inputs : ended[m] \in Tasks \cup {0}
      BY DEF Typed, TypeOK
    <3> QED
      BY <1>1, <3>1 DEF Doors, Ended, Goes, Used
  <2>2. ASSUME NEW m \in Inputs, NEW t \in Tasks, ended'[m] = t, Open(t)', t \notin revived'
        PROVE  t \in clears'
    <3>1. t # 0
      BY SMT DEF Tasks, Inputs
    <3>2. ended[m] = t /\ t \notin revived
      BY <1>1, <2>2
    <3>3. Open(t)
      BY <2>2, <3>1, <3>2 DEF Doors, Ended, Goes, Open
    <3> QED
      BY <1>1, <1>4, <3>2, <3>3 DEF Doors, Ended
  <2> QED
    BY <2>1, <2>2 DEF Ended
<1> QED
  BY <1>5, <1>6 DEF Doors

\* Between frames nothing is let in.
LEMMA DoorsBetween ==
  ASSUME Typed, Typed', Barrier, Doors, [Next]_vars,
         Arrive \/ Tick \/ \E t \in Tasks : ToolReturns(t) \/ Released(t) \/ ShellExits(t) \/ IdleEnds(t)
  PROVE  Doors'
<1>1. \A n \in Inputs : Used(n) => Used(n)'
  BY InputsGo
<1>2. todo = {} /\ ~InFrame'
  BY DEF Arrive, Tick, ToolReturns, Released, ShellExits, IdleEnds, InFrame, Systems
<1>3. UNCHANGED <<script, status, creates, stops, clears, ended, revived>>
  BY DEF Arrive, Tick, ToolReturns, Released, ShellExits, IdleEnds, inputVars, taskVars, mailVars, histVars
<1>4. CASE Arrive \/ Tick
  <2>1. UNCHANGED <<held, finishes>>
    BY <1>4 DEF Arrive, Tick, taskVars, mailVars
  <2> QED
    BY <1>1, <1>2, <1>3, <2>1, DoorsOutside
<1>5. CASE \E t \in Tasks : ToolReturns(t) \/ Released(t) \/ ShellExits(t)
  <2>1. PICK t \in Tasks : ToolReturns(t) \/ Released(t) \/ ShellExits(t)
    BY <1>5
  <2>2. finishes' = finishes
    BY <2>1 DEF ToolReturns, Released, ShellExits, mailVars
  <2>3. held[t] # {} /\ \A u \in Tasks : u # t => held'[u] = held[u]
    BY <2>1 DEF ToolReturns, Released, ShellExits, Holds, Typed, TypeOK
  <2> QED
    BY <1>1, <1>2, <1>3, <2>2, <2>3, DoorsOutside
<1>6. CASE \E t \in Tasks : IdleEnds(t)
  <2>1. PICK t \in Tasks : IdleEnds(t)
    BY <1>6
  <2>2. held' = held /\ held[t] = {} /\ finishes' = finishes \cup {t}
    BY <2>1 DEF IdleEnds, taskVars
  <2> QED
    BY <1>1, <1>2, <1>3, <2>2, DoorsOutside
<1> QED
  BY <1>4, <1>5, <1>6

\* What the lemma for a step inside a frame needs of the order of the systems.
LEMMA InsideIs ==
  ASSUME Typed, Barrier,
         NEW s \in {"finish", "clear", "create", "ingest", "wake", "continue", "llm", "stop", "terminate",
                   "route"},
         Done(s) \/ (Runs(s) /\ todo' = todo)
  PROVE  /\ InFrame /\ InFrame' /\ todo' \subseteq todo /\ todo \ {s} \subseteq todo'
         /\ s \notin {"finish", "clear", "create", "route"} => Free = {}
<1>1. Runs(s) /\ todo' \subseteq todo /\ todo \ {s} \subseteq todo'
  BY DEF Done
<1>2. InFrame /\ InFrame'
  BY <1>1, StaysInFrame DEF Systems
<1>3. s \notin {"finish", "clear", "create", "route"} => "route" \notin todo
  <2>1. s \in {"llm", "ingest"} => "route" \notin todo
    BY <1>1, RunsAt DEF Barrier, Typed, TypeOK
  <2>2. s \in {"wake", "stop", "terminate"} => "llm" \notin todo
    BY <1>1 DEF Runs, Before
  <2>3. s = "continue" => "wake" \notin todo
    BY <1>1 DEF Runs, Before
  <2>4. ("wake" \notin todo => "llm" \notin todo) /\ ("llm" \notin todo => "ingest" \notin todo)
        /\ ("ingest" \notin todo => "route" \notin todo)
    BY Earlier DEF Barrier, Typed, TypeOK
  <2> QED
    BY <2>1, <2>2, <2>3, <2>4
<1> QED
  BY <1>1, <1>2, <1>3 DEF Barrier, Emptied

\* The systems that move texts take no input.
LEMMA DoorsMails ==
  ASSUME Typed, Typed', Barrier, Doors, revived \subseteq revived', \A t \in Tasks : Goes(t),
         RouteEnds \/ Create \/ Ingest \/ Wake \/ Continue \/ ContinueEnds
  PROVE  Doors'
<1>1. CASE RouteEnds
  <2>1. /\ Done("route")
        /\ UNCHANGED <<script, next, waiting, blocked, status, held, creates, finishes, stops, clears, ended>>
    BY <1>1 DEF RouteEnds, inputVars, taskVars, mailVars, histVars
  <2>2. InFrame /\ InFrame' /\ todo' \subseteq todo /\ todo \ {"route"} \subseteq todo'
    BY <2>1, InsideIs
  <2> QED
    BY <2>1, <2>2, NothingRuns, DoorsInside
<1>2. CASE Create
  <2>1. /\ Done("create")
        /\ UNCHANGED <<script, next, blocked, held, finishes, stops, clears, ended>>
    BY <1>2 DEF Create, histVars
  <2>2. InFrame /\ InFrame' /\ todo' \subseteq todo /\ todo \ {"create"} \subseteq todo'
    BY <2>1, InsideIs
  <2>3. creates # {} => LettingIn /\ ~Closing /\ OpenRoots = {}
    BY DEF Doors, Settled, LettingIn, Typed, IInv, Quiet, Owner, OpenRoots
  <2>4. creates' = {} /\ waiting' = waiting
    BY <1>2, <2>3 DEF Create
  <2>5. \A t \in Tasks : status'[t] = "ended" => status[t] = "ended"
    BY <1>2, <2>3 DEF Create
  <2> QED
    BY <2>1, <2>2, <2>4, <2>5, NothingRuns, DoorsInside
<1>3. CASE Ingest
  <2>1. /\ Done("ingest")
        /\ UNCHANGED <<script, next, waiting, blocked, status, held, creates, finishes, stops, clears, ended>>
    BY <1>3 DEF Ingest, inputVars, histVars
  <2>2. InFrame /\ InFrame' /\ todo' \subseteq todo /\ todo \ {"ingest"} \subseteq todo'
    BY <2>1, InsideIs
  <2> QED
    BY <2>1, <2>2, NothingRuns, DoorsInside
<1>4. CASE Wake
  <2>1. /\ Done("wake")
        /\ UNCHANGED <<script, next, waiting, blocked, status, held, creates, finishes, stops, clears, ended>>
    BY <1>4 DEF Wake, inputVars, histVars
  <2>2. InFrame /\ InFrame' /\ todo' \subseteq todo /\ todo \ {"wake"} \subseteq todo'
    BY <2>1, InsideIs
  <2> QED
    BY <2>1, <2>2, NothingRuns, DoorsInside
<1>5. CASE Continue
  <2>1. /\ Runs("continue") /\ todo' = todo
        /\ UNCHANGED <<script, next, waiting, blocked, held, creates, finishes, stops, clears, ended>>
    BY <1>5 DEF Continue, inputVars
  <2>2. InFrame /\ InFrame' /\ todo' \subseteq todo /\ todo \ {"continue"} \subseteq todo'
    BY <2>1, InsideIs
  <2>3. \A t \in Tasks : status'[t] = "ended" => status[t] = "ended"
    BY <1>5 DEF Continue, Typed, TypeOK
  <2> QED
    BY <2>1, <2>2, <2>3, NothingRuns, DoorsInside
<1>6. CASE ContinueEnds
  <2>1. /\ Done("continue")
        /\ UNCHANGED <<script, next, waiting, blocked, status, held, creates, finishes, stops, clears, ended>>
    BY <1>6 DEF ContinueEnds, inputVars, taskVars, mailVars, histVars
  <2>2. InFrame /\ InFrame' /\ todo' \subseteq todo /\ todo \ {"continue"} \subseteq todo'
    BY <2>1, InsideIs
  <2> QED
    BY <2>1, <2>2, NothingRuns, DoorsInside
<1> QED
  BY <1>1, <1>2, <1>3, <1>4, <1>5, <1>6

\* The systems that end, stop or clear a task let none work again.
LEMMA DoorsTasks ==
  ASSUME Typed, Typed', Barrier, Doors, revived \subseteq revived', \A t \in Tasks : Goes(t),
         Finish \/ Clear \/ Llm \/ Stop \/ Terminate
  PROVE  Doors'
<1>0. \A t \in Tasks : held[t] \in SUBSET Work
  BY DEF Typed, TypeOK
<1>1. CASE Finish
  <2>1. /\ Done("finish") /\ finishes' = {}
        /\ UNCHANGED <<script, next, waiting, blocked, creates, stops, clears, ended>>
    BY <1>1 DEF Finish, inputVars, histVars
  <2>2. InFrame /\ InFrame' /\ todo' \subseteq todo /\ todo \ {"finish"} \subseteq todo'
    BY <2>1, InsideIs
  <2>3. "finish" \in todo /\ "finish" \notin todo'
    BY <2>1 DEF Done, Runs
  <2>4. finishes \subseteq Tasks
    BY DEF Typed, TypeOK
  <2>5. \A t \in Tasks : /\ status'[t] = IF t \in finishes /\ status[t] # "gone" THEN "ended" ELSE status[t]
                         /\ held'[t] = IF t \in finishes /\ status[t] # "gone" THEN Cancelled(held[t]) ELSE held[t]
    BY <1>1 DEF Finish
  <2>6. \A t \in finishes : status'[t] \in {"ended", "gone"}
    BY <2>4, <2>5
  <2>7. LettingIn => /\ \A t \in Tasks : status'[t] = "ended" => held'[t] = {}
                     /\ \A t \in Tasks : held[t] = {} => held'[t] = {}
    BY <2>3, <2>5, NothingRuns, CancelledIs DEF Work
  <2> QED
    BY <2>1, <2>2, <2>3, <2>6, <2>7, DoorsInside
<1>2. CASE Clear
  <2>1. /\ Done("clear")
        /\ UNCHANGED <<script, next, waiting, blocked, creates, stops, finishes, ended>>
    BY <1>2 DEF Clear, inputVars, histVars
  <2>2. InFrame /\ InFrame' /\ todo' \subseteq todo /\ todo \ {"clear"} \subseteq todo'
    BY <2>1, InsideIs
  <2>3. PICK gone \in SUBSET clears :
          /\ clears' = clears \ gone
          /\ status' = [t \in Tasks |-> IF t \in gone THEN "gone" ELSE status[t]]
          /\ held' = [t \in Tasks |-> IF t \in gone THEN {}
                                      ELSE IF t \in clears THEN Cancelled(held[t]) ELSE held[t]]
    BY <1>2 DEF Clear
  <2>4. clears \subseteq Tasks
    BY DEF Typed, TypeOK
  <2>5. clears' \subseteq clears /\ \A t \in clears \ clears' : status'[t] = "gone"
    BY <2>3, <2>4
  <2>6. \A t \in Tasks : held[t] = {} => held'[t] = {}
    BY <2>3, CancelledIs DEF Work
  <2>7. \A t \in Tasks : status'[t] = "ended" => status[t] = "ended"
    BY <2>3
  <2> QED
    BY <2>1, <2>2, <2>5, <2>6, <2>7, NothingRuns, DoorsInside
<1>3. CASE Llm
  <2>1. /\ Done("llm")
        /\ UNCHANGED <<script, next, waiting, blocked, creates, stops, finishes, clears, ended>>
    BY <1>3 DEF Llm, inputVars, mailVars, histVars
  <2>2. InFrame /\ InFrame' /\ todo' \subseteq todo /\ todo \ {"llm"} \subseteq todo' /\ Free = {}
    BY <2>1, InsideIs
  <2>3. LettingIn => \A t \in Tasks : status[t] # "working"
    BY <2>2 DEF LettingIn, Typed, IInv, Quiet, Owner, Open
  <2>4. LettingIn => UNCHANGED <<status, held>>
    BY <1>3, <2>3 DEF Llm, Nothing
  <2>5. LettingIn => /\ \A t \in Tasks : status'[t] = "ended" => held'[t] = {}
                     /\ \A t \in Tasks : held[t] = {} => held'[t] = {}
    BY <2>4, NothingRuns
  <2> QED
    BY <2>1, <2>2, <2>5, DoorsInside
<1>4. CASE Stop
  <2>1. /\ Done("stop") /\ stops' = {}
        /\ UNCHANGED <<script, next, waiting, blocked, creates, finishes, clears, ended>>
    BY <1>4 DEF Stop, inputVars, histVars
  <2>2. InFrame /\ InFrame' /\ todo' \subseteq todo /\ todo \ {"stop"} \subseteq todo'
    BY <2>1, InsideIs
  <2>3. \A t \in Tasks : /\ status'[t] = "ended" => status[t] = "ended"
                         /\ held'[t] = held[t] \/ held'[t] = Cancelled(held[t])
    BY <1>4 DEF Stop
  <2>4. \A t \in Tasks : held[t] = {} => held'[t] = {}
    BY <2>3, CancelledIs DEF Work
  <2> QED
    BY <2>1, <2>2, <2>3, <2>4, NothingRuns, DoorsInside
<1>5. CASE Terminate
  <2>1. /\ Done("terminate")
        /\ UNCHANGED <<script, next, waiting, blocked, status, creates, stops, finishes, clears, ended>>
    BY <1>5 DEF Terminate, inputVars, mailVars, histVars
  <2>2. InFrame /\ InFrame' /\ todo' \subseteq todo /\ todo \ {"terminate"} \subseteq todo'
    BY <2>1, InsideIs
  <2>3. \A t \in Tasks :
          \/ held'[t] = held[t] \/ held'[t] = Cancelled(held[t]) \/ held'[t] = Cancelled(held[t] \ {"shell"})
    BY <1>5 DEF Terminate
  <2>4. \A t \in Tasks : held[t] = {} => held[t] \ {"shell"} = {}
    OBVIOUS
  <2>5. \A t \in Tasks : held[t] = {} => held'[t] = {}
    BY <2>3, <2>4, CancelledIs DEF Work
  <2> QED
    BY <2>1, <2>2, <2>5, NothingRuns, DoorsInside
<1> QED
  BY <1>1, <1>2, <1>3, <1>4, <1>5

\* Every step keeps the doors.
LEMMA DoorsStep ==
  ASSUME Typed, Typed', Barrier, Barrier', Doors, [Next]_vars
  PROVE  Doors'
<1>1. revived \subseteq revived' /\ \A t \in Tasks : Goes(t)
  BY TasksGo
<1>2. CASE UNCHANGED vars
  <2>1. UNCHANGED <<script, next, waiting, blocked, status, held, creates, finishes, stops, clears, todo,
                    ended, revived>>
    BY <1>2 DEF vars, inputVars, taskVars, mailVars, histVars
  <2>2. CASE InFrame
    <3>1. InFrame'
      BY <2>1, <2>2 DEF InFrame
    <3> QED
      BY <1>1, <2>1, <2>2, <3>1, NothingRuns, DoorsInside
  <2>3. CASE ~InFrame
    <3>1. ~InFrame' /\ Free' = Free /\ Closing' = Closing /\ stops = {} /\ creates = {}
      BY <2>1, <2>3 DEF InFrame, Free, Closing, Doors, Stops, Newcomers
    <3>2. Stops' /\ Settled' /\ Newcomers' /\ Finishing' /\ Cleared'
      BY <2>1, <2>3, <3>1 DEF Doors, Stops, Settled, LettingIn, Newcomers, Finishing, Cleared
    <3>3. Ended'
      BY <2>1, <2>3 DEF Doors, Ended, Open, Used
    <3> QED
      BY <3>2, <3>3 DEF Doors
  <2> QED
    BY <2>2, <2>3
<1>3. CASE Arrive \/ Tick \/ \E t \in Tasks : ToolReturns(t) \/ Released(t) \/ ShellExits(t) \/ IdleEnds(t)
  BY <1>3, DoorsBetween
<1>4. CASE Frame
  BY <1>1, <1>4, DoorsOrder, DoorsCard, DoorsCommand, DoorsRoute, DoorsMails, DoorsTasks, DoorsDispatch DEF Frame
<1> QED
  BY <1>2, <1>3, <1>4 DEF Next

-----------------------------------------------------------------------------
(* What a task has read and has still to read.                             *)

Items(t) == UNION {Range(c.items) : c \in {d \in continues : d.task = t}}
Delivered(t) == {d.item : d \in {e \in deliveries : e.task = t}}
Texts(t) == Read(t) \cup Items(t) \cup Range(inbox[t]) \cup Delivered(t)

\* An idle task has no request, and its inbox is of the time before a stop.
Left ==
  \A t \in Tasks : status[t] = "user" =>
    /\ "llm" \notin held[t]
    /\ "llm" \in todo \/ "wake" \notin todo =>
         \A m \in Range(inbox[t]) : \E s \in Halts : Used(s) /\ m <= s

\* An input for the inbox is for a task that works, and is there by the time
\* its turn may end.
Deliveries ==
  \A d \in deliveries :
    /\ status[d.task] \in {"working", "ended", "gone"}
    /\ "ingest" \notin todo => /\ "tool" \notin held[d.task] /\ d.task \notin stops
                               /\ "llm" \in todo => "llm" \notin held[d.task]

\* A task is continued once in a frame, and has no request until then.
Continues ==
  /\ continues # {} => "continue" \in todo /\ "command" \notin todo
  /\ \A c, d \in continues : c.task = d.task => c = d
  /\ \A c \in continues : "wake" \in todo =>
       stops = {} /\ status[c.task] \in {"working", "ended", "gone"} /\ "llm" \notin held[c.task]

Turns == Left /\ Deliveries /\ Continues

NoneYet == \A t \in Tasks : status[t] = "none" => Texts(t) = {} /\ t \notin revived

Since ==
  \A t \in Tasks : \A n \in Texts(t) :
    Used(n) /\ n >= t /\ (t \notin revived => \A m \in 1..n : ended[m] # t)

\* Texts are in order along their way.
Lines ==
  \A t \in Tasks :
    /\ Ordered(Halts, told[t]) /\ Ordered(Halts, inbox[t])
    /\ \A c \in continues : c.task = t => Ordered(Halts, c.items)
    /\ Follows(Halts, Read(t), Items(t) \cup Range(inbox[t]) \cup Delivered(t))
    /\ Follows(Halts, Items(t), Range(inbox[t]) \cup Delivered(t))
    /\ Follows(Halts, Range(inbox[t]), Delivered(t))

Reading == NoneYet /\ Since /\ Lines

\* What is on its way to a task are inputs.
LEMMA TextsAre ==
  ASSUME TypeOK, NEW t \in Tasks
  PROVE  /\ Texts(t) \subseteq Inputs
         /\ \A n : n \in Items(t) <=> \E c \in continues : c.task = t /\ n \in Range(c.items)
         /\ \A n : n \in Delivered(t) <=> \E d \in deliveries : d.task = t /\ d.item = n
<1>1. \A n : n \in Items(t) <=> \E c \in continues : c.task = t /\ n \in Range(c.items)
  BY DEF Items
<1>2. \A n : n \in Delivered(t) <=> \E d \in deliveries : d.task = t /\ d.item = n
  BY DEF Delivered
<1>3. told[t] \in Seq(Inputs) /\ inbox[t] \in Seq(Inputs)
  BY DEF TypeOK
<1>4. Read(t) \subseteq Inputs /\ Range(inbox[t]) \subseteq Inputs
  BY <1>3, Concat DEF Read
<1>5. \A c \in continues : Range(c.items) \subseteq Inputs
  <2> TAKE c \in continues
  <2>1. c.items \in Seq(Inputs)
    BY DEF TypeOK
  <2> QED
    BY <2>1, Concat
<1>6. Delivered(t) \subseteq Inputs
  BY <1>2 DEF TypeOK
<1>7. Items(t) \subseteq Inputs
  BY <1>1, <1>5
<1> QED
  BY <1>1, <1>2, <1>4, <1>6, <1>7 DEF Texts

\* Nothing moves.
LEMMA LinesKept ==
  ASSUME Lines, Halts' = Halts, UNCHANGED <<told, inbox, continues, deliveries>>
  PROVE  Lines'
<1>1. ASSUME NEW t \in Tasks
      PROVE  Items(t)' = Items(t) /\ Delivered(t)' = Delivered(t) /\ Read(t)' = Read(t) /\ Texts(t)' = Texts(t)
  BY DEF Items, Delivered, Read, Texts
<1> QED
  BY <1>1 DEF Lines

\* For a step that moves texts.
LEMMA LinesMoved ==
  ASSUME Halts' = Halts,
         \A t \in Tasks :
           /\ Ordered(Halts, told'[t]) /\ Ordered(Halts, inbox'[t])
           /\ \A c \in continues' : c.task = t => Ordered(Halts, c.items)
           /\ Follows(Halts, Read(t)', Items(t)' \cup Range(inbox'[t]) \cup Delivered(t)')
           /\ Follows(Halts, Items(t)', Range(inbox'[t]) \cup Delivered(t)')
           /\ Follows(Halts, Range(inbox'[t]), Delivered(t)')
  PROVE  Lines'
  BY DEF Lines

\* Texts that are moved on, or dropped, or nothing at all.
LEMMA SinceKept ==
  ASSUME Typed, Barrier, Since,
         \A t \in Tasks : Texts(t)' \subseteq Texts(t),
         \A n \in Inputs : Used(n) => Used(n)',
         revived \subseteq revived', \A m \in Inputs : ended'[m] = ended[m] \/ m \in waiting
  PROVE  Since'
<1>1. SUFFICES ASSUME NEW t \in Tasks, NEW n \in Texts(t)'
               PROVE  Used(n)' /\ n >= t /\ (t \notin revived' => \A m \in 1..n : ended'[m] # t)
  BY DEF Since
<1>2. n \in Texts(t) /\ n \in Inputs
  BY TextsAre DEF Typed
<1>3. Used(n) /\ n >= t /\ (t \notin revived => \A m \in 1..n : ended[m] # t)
  BY <1>2 DEF Since
<1>4. \A m \in 1..n : m \in Inputs /\ m \notin waiting
  <2> TAKE m \in 1..n
  <2>1. m \in Inputs /\ m \in Nat /\ n \in Nat /\ m <= n
    BY <1>2, ConversationAssumption, SMT DEF Inputs, ConversationAssumption
  <2>2. m \in waiting => n < m
    BY <1>2, <1>3, AfterUsed
  <2> QED
    BY <2>1, <2>2, SMT
<1> QED
  BY <1>2, <1>3, <1>4

\* A task that does not exist has no texts.
LEMMA NoneYetKept ==
  ASSUME NoneYet, \A t \in Tasks : Goes(t), \A t \in Tasks : Texts(t)' \subseteq Texts(t),
         \A t \in Tasks : t \in revived' /\ t \notin revived => status[t] # "none"
  PROVE  NoneYet'
  BY DEF NoneYet, Goes

\* A step that moves no text keeps what was read.
LEMMA ReadingKept ==
  ASSUME Typed, Barrier, Reading, [Next]_vars,
         UNCHANGED <<told, inbox, continues, deliveries, revived>>,
         \A m \in Inputs : ended'[m] = ended[m] \/ m \in waiting
  PROVE  Reading'
<1>1. ASSUME NEW t \in Tasks PROVE Texts(t)' \subseteq Texts(t)
  BY DEF Items, Delivered, Read, Texts
<1>2. Lines'
  BY InputsGo, LinesKept DEF Reading
<1>3. Since'
  BY <1>1, InputsGo, SinceKept DEF Reading
<1>4. NoneYet'
  BY <1>1, TasksGo, NoneYetKept DEF Reading
<1> QED
  BY <1>2, <1>3, <1>4 DEF Reading

\* A step that moves no text and starts no work keeps the turns.
LEMMA TurnsKept ==
  ASSUME Typed, Turns, Halts' = Halts, \A n \in Inputs : Used(n) => Used(n)',
         UNCHANGED <<deliveries, continues>>,
         \A t \in Tasks :
           /\ status'[t] = "user" => status[t] = "user" /\ inbox'[t] = inbox[t]
           /\ status[t] \in {"working", "ended", "gone"} => status'[t] \in {"working", "ended", "gone"}
           /\ "llm" \in held'[t] => "llm" \in held[t]
           /\ "tool" \in held'[t] => "tool" \in held[t],
         "llm" \in todo' \/ "wake" \notin todo' => "llm" \in todo \/ "wake" \notin todo,
         "ingest" \notin todo' =>
            "ingest" \notin todo /\ stops' \subseteq stops /\ ("llm" \in todo' => "llm" \in todo),
         continues # {} =>
            /\ "continue" \in todo' /\ "command" \notin todo' /\ stops' \subseteq stops
            /\ "wake" \in todo' => "wake" \in todo
  PROVE  Turns'
<1>1. Halts \subseteq Inputs /\ (\A d \in deliveries : d.task \in Tasks) /\ \A c \in continues : c.task \in Tasks
  BY HaltsAre DEF Typed, TypeOK
<1>2. Left'
  BY <1>1 DEF Turns, Left
<1>3. Deliveries'
  BY <1>1 DEF Turns, Deliveries
<1>4. Continues'
  BY <1>1 DEF Turns, Continues
<1> QED
  BY <1>2, <1>3, <1>4 DEF Turns

-----------------------------------------------------------------------------
(* What a step leaves on its way.                                          *)

\* The systems that move no text.
LEMMA ReadingStays ==
  ASSUME Typed, Barrier, Reading, [Next]_vars,
         \/ UNCHANGED vars
         \/ Arrive \/ Tick \/ \E t \in Tasks : ToolReturns(t) \/ Released(t) \/ ShellExits(t) \/ IdleEnds(t)
         \/ Order \/ Card \/ Command \/ Finish \/ Clear \/ RouteEnds \/ ContinueEnds \/ Llm \/ Stop \/ Terminate
  PROVE  Reading'
<1>1. CASE Card
  <2>1. UNCHANGED <<inbox, told, continues, deliveries, revived>>
    BY <1>1, CardIs DEF histVars
  <2>2. \A m \in Inputs : ended'[m] = ended[m] \/ m \in waiting
    BY <1>1, CardIs DEF histVars
  <2> QED
    BY <2>1, <2>2, ReadingKept
<1>2. CASE Command
  <2>1. UNCHANGED <<inbox, told, continues, deliveries, revived>>
    BY <1>2, CommandIs DEF taskVars, histVars
  <2>2. \A m \in Inputs : ended'[m] = ended[m] \/ m \in waiting
    BY <1>2, CommandIs DEF histVars
  <2> QED
    BY <2>1, <2>2, ReadingKept
<1>3. CASE ~Card /\ ~Command
  <2>1. UNCHANGED <<inbox, told, continues, deliveries, revived, ended>>
    <3>1. CASE UNCHANGED vars
      BY <3>1 DEF vars, taskVars, mailVars, histVars
    <3>2. CASE Arrive \/ Tick \/ \E t \in Tasks : ToolReturns(t) \/ Released(t) \/ ShellExits(t) \/ IdleEnds(t)
      BY <3>2 DEF Arrive, Tick, ToolReturns, Released, ShellExits, IdleEnds, taskVars, mailVars, histVars
    <3>3. CASE Order \/ Finish \/ Clear \/ RouteEnds \/ ContinueEnds \/ Llm \/ Stop \/ Terminate
      BY <3>3 DEF Order, Finish, Clear, RouteEnds, ContinueEnds, Llm, Stop, Terminate, taskVars, mailVars, histVars
    <3> QED
      BY <1>3, <3>1, <3>2, <3>3
  <2> QED
    BY <2>1, ReadingKept
<1> QED
  BY <1>1, <1>2, <1>3

\* Before a frame there is nothing to continue.
LEMMA NothingToContinue ==
  ASSUME Turns, todo = {}
  PROVE  continues = {}
  BY DEF Turns, Continues

\* Work that returns between frames.
LEMMA TurnsBetween ==
  ASSUME Typed, Turns, [Next]_vars,
         \/ UNCHANGED vars
         \/ Arrive \/ Tick \/ \E t \in Tasks : ToolReturns(t) \/ Released(t) \/ ShellExits(t) \/ IdleEnds(t)
  PROVE  Turns'
<1>1. Halts' = Halts /\ \A n \in Inputs : Used(n) => Used(n)'
  BY InputsGo
<1>2. CASE UNCHANGED vars
  <2>1. UNCHANGED <<deliveries, continues, status, inbox, held, todo, stops>>
    BY <1>2 DEF vars, taskVars, mailVars
  <2> QED
    BY <1>1, <2>1, TurnsKept DEF Turns, Continues
<1>3. CASE ~ UNCHANGED vars
  <2>1. /\ todo = {} /\ (todo' = {} \/ todo' = Systems)
        /\ UNCHANGED <<deliveries, continues, status, inbox, stops>>
    BY <1>3 DEF Arrive, Tick, ToolReturns, Released, ShellExits, IdleEnds, taskVars, mailVars
  <2>2. \A t \in Tasks : /\ "llm" \in held'[t] => "llm" \in held[t]
                         /\ "tool" \in held'[t] => "tool" \in held[t]
    <3>1. CASE UNCHANGED held
      BY <3>1
    <3>2. CASE \E u \in Tasks : ToolReturns(u) \/ Released(u) \/ ShellExits(u)
      BY <3>2 DEF ToolReturns, Released, ShellExits, Holds, Typed, TypeOK
    <3> QED
      BY <1>3, <3>1, <3>2 DEF Arrive, Tick, IdleEnds, taskVars
  <2>3. continues = {}
    BY <2>1, NothingToContinue
  <2>4. "ingest" \in Systems /\ "wake" \in Systems
    BY DEF Systems
  <2> QED
    BY <1>1, <2>1, <2>2, <2>3, <2>4, TurnsKept
<1> QED
  BY <1>2, <1>3

\* Before any text is routed there is nothing to continue, and inputs are delivered later.
LEMMA TurnsInputs ==
  ASSUME Typed, Barrier, Turns, [Next]_vars, Order \/ Card \/ Command
  PROVE  Turns'
<1>1. Halts' = Halts /\ \A n \in Inputs : Used(n) => Used(n)'
  BY InputsGo
<1>2. \E s \in {"order", "card", "command"} : Runs(s) /\ todo' = todo \ {s}
  BY CardIs, CommandIs DEF Order, Done
<1>3. "command" \in todo /\ {"ingest", "llm", "wake"} \subseteq todo
  BY <1>2, Earlier DEF Runs, Barrier, Typed, TypeOK
<1>4. continues = {}
  BY <1>3 DEF Turns, Continues
<1>5. UNCHANGED <<deliveries, continues, inbox, held>>
  BY CardIs, CommandIs DEF Order, taskVars, mailVars
<1>6. \A t \in Tasks : status'[t] = status[t] \/ (status[t] = "question" /\ status'[t] = "working")
  <2>1. CASE Card
    BY <2>1, CardIs
  <2>2. CASE Order \/ Command
    BY <2>2, CommandIs DEF Order, taskVars
  <2> QED
    BY <2>1, <2>2
<1> QED
  BY <1>1, <1>2, <1>3, <1>4, <1>5, <1>6, TurnsKept

\* What is cancelled is neither a request nor a tool.
LEMMA CancelledHas ==
  ASSUME NEW w
  PROVE  "llm" \notin Cancelled(w) /\ "tool" \notin Cancelled(w)
  BY DEF Cancelled

\* A task that is ended or cleared has no turn any more.
LEMMA TurnsTasks ==
  ASSUME Typed, Barrier, Turns, [Next]_vars, Finish \/ Clear \/ RouteEnds \/ ContinueEnds \/ Terminate
  PROVE  Turns'
<1>1. Halts' = Halts /\ \A n \in Inputs : Used(n) => Used(n)'
  BY InputsGo
<1>2. \E s \in {"finish", "clear", "route", "continue", "terminate"} : todo' = todo \ {s}
  BY DEF Finish, Clear, RouteEnds, ContinueEnds, Terminate, Done
<1>3. UNCHANGED <<deliveries, continues, inbox, stops>>
  BY DEF Finish, Clear, RouteEnds, ContinueEnds, Terminate, taskVars, mailVars
<1>4. continues # {} => "continue" \in todo'
  <2>1. CASE ContinueEnds
    BY <2>1 DEF ContinueEnds
  <2>2. CASE ~ContinueEnds
    <3>1. \E s \in {"finish", "clear", "route", "terminate"} : todo' = todo \ {s}
      BY <2>2 DEF Finish, Clear, RouteEnds, Terminate, Done
    <3> QED
      BY <3>1 DEF Turns, Continues
  <2> QED
    BY <2>1, <2>2
<1>5. continues # {} => "command" \notin todo'
  BY <1>2 DEF Turns, Continues
<1>6. \A t \in Tasks : status'[t] = status[t] \/ status'[t] \in {"ended", "gone"}
  BY DEF Finish, Clear, RouteEnds, ContinueEnds, Terminate, taskVars
<1>7. \A t \in Tasks : held'[t] = held[t] \/ ("llm" \notin held'[t] /\ "tool" \notin held'[t])
  <2>1. CASE Finish
    BY <2>1, CancelledHas DEF Finish
  <2>2. CASE Clear
    <3>1. \A t \in Tasks : held'[t] = {} \/ held'[t] = held[t] \/ held'[t] = Cancelled(held[t])
      BY <2>2 DEF Clear
    <3> QED
      BY <3>1, CancelledHas
  <2>3. CASE RouteEnds \/ ContinueEnds
    BY <2>3 DEF RouteEnds, ContinueEnds, taskVars
  <2>4. CASE Terminate
    <3>1. \A t \in Tasks : \/ held'[t] = held[t] \/ held'[t] = Cancelled(held[t])
                           \/ held'[t] = Cancelled(held[t] \ {"shell"})
      BY <2>4 DEF Terminate
    <3> QED
      BY <3>1, CancelledHas
  <2> QED
    BY <2>1, <2>2, <2>3, <2>4
<1> QED
  BY <1>1, <1>2, <1>3, <1>4, <1>5, <1>6, <1>7, TurnsKept

\* A turn ends only when every input for the inbox is there.
LEMMA TurnsLlm ==
  ASSUME Typed, Barrier, Turns, [Next]_vars, Llm
  PROVE  Turns'
<1>1. Halts' = Halts /\ Halts \subseteq Inputs /\ \A n \in Inputs : Used(n) => Used(n)'
  BY InputsGo, HaltsAre DEF Typed
<1>2. Runs("llm") /\ todo' = todo \ {"llm"} /\ UNCHANGED <<deliveries, continues, inbox, stops>>
  BY DEF Llm, Done, mailVars
<1>3. "llm" \in todo /\ "ingest" \notin todo /\ {"wake", "continue"} \subseteq todo /\ "command" \notin todo
  BY <1>2, RunsAt DEF Runs, Barrier, Typed, TypeOK
<1>4. \A t \in Tasks :
        \/ status'[t] = status[t] /\ held'[t] = held[t]
        \/ /\ status[t] = "working" /\ "llm" \in held[t] /\ "llm" \notin held'[t]
           /\ status'[t] \in {"working", "user", "ended"}
  <2>1. CASE Nothing
    BY <2>1 DEF Nothing
  <2>2. CASE ~Nothing
    <3>1. PICK t \in Tasks :
          /\ status[t] = "working" /\ "llm" \in held[t]
          /\ \/ status' = [status EXCEPT ![t] = "user"] /\ Holds(t, held[t] \ {"llm"})
             \/ Holds(t, (held[t] \ {"llm"}) \cup {"tool"}) /\ UNCHANGED status
             \/ status' = [status EXCEPT ![t] = "ended"] /\ Holds(t, held[t] \ {"llm"})
      BY <2>2 DEF Llm
    <3>2. \A u \in Tasks : u # t => status'[u] = status[u] /\ held'[u] = held[u]
      BY <3>1 DEF Holds, Typed, TypeOK
    <3>3. "llm" \notin held'[t] /\ status'[t] \in {"working", "user", "ended"}
      BY <3>1 DEF Holds, Typed, TypeOK
    <3> QED
      BY <3>1, <3>2, <3>3
  <2> QED
    BY <2>1, <2>2
<1>5. Left'
  BY <1>2, <1>3, <1>4 DEF Turns, Left
<1>6. \A d \in deliveries : d.task \in Tasks /\ "llm" \notin held[d.task] /\ "tool" \notin held[d.task]
  BY <1>3 DEF Turns, Deliveries, Typed, TypeOK
<1>7. Deliveries'
  BY <1>2, <1>3, <1>4, <1>6 DEF Turns, Deliveries
<1>8. \A c \in continues : c.task \in Tasks /\ "llm" \notin held[c.task]
  BY <1>3 DEF Turns, Continues, Typed, TypeOK
<1>9. Continues'
  BY <1>2, <1>3, <1>4, <1>8 DEF Turns, Continues
<1> QED
  BY <1>5, <1>7, <1>9 DEF Turns

\* A turn that is stopped leaves in the inbox what was sent before the stop.
LEMMA TurnsStop ==
  ASSUME Typed, Barrier, Doors, Turns, Since, [Next]_vars, Stop
  PROVE  Turns'
<1>1. Halts' = Halts /\ Halts \subseteq Inputs /\ \A n \in Inputs : Used(n) => Used(n)'
  BY InputsGo, HaltsAre DEF Typed
<1>2. /\ Runs("stop") /\ todo' = todo \ {"stop"} /\ UNCHANGED <<deliveries, continues, inbox>>
      /\ stops' = {}
  BY DEF Stop, Done
<1>3. "llm" \notin todo /\ "ingest" \notin todo /\ "command" \notin todo
  BY <1>2, RunsAt DEF Barrier, Typed, TypeOK
<1>4. \A t \in Tasks :
        \/ status'[t] = status[t] /\ held'[t] = held[t]
        \/ /\ t \in stops /\ Open(t) /\ status'[t] = "user"
           /\ "llm" \notin held'[t] /\ "tool" \notin held'[t]
  BY CancelledHas DEF Stop
<1>5. Left'
  <2>1. ASSUME NEW t \in Tasks, t \in stops, NEW m \in Range(inbox[t])
        PROVE  \E s \in Halts : Used(s) /\ m <= s
    <3>1. PICK s \in Halts : Used(s) /\ \A k \in Inputs : Used(k) => k <= s
      BY <2>1 DEF Doors, Stops
    <3>2. m \in Texts(t) /\ m \in Inputs
      BY <2>1, TextsAre DEF Texts, Typed
    <3>3. Used(m)
      BY <3>2 DEF Since
    <3> QED
      BY <3>1, <3>2, <3>3
  <2>2. ASSUME NEW t \in Tasks, status'[t] = "user"
        PROVE  /\ "llm" \notin held'[t]
               /\ "llm" \in todo' \/ "wake" \notin todo' =>
                    \A m \in Range(inbox'[t]) : \E s \in Halts' : Used(s)' /\ m <= s
    <3>1. CASE t \in stops /\ "llm" \notin held'[t]
      BY <1>1, <1>2, <2>1, <3>1
    <3>2. CASE status'[t] = status[t] /\ held'[t] = held[t]
      BY <1>1, <1>2, <2>2, <3>2 DEF Turns, Left
    <3> QED
      BY <1>4, <3>1, <3>2
  <2> QED
    BY <2>2 DEF Left
<1>6. \A d \in deliveries : d.task \in Tasks /\ d.task \notin stops
  BY <1>3 DEF Turns, Deliveries, Typed, TypeOK
<1>7. Deliveries'
  BY <1>2, <1>3, <1>4, <1>6 DEF Turns, Deliveries
<1>8. \A c \in continues : c.task \in Tasks /\ ("wake" \in todo => stops = {})
  BY DEF Turns, Continues, Typed, TypeOK
<1>9. Continues'
  BY <1>2, <1>3, <1>4, <1>8 DEF Turns, Continues
<1> QED
  BY <1>5, <1>7, <1>9 DEF Turns

-----------------------------------------------------------------------------
(* The systems that move texts.                                            *)

Course == Turns /\ Reading

\* A task is founded on an input that was taken.
LEMMA TasksUsed ==
  ASSUME Typed, NEW t \in Tasks, status[t] # "none"
  PROVE  t \in Inputs /\ Used(t)
<1>1. t \in Inputs /\ t \in Nat /\ next \in Nat
  BY SMT DEF Tasks, Inputs, Typed, TypeOK
<1>2. ~(t >= next) /\ t \notin waiting
  BY DEF Typed, IInv, Fresh
<1>3. t < next
  BY <1>1, <1>2, SMT
<1> QED
  BY <1>1, <1>2, <1>3 DEF Used

\* One text is in order.
LEMMA OneIsOrdered ==
  ASSUME NEW H, NEW n \in Nat
  PROVE  Ordered(H, <<n>>) /\ Range(<<n>>) = {n}
<1>1. DOMAIN <<n>> = {1} /\ <<n>>[1] = n
  OBVIOUS
<1>2. \A p, q \in DOMAIN <<n>> : ~(p < q)
  BY <1>1
<1>3. Ordered(H, <<n>>)
  BY <1>2 DEF Ordered
<1>4. Range(<<n>>) = {n}
  BY <1>1 DEF Range
<1> QED
  BY <1>3, <1>4

\* A text is routed: it was sent after all that were taken.
LEMMA CourseRoute ==
  ASSUME ConversationAssumption, Typed, Barrier, Doors, Course, [Next]_vars, Route
  PROVE  Course'
<1>1. /\ Halts' = Halts /\ Halts \subseteq Inputs /\ \A n \in Inputs : Used(n) => Used(n)'
      /\ \A t \in Tasks : Goes(t)
      /\ \A n \in Inputs : n \in Nat
  BY InputsGo, TasksGo, HaltsAre, SMT DEF Typed, Inputs
<1>2. /\ Runs("route")
      /\ UNCHANGED <<script, held, seen, inbox, told, finishes, stops, clears, todo, ended, revived>>
  BY RouteIs DEF histVars
<1>3. /\ InFrame /\ "command" \notin todo /\ {"create", "ingest", "llm", "wake", "stop", "continue"} \subseteq todo
  BY <1>2, RunsAt DEF Systems, Barrier, Typed, TypeOK
<1>4. PICK n \in FreeTexts :
              /\ n \in Inputs /\ n \in waiting /\ Consumed(n)
              /\ \A u \in Tasks : \/ status'[u] = status[u]
                                  \/ status[u] \in {"user", "question"} /\ status'[u] = "working"
              /\ continues \subseteq continues'
              /\ \A c \in continues' :
                   \/ c \in continues
                   \/ /\ c.task \in Tasks /\ status[c.task] = "user" /\ status'[c.task] = "working"
                      /\ c = [task |-> c.task, items |-> <<n>>]
              /\ \A d \in deliveries' :
                   \/ d \in deliveries
                   \/ d.task \in Tasks /\ status[d.task] = "working" /\ d.item = n
  BY RouteIs
<1>5. n \in Free /\ IsText(n) /\ ~IsCard(n) /\ n \in Nat
  BY <1>1, <1>4 DEF FreeTexts, IsText, IsCard, Cards
<1>6. stops = {}
  BY <1>5 DEF Doors, Stops
<1>7. (\A d \in deliveries : d.task \in Tasks) /\ \A c \in continues : c.task \in Tasks
  BY DEF Typed, TypeOK
<1>8. \A m \in Inputs : Used(m) => m < n
  BY <1>4, AfterUsed
<1>9. Turns'
  <2>1. Left'
    BY <1>1, <1>2, <1>4 DEF Course, Turns, Left
  <2>2. Deliveries'
    BY <1>2, <1>3, <1>4, <1>7 DEF Course, Turns, Deliveries
  <2>3. \A c \in continues : status[c.task] \in {"working", "ended", "gone"} /\ "llm" \notin held[c.task]
    BY <1>3 DEF Course, Turns, Continues
  <2>4. \A c, d \in continues' : c.task = d.task => c = d
    BY <1>4, <2>3 DEF Course, Turns, Continues
  <2>5. \A c \in continues' : status'[c.task] \in {"working", "ended", "gone"} /\ "llm" \notin held[c.task]
    BY <1>4, <1>7, <2>3 DEF Course, Turns, Left
  <2>6. Continues'
    BY <1>2, <1>3, <1>6, <2>4, <2>5 DEF Continues
  <2> QED
    BY <2>1, <2>2, <2>6 DEF Turns
<1>10. \A t \in Tasks : \A m \in Texts(t) : m \in Inputs /\ Used(m) /\ m \in Nat /\ m < n
  BY <1>1, <1>8, TextsAre DEF Course, Reading, Since, Typed
<1>11. ASSUME NEW t \in Tasks
       PROVE  /\ Read(t)' = Read(t) /\ Delivered(t)' \subseteq Delivered(t) \cup {n}
              /\ Items(t)' \subseteq Items(t) \cup {n}
              /\ n \in Delivered(t)' => n \in Delivered(t) \/ status[t] = "working"
              /\ n \in Items(t)' => n \in Items(t) \/ status[t] = "user"
  <2>1. Read(t)' = Read(t)
    BY <1>2 DEF Read
  <2>2. /\ Delivered(t)' \subseteq Delivered(t) \cup {n}
        /\ n \in Delivered(t)' => n \in Delivered(t) \/ status[t] = "working"
    BY <1>4 DEF Delivered
  <2>3. Range(<<n>>) = {n}
    BY <1>5, OneIsOrdered
  <2>4. \A c \in continues' : c \in continues \/ (status[c.task] = "user" /\ c.items = <<n>>)
    BY <1>4
  <2>5. \A m \in Items(t)' : m \in Items(t) \/ (m = n /\ status[t] = "user")
    BY <2>3, <2>4 DEF Items
  <2> QED
    BY <2>1, <2>2, <2>5
<1>12. ASSUME NEW t \in Tasks
       PROVE  /\ Texts(t)' \subseteq Texts(t) \cup {n}
              /\ n \in Texts(t)' => Open(t)
  <2>1. Texts(t)' \subseteq Texts(t) \cup {n}
    BY <1>2, <1>11 DEF Texts
  <2>2. n \notin Texts(t)
    BY <1>5, <1>10
  <2>3. n \in Texts(t)' => status[t] \in {"working", "user"}
    BY <1>2, <1>11, <2>2 DEF Texts
  <2> QED
    BY <2>1, <2>3 DEF Open
<1>13. NoneYet'
  BY <1>1, <1>2, <1>12 DEF Course, Reading, NoneYet, Goes, Open
<1>14. Since'
  <2>1. SUFFICES ASSUME NEW t \in Tasks, NEW m \in Texts(t)'
                 PROVE  Used(m)' /\ m >= t /\ (t \notin revived => \A k \in 1..m : ended[k] # t)
    BY <1>2 DEF Since
  <2>2. CASE m \in Texts(t)
    BY <1>1, <1>10, <2>2 DEF Course, Reading, Since
  <2>3. CASE m \notin Texts(t)
    <3>1. m = n /\ Open(t)
      BY <1>12, <2>1, <2>3
    <3>2. Used(n)'
      BY <1>4 DEF Used, Consumed, Barrier, Queue
    <3>3. t < n /\ t \in Nat
      BY <1>1, <1>8, <3>1, TasksUsed DEF Open
    <3>4. ASSUME t \notin revived, NEW k \in 1..n PROVE ended[k] # t
      <4>1. k \in Inputs
        BY <1>4, SMT DEF Inputs, ConversationAssumption
      <4>2. t \notin clears
        BY <1>3, <1>5, <3>1 DEF Doors, Cleared, Clearing, Open
      <4> QED
        BY <1>5, <3>1, <3>4, <4>1, <4>2 DEF Doors, Ended
    <3>5. n >= t
      BY <1>5, <3>3, SMT
    <3> QED
      BY <3>1, <3>2, <3>4, <3>5
  <2> QED
    BY <2>2, <2>3
<1>15. Lines'
  <2>1. ASSUME NEW t \in Tasks
        PROVE  /\ Ordered(Halts, told'[t]) /\ Ordered(Halts, inbox'[t])
               /\ \A c \in continues' : c.task = t => Ordered(Halts, c.items)
               /\ Follows(Halts, Read(t)', Items(t)' \cup Range(inbox'[t]) \cup Delivered(t)')
               /\ Follows(Halts, Items(t)', Range(inbox'[t]) \cup Delivered(t)')
               /\ Follows(Halts, Range(inbox'[t]), Delivered(t)')
    <3>1. Ordered(Halts, told'[t]) /\ Ordered(Halts, inbox'[t])
      BY <1>2 DEF Course, Reading, Lines
    <3>2. \A c \in continues' : c.task = t => Ordered(Halts, c.items)
      <4>1. Ordered(Halts, <<n>>)
        BY <1>5, OneIsOrdered
      <4>2. \A c \in continues' : c \in continues \/ c.items = <<n>>
        BY <1>4
      <4> QED
        BY <4>1, <4>2 DEF Course, Reading, Lines
    <3>3. \A m \in Texts(t) : ~(m > n) /\ m \in Nat
      BY <1>5, <1>10, SMT
    <3>4. ~(n > n)
      BY <1>5, SMT
    <3>5. Follows(Halts, Read(t)', Items(t)' \cup Range(inbox'[t]) \cup Delivered(t)')
      BY <1>2, <1>11, <3>3 DEF Course, Reading, Lines, Follows, Texts
    <3>6. Follows(Halts, Range(inbox'[t]), Delivered(t)')
      BY <1>2, <1>11, <3>3 DEF Course, Reading, Lines, Follows, Texts
    <3>7. Follows(Halts, Items(t)', Range(inbox'[t]) \cup Delivered(t)')
      <4>1. CASE n \notin Items(t)'
        BY <1>2, <1>11, <3>3, <4>1 DEF Course, Reading, Lines, Follows, Texts
      <4>2. CASE n \in Items(t)'
        <5>1. n \notin Texts(t)
          BY <1>5, <1>10
        <5>2. status[t] = "user"
          BY <1>11, <4>2, <5>1 DEF Texts
        <5>3. Items(t) = {}
          BY <1>3, <5>2 DEF Items, Course, Turns, Continues
        <5>4. Delivered(t) = {}
          BY <5>2 DEF Delivered, Course, Turns, Deliveries
        <5>5. Delivered(t)' = {}
          BY <1>11, <5>2, <5>4
        <5>6. Items(t)' \subseteq {n}
          BY <1>11, <5>3
        <5>7. ASSUME NEW k \in Range(inbox[t]) PROVE Stopped(Halts, k, n)
          <6>1. PICK s \in Halts : Used(s) /\ k <= s
            BY <1>3, <5>2 DEF Course, Turns, Left
          <6>2. s \in Nat /\ s < n /\ k \in Nat
            BY <1>1, <1>8, <1>10, <6>1 DEF Texts
          <6>3. s \in k..n
            BY <1>5, <6>1, <6>2, SMT
          <6> QED
            BY <6>3 DEF Stopped
        <5> QED
          BY <1>2, <5>5, <5>6, <5>7 DEF Follows
      <4> QED
        BY <4>1, <4>2
    <3> QED
      BY <3>1, <3>2, <3>5, <3>6, <3>7
  <2> QED
    BY <1>1, <2>1, LinesMoved
<1> QED
  BY <1>9, <1>13, <1>14, <1>15 DEF Course, Reading

\* The message a task is founded on was sent first.
LEMMA ForemostLeast ==
  ASSUME Typed, Doors, creates # {}
  PROVE  \A n \in creates : Foremost(creates) <= n
<1>1. creates \subseteq Nat /\ Foremost(creates) \in creates
  BY FoundedIs, SMT DEF Typed, TypeOK, IInv, Inputs
<1>2. CASE \E n \in creates : ~IsText(n)
  <2>1. PICK n \in creates : creates = {n}
    BY <1>2 DEF Doors, Newcomers
  <2>2. Foremost(creates) = n /\ n \in Nat
    BY <1>1, <2>1
  <2> QED
    BY <2>1, <2>2, SMT
<1>3. CASE \A n \in creates : IsText(n)
  <2>1. {n \in creates : IsText(n)} = creates
    BY <1>3
  <2>2. Foremost(creates) = First(creates)
    BY <2>1 DEF Foremost
  <2> QED
    BY <1>1, <2>2, FirstIs
<1> QED
  BY <1>2, <1>3

\* A task is founded on the first message, the others follow it.
LEMMA CourseCreate ==
  ASSUME ConversationAssumption, Typed, Barrier, Doors, Course, [Next]_vars, Create
  PROVE  Course'
<1>1. /\ Halts' = Halts /\ Halts \subseteq Inputs /\ \A n \in Inputs : Used(n) => Used(n)'
      /\ \A t \in Tasks : Goes(t)
  BY InputsGo, TasksGo, HaltsAre DEF Typed
<1>2. /\ Runs("create") /\ todo' = todo \ {"create"}
      /\ UNCHANGED <<held, inbox, continues, stops, ended, revived>>
  BY DEF Create, Done, histVars
<1>3. CASE creates = {}
  <2>1. UNCHANGED <<status, told, deliveries>>
    BY <1>3 DEF Create
  <2>2. Reading'
    BY <1>2, <2>1, ReadingKept DEF Course
  <2>3. Turns'
    BY <1>1, <1>2, <2>1, TurnsKept DEF Course, Turns, Continues
  <2> QED
    BY <2>2, <2>3 DEF Course
<1>4. CASE creates # {}
  <2>0. PICK f : f = Foremost(creates)
    OBVIOUS
  <2>1. f \in creates /\ f \in Tasks /\ Founded = {f} /\ First(Founded) = f
    BY <1>4, <2>0, FoundedIs DEF Typed, IInv
  <2>2. \A n \in creates : f <= n
    BY <1>4, <2>0, ForemostLeast
  <2>3. ~Closing /\ OpenRoots = {}
    BY <1>4 DEF Doors, Settled, LettingIn, Typed, IInv, Quiet, Owner, OpenRoots
  <2>4. /\ status' = [t \in Tasks |-> IF t \in Founded THEN "working" ELSE status[t]]
        /\ told' = [t \in Tasks |-> IF t \in Founded THEN <<t>> ELSE told[t]]
        /\ deliveries' = deliveries \cup {[task |-> f, item |-> n] : n \in creates \ Founded}
    BY <1>4, <2>1, <2>3 DEF Create
  <2>5. status[f] = "none" /\ held[f] = {} /\ creates \subseteq Inputs
    BY <2>1 DEF Typed, TypeOK, IInv, Fresh
  <2>6. \A n \in creates : Used(n)
    BY DEF Doors, Newcomers
  <2>7. /\ \A t \in Tasks : t # f => status'[t] = status[t] /\ told'[t] = told[t]
        /\ status'[f] = "working" /\ told'[f] = <<f>>
    BY <2>1, <2>4
  <2>8. \A d \in deliveries' : d \in deliveries \/ (d.task = f /\ d.item \in creates)
    BY <2>4
  <2>9. (\A d \in deliveries : d.task \in Tasks) /\ \A c \in continues : c.task \in Tasks
    BY DEF Typed, TypeOK
  <2>10. Turns'
    <3>1. Left'
      BY <1>1, <1>2, <2>7 DEF Course, Turns, Left
    <3>2. f \notin stops
      BY <2>5 DEF Doors, Stops
    <3>3. \A d \in deliveries : d.task # f
      BY <2>5 DEF Course, Turns, Deliveries
    <3>4. Deliveries'
      BY <1>2, <2>5, <2>7, <2>8, <2>9, <3>2, <3>3 DEF Course, Turns, Deliveries
    <3>5. Continues'
      BY <1>2, <2>7, <2>9 DEF Course, Turns, Continues
    <3> QED
      BY <3>1, <3>4, <3>5 DEF Turns
  <2>11. Texts(f) = {}
    BY <2>1, <2>5 DEF Course, Reading, NoneYet
  <2>12. f \in Nat
    BY <2>1, SMT DEF Tasks, Inputs
  <2>13. Read(f)' = {f} /\ Items(f)' = {} /\ Range(inbox'[f]) = {} /\ Delivered(f)' \subseteq creates
    <3>1. Read(f)' = {f}
      BY <2>7, <2>12, OneIsOrdered DEF Read
    <3>2. Items(f)' = Items(f) /\ Items(f) = {} /\ Range(inbox[f]) = {} /\ Delivered(f) = {}
      BY <1>2, <2>11 DEF Items, Texts
    <3>3. Delivered(f)' \subseteq creates
      BY <2>8, <3>2 DEF Delivered
    <3> QED
      BY <1>2, <3>1, <3>2, <3>3
  <2>14. ASSUME NEW t \in Tasks, t # f
         PROVE  Read(t)' = Read(t) /\ Items(t)' = Items(t) /\ Delivered(t)' \subseteq Delivered(t)
    BY <1>2, <2>7, <2>8, <2>14 DEF Read, Items, Delivered
  <2>15. ASSUME NEW t \in Tasks
         PROVE  Texts(t)' \subseteq Texts(t) \/ (t = f /\ Texts(t)' \subseteq creates)
    <3>1. CASE t = f
      BY <2>1, <2>13, <3>1 DEF Texts
    <3>2. CASE t # f
      BY <1>2, <2>14, <3>2 DEF Texts
    <3> QED
      BY <3>1, <3>2
  <2>16. NoneYet'
    BY <1>1, <1>2, <2>7, <2>15 DEF Course, Reading, NoneYet, Goes
  <2>17. Since'
    <3>1. SUFFICES ASSUME NEW t \in Tasks, NEW m \in Texts(t)'
                   PROVE  Used(m)' /\ m >= t /\ (t \notin revived => \A k \in 1..m : ended[k] # t)
      BY <1>2 DEF Since
    <3>2. CASE m \in Texts(t)
      <4>1. m \in Inputs
        BY <3>2, TextsAre DEF Typed
      <4> QED
        BY <1>1, <3>2, <4>1 DEF Course, Reading, Since
    <3>3. CASE m \notin Texts(t)
      <4>1. t = f /\ m \in creates /\ m \in Inputs
        BY <2>5, <2>15, <3>1, <3>3
      <4>2. Used(m)' /\ f <= m /\ m \in Nat
        BY <1>1, <2>2, <2>6, <4>1, SMT DEF Inputs
      <4>3. m >= f
        BY <2>12, <4>2, SMT
      <4>4. \A k \in 1..m : k \in Inputs
        BY <4>1, SMT DEF Inputs, ConversationAssumption
      <4>5. f # 0
        BY <2>1, SMT DEF Tasks, Inputs
      <4>6. \A k \in Inputs : ended[k] # f
        BY <2>5, <4>5 DEF Doors, Ended
      <4> QED
        BY <4>1, <4>2, <4>3, <4>4, <4>6
    <3> QED
      BY <3>2, <3>3
  <2>18. Lines'
    <3>1. ASSUME NEW t \in Tasks
          PROVE  /\ Ordered(Halts, told'[t]) /\ Ordered(Halts, inbox'[t])
                 /\ \A c \in continues' : c.task = t => Ordered(Halts, c.items)
                 /\ Follows(Halts, Read(t)', Items(t)' \cup Range(inbox'[t]) \cup Delivered(t)')
                 /\ Follows(Halts, Items(t)', Range(inbox'[t]) \cup Delivered(t)')
                 /\ Follows(Halts, Range(inbox'[t]), Delivered(t)')
      <4>1. Ordered(Halts, inbox'[t]) /\ \A c \in continues' : c.task = t => Ordered(Halts, c.items)
        BY <1>2 DEF Course, Reading, Lines
      <4>2. CASE t = f
        <5>1. Ordered(Halts, told'[t])
          BY <2>7, <2>12, <4>2, OneIsOrdered
        <5>2. ASSUME NEW m \in creates PROVE ~(f > m)
          <6>1. m \in Inputs /\ f <= m
            BY <2>2, <2>5
          <6>2. m \in Nat
            BY <6>1, SMT DEF Inputs
          <6> QED
            BY <2>12, <6>1, <6>2, SMT
        <5> QED
          BY <2>13, <4>1, <4>2, <5>1, <5>2 DEF Follows
      <4>3. CASE t # f
        <5>1. Ordered(Halts, told'[t])
          BY <2>7, <4>3 DEF Course, Reading, Lines
        <5>2. Follows(Halts, Read(t)', Items(t)' \cup Range(inbox'[t]) \cup Delivered(t)')
          BY <1>2, <2>14, <4>3 DEF Course, Reading, Lines, Follows
        <5>3. Follows(Halts, Items(t)', Range(inbox'[t]) \cup Delivered(t)')
          BY <1>2, <2>14, <4>3 DEF Course, Reading, Lines, Follows
        <5>4. Follows(Halts, Range(inbox'[t]), Delivered(t)')
          BY <1>2, <2>14, <4>3 DEF Course, Reading, Lines, Follows
        <5> QED
          BY <4>1, <5>1, <5>2, <5>3, <5>4
      <4> QED
        BY <4>2, <4>3
    <3> QED
      BY <1>1, <3>1, LinesMoved
  <2> QED
    BY <2>10, <2>16, <2>17, <2>18 DEF Course, Reading
<1> QED
  BY <1>3, <1>4

\* Nothing is in order.
LEMMA EmptyIs ==
  ASSUME NEW H
  PROVE  Range(<<>>) = {} /\ Ordered(H, <<>>)
<1>1. DOMAIN <<>> = {}
  OBVIOUS
<1> QED
  BY <1>1 DEF Range, Ordered

\* A sequence over a subset.
LEMMA SeqSub ==
  ASSUME NEW S, NEW T, S \subseteq T, NEW s \in Seq(S)
  PROVE  s \in Seq(T)
<1>1. Len(s) \in Nat /\ \A k \in 1..Len(s) : s[k] \in T
  OBVIOUS
<1>2. s = [k \in 1..Len(s) |-> s[k]]
  OBVIOUS
<1> QED
  BY <1>1, <1>2

\* Inputs are numbers.
LEMMA InputsAreNat ==
  Inputs \subseteq Nat
  BY SMT DEF Inputs

\* The sequences of a task, and what is in them.
LEMMA SequencesAre ==
  ASSUME Typed, NEW t \in Tasks
  PROVE  /\ told[t] \in Seq(Inputs) /\ inbox[t] \in Seq(Inputs) /\ told[t] \in Seq(Nat) /\ inbox[t] \in Seq(Nat)
         /\ told[t] \o inbox[t] \in Seq(Inputs)
         /\ Range(told[t] \o inbox[t]) = Read(t) \cup Range(inbox[t])
<1>1. told[t] \in Seq(Inputs) /\ inbox[t] \in Seq(Inputs)
  BY DEF Typed, TypeOK
<1>3. told[t] \in Seq(Nat) /\ inbox[t] \in Seq(Nat)
  BY <1>1, InputsAreNat, SeqSub
<1> QED
  BY <1>1, <1>3, Concat DEF Read

\* What was delivered follows what is in the inbox.
LEMMA CourseIngest ==
  ASSUME ConversationAssumption, Typed, Barrier, Doors, Course, [Next]_vars, Ingest
  PROVE  Course'
<1>1. /\ Halts' = Halts /\ Halts \subseteq Inputs /\ \A n \in Inputs : Used(n) => Used(n)'
      /\ \A t \in Tasks : Goes(t)
  BY InputsGo, TasksGo, HaltsAre DEF Typed
<1>2. /\ Runs("ingest") /\ todo' = todo \ {"ingest"} /\ deliveries' = {}
      /\ UNCHANGED <<status, held, told, continues, stops, ended, revived>>
  BY DEF Ingest, Done, histVars
<1>3. ASSUME NEW t \in Tasks
      PROVE  /\ InOrderOf(Delivered(t)) \in Seq(Inputs) /\ InOrderOf(Delivered(t)) \in Seq(Nat)
             /\ Range(InOrderOf(Delivered(t))) = Delivered(t)
             /\ Ordered(Halts, InOrderOf(Delivered(t)))
  <2>1. Delivered(t) \subseteq Inputs
    BY TextsAre DEF Texts, Typed
  <2>2. /\ InOrderOf(Delivered(t)) \in Seq(Delivered(t)) /\ Range(InOrderOf(Delivered(t))) = Delivered(t)
        /\ Increasing(InOrderOf(Delivered(t)))
    BY <2>1, InOrderOfIs DEF ConversationAssumption
  <2>3. InOrderOf(Delivered(t)) \in Seq(Inputs)
    BY <2>1, <2>2, SeqSub
  <2>4. InOrderOf(Delivered(t)) \in Seq(Nat)
    BY <2>3, InputsAreNat, SeqSub
  <2> QED
    BY <2>2, <2>3, <2>4, IncreasingIsOrdered
<1>4. ASSUME NEW t \in Tasks
      PROVE  /\ ~Open(t) => inbox'[t] = inbox[t]
             /\ Open(t) => inbox'[t] = inbox[t] \o InOrderOf(Delivered(t))
             /\ Open(t) => Range(inbox'[t]) = Range(inbox[t]) \cup Delivered(t)
  <2>1. inbox'[t] = IF Open(t) THEN inbox[t] \o InOrderOf(Delivered(t)) ELSE inbox[t]
    BY DEF Ingest, Delivered
  <2>2. inbox[t] \in Seq(Inputs)
    BY SequencesAre
  <2>3. Range(inbox[t] \o InOrderOf(Delivered(t))) = Range(inbox[t]) \cup Delivered(t)
    BY <1>3, <2>2, Concat
  <2> QED
    BY <2>1, <2>3
<1>5. Turns'
  <2>1. \A t \in Tasks : status[t] = "user" => Range(inbox'[t]) = Range(inbox[t])
    <3> TAKE t \in Tasks
    <3>1. status[t] = "user" => Delivered(t) = {} /\ Open(t)
      BY DEF Course, Turns, Deliveries, Delivered, Open
    <3> QED
      BY <1>4, <3>1
  <2>2. Left'
    BY <1>1, <1>2, <2>1 DEF Course, Turns, Left
  <2>3. Deliveries'
    BY <1>2 DEF Deliveries
  <2>4. Continues'
    BY <1>2 DEF Course, Turns, Continues
  <2> QED
    BY <2>2, <2>3, <2>4 DEF Turns
<1>6. ASSUME NEW t \in Tasks
      PROVE  /\ Read(t)' = Read(t) /\ Items(t)' = Items(t) /\ Delivered(t)' = {}
             /\ Range(inbox'[t]) \subseteq Range(inbox[t]) \cup Delivered(t)
  BY <1>2, <1>4 DEF Read, Items, Delivered
<1>7. \A t \in Tasks : Texts(t)' \subseteq Texts(t)
  BY <1>6 DEF Texts
<1>8. NoneYet' /\ Since'
  BY <1>1, <1>2, <1>7, NoneYetKept, SinceKept DEF Course, Reading
<1>9. ASSUME NEW t \in Tasks PROVE Ordered(Halts, inbox'[t])
  <2>1. Ordered(Halts, inbox[t]) /\ Follows(Halts, Range(inbox[t]), Delivered(t))
    BY DEF Course, Reading, Lines
  <2>2. Ordered(Halts, inbox[t] \o InOrderOf(Delivered(t)))
    BY <1>3, <2>1, OrderedConcat, SequencesAre
  <2> QED
    BY <1>4, <2>1, <2>2
<1>10. Lines'
  <2>1. ASSUME NEW t \in Tasks
        PROVE  /\ Ordered(Halts, told'[t]) /\ Ordered(Halts, inbox'[t])
               /\ \A c \in continues' : c.task = t => Ordered(Halts, c.items)
               /\ Follows(Halts, Read(t)', Items(t)' \cup Range(inbox'[t]) \cup Delivered(t)')
               /\ Follows(Halts, Items(t)', Range(inbox'[t]) \cup Delivered(t)')
               /\ Follows(Halts, Range(inbox'[t]), Delivered(t)')
    <3>1. Ordered(Halts, told'[t]) /\ \A c \in continues' : c.task = t => Ordered(Halts, c.items)
      BY <1>2 DEF Course, Reading, Lines
    <3>2. Follows(Halts, Read(t)', Items(t)' \cup Range(inbox'[t]) \cup Delivered(t)')
      BY <1>6 DEF Course, Reading, Lines, Follows
    <3>3. Follows(Halts, Items(t)', Range(inbox'[t]) \cup Delivered(t)')
      BY <1>6 DEF Course, Reading, Lines, Follows
    <3>4. Follows(Halts, Range(inbox'[t]), Delivered(t)')
      BY <1>6 DEF Follows
    <3> QED
      BY <1>9, <3>1, <3>2, <3>3, <3>4
  <2> QED
    BY <1>1, <2>1, LinesMoved
<1> QED
  BY <1>5, <1>8, <1>10 DEF Course, Reading

\* An idle task is continued with its inbox, and nothing else is on its way to it.
LEMMA CourseWake ==
  ASSUME Typed, Barrier, Doors, Course, [Next]_vars, Wake
  PROVE  Course'
<1>1. /\ Halts' = Halts /\ Halts \subseteq Inputs /\ \A n \in Inputs : Used(n) => Used(n)'
      /\ \A t \in Tasks : Goes(t)
  BY InputsGo, TasksGo, HaltsAre DEF Typed
<1>2. /\ Runs("wake") /\ todo' = todo \ {"wake"}
      /\ UNCHANGED <<status, held, told, deliveries, stops, ended, revived>>
  BY DEF Wake, Done, histVars
<1>3. {"command", "ingest", "llm"} \cap todo = {} /\ "continue" \in todo /\ "wake" \in todo
  BY <1>2, RunsAt DEF Runs, Barrier, Typed, TypeOK
<1> DEFINE idle == {t \in Tasks : status[t] = "user" /\ inbox[t] # <<>>}
<1>4. /\ continues' = continues \cup {[task |-> t, items |-> inbox[t]] : t \in idle}
      /\ inbox' = [t \in Tasks |-> IF t \in idle THEN <<>> ELSE inbox[t]]
  BY DEF Wake
<1>5. \A c \in continues : c.task \in Tasks /\ status[c.task] # "user"
  BY <1>3 DEF Typed, TypeOK, Course, Turns, Continues
<1>6. \A c \in continues' :
        \/ c \in continues
        \/ /\ c.task \in Tasks /\ status[c.task] = "user" /\ c.items = inbox[c.task] /\ inbox[c.task] # <<>>
           /\ c = [task |-> c.task, items |-> inbox[c.task]]
  BY <1>4
<1>7. \A t \in Tasks :
        \/ inbox'[t] = inbox[t] /\ (status[t] # "user" \/ inbox[t] = <<>>)
        \/ inbox'[t] = <<>> /\ status[t] = "user"
  BY <1>4
<1> HIDE DEF idle
<1>8. Turns'
  <2>1. Left'
    <3>1. \A t \in Tasks : status[t] = "user" => Range(inbox'[t]) = {}
      BY <1>7, EmptyIs
    <3> QED
      BY <1>2, <3>1 DEF Course, Turns, Left
  <2>2. Deliveries'
    BY <1>2, <1>3 DEF Course, Turns, Deliveries
  <2>3. \A c, d \in continues' : c.task = d.task => c = d
    BY <1>5, <1>6 DEF Course, Turns, Continues
  <2>4. Continues'
    BY <1>2, <1>3, <2>3 DEF Continues
  <2> QED
    BY <2>1, <2>2, <2>4 DEF Turns
<1>9. ASSUME NEW t \in Tasks
      PROVE  /\ Read(t)' = Read(t) /\ Delivered(t)' = Delivered(t)
             /\ \/ Items(t)' \subseteq Items(t) /\ inbox'[t] = inbox[t]
                \/ Items(t)' \subseteq Range(inbox[t]) /\ Range(inbox'[t]) = {}
  <2>1. Read(t)' = Read(t) /\ Delivered(t)' = Delivered(t)
    BY <1>2 DEF Read, Delivered
  <2>2. CASE status[t] # "user"
    <3>1. inbox'[t] = inbox[t]
      BY <1>7, <2>2
    <3>2. Items(t)' \subseteq Items(t)
      BY <1>6, <2>2 DEF Items
    <3> QED
      BY <2>1, <3>1, <3>2
  <2>3. CASE status[t] = "user"
    <3>1. Range(inbox'[t]) = {}
      BY <1>7, <2>3, EmptyIs
    <3>2. \A c \in continues' : c.task = t => c.items = inbox[t]
      BY <1>5, <1>6, <2>3
    <3>3. Items(t)' \subseteq Range(inbox[t])
      BY <3>2 DEF Items
    <3> QED
      BY <2>1, <3>1, <3>3
  <2> QED
    BY <2>2, <2>3
<1>10. ASSUME NEW t \in Tasks PROVE Texts(t)' \subseteq Texts(t)
  BY <1>9 DEF Texts
<1>11. NoneYet' /\ Since'
  BY <1>1, <1>2, <1>10, NoneYetKept, SinceKept DEF Course, Reading
<1>12. Lines'
  <2>1. ASSUME NEW t \in Tasks
        PROVE  /\ Ordered(Halts, told'[t]) /\ Ordered(Halts, inbox'[t])
               /\ \A c \in continues' : c.task = t => Ordered(Halts, c.items)
               /\ Follows(Halts, Read(t)', Items(t)' \cup Range(inbox'[t]) \cup Delivered(t)')
               /\ Follows(Halts, Items(t)', Range(inbox'[t]) \cup Delivered(t)')
               /\ Follows(Halts, Range(inbox'[t]), Delivered(t)')
    <3>1. Ordered(Halts, told'[t])
      BY <1>2 DEF Course, Reading, Lines
    <3>2. Ordered(Halts, inbox'[t])
      BY <1>7, EmptyIs DEF Course, Reading, Lines
    <3>3. \A c \in continues' : c.task = t => Ordered(Halts, c.items)
      BY <1>6 DEF Course, Reading, Lines
    <3>4. Follows(Halts, Read(t)', Items(t)' \cup Range(inbox'[t]) \cup Delivered(t)')
      BY <1>9 DEF Course, Reading, Lines, Follows
    <3>5. Follows(Halts, Items(t)', Range(inbox'[t]) \cup Delivered(t)')
      BY <1>9 DEF Course, Reading, Lines, Follows
    <3>6. Follows(Halts, Range(inbox'[t]), Delivered(t)')
      BY <1>9 DEF Course, Reading, Lines, Follows
    <3> QED
      BY <3>1, <3>2, <3>3, <3>4, <3>5, <3>6
  <2> QED
    BY <1>1, <2>1, LinesMoved
<1> QED
  BY <1>8, <1>11, <1>12 DEF Course, Reading

\* What a task is continued with follows what it has read.
LEMMA CourseContinue ==
  ASSUME Typed, Barrier, Doors, Course, [Next]_vars, Continue
  PROVE  Course'
<1>1. /\ Halts' = Halts /\ Halts \subseteq Inputs /\ \A n \in Inputs : Used(n) => Used(n)'
      /\ \A t \in Tasks : Goes(t)
  BY InputsGo, TasksGo, HaltsAre DEF Typed
<1>2. /\ Runs("continue") /\ todo' = todo
      /\ UNCHANGED <<held, inbox, deliveries, stops, ended, revived>>
  BY DEF Continue
<1>3. {"command", "wake"} \cap todo = {} /\ "continue" \in todo
  BY <1>2, RunsAt DEF Runs, Barrier, Typed, TypeOK
<1>4. PICK c \in continues :
        /\ continues' = continues \ {c}
        /\ \/ /\ Open(c.task) /\ status' = [status EXCEPT ![c.task] = "working"]
              /\ told' = [told EXCEPT ![c.task] = @ \o c.items]
           \/ UNCHANGED <<status, told>>
  BY DEF Continue
<1>5. c.task \in Tasks /\ c.items \in Seq(Inputs) /\ c.items \in Seq(Nat)
  <2>1. c.task \in Tasks /\ c.items \in Seq(Inputs)
    BY DEF Typed, TypeOK
  <2> QED
    BY <2>1, InputsAreNat, SeqSub
<1>6. \A t \in Tasks : /\ status'[t] = status[t] \/ (Open(t) /\ status'[t] = "working")
                       /\ told'[t] = told[t] \/ (t = c.task /\ told'[t] = told[t] \o c.items)
  BY <1>4, <1>5 DEF Typed, TypeOK
<1>7. Turns'
  <2>1. Left'
    BY <1>1, <1>2, <1>6 DEF Course, Turns, Left
  <2>2. \A d \in deliveries : d.task \in Tasks
    BY DEF Typed, TypeOK
  <2>3. Deliveries'
    BY <1>2, <1>6, <2>2 DEF Course, Turns, Deliveries
  <2>4. Continues'
    BY <1>2, <1>3, <1>4 DEF Course, Turns, Continues
  <2> QED
    BY <2>1, <2>3, <2>4 DEF Turns
<1>8. Range(c.items) \subseteq Items(c.task)
  BY DEF Items
<1>9. ASSUME NEW t \in Tasks
      PROVE  /\ Delivered(t)' = Delivered(t) /\ Items(t)' \subseteq Items(t)
             /\ Read(t)' = Read(t) \/ (t = c.task /\ Read(t)' = Read(t) \cup Range(c.items) /\ Items(t)' = {})
  <2>1. Delivered(t)' = Delivered(t)
    BY <1>2 DEF Delivered
  <2>2. Items(t)' \subseteq Items(t)
    BY <1>4 DEF Items
  <2>3. t = c.task => Items(t)' = {}
    BY <1>4 DEF Items, Course, Turns, Continues
  <2>4. told'[t] = told[t] => Read(t)' = Read(t)
    BY DEF Read
  <2>5. told'[t] = told[t] \o c.items => Read(t)' = Read(t) \cup Range(c.items)
    <3>1. told[t] \in Seq(Inputs)
      BY SequencesAre
    <3>2. Range(told[t] \o c.items) = Range(told[t]) \cup Range(c.items)
      BY <1>5, <3>1, Concat
    <3> QED
      BY <3>2 DEF Read
  <2> QED
    BY <1>6, <2>1, <2>2, <2>3, <2>4, <2>5
<1>10. ASSUME NEW t \in Tasks PROVE Texts(t)' \subseteq Texts(t)
  BY <1>2, <1>8, <1>9 DEF Texts
<1>11. NoneYet' /\ Since'
  BY <1>1, <1>2, <1>10, NoneYetKept, SinceKept DEF Course, Reading
<1>12. Lines'
  <2>1. ASSUME NEW t \in Tasks
        PROVE  /\ Ordered(Halts, told'[t]) /\ Ordered(Halts, inbox'[t])
               /\ \A d \in continues' : d.task = t => Ordered(Halts, d.items)
               /\ Follows(Halts, Read(t)', Items(t)' \cup Range(inbox'[t]) \cup Delivered(t)')
               /\ Follows(Halts, Items(t)', Range(inbox'[t]) \cup Delivered(t)')
               /\ Follows(Halts, Range(inbox'[t]), Delivered(t)')
    <3>1. Ordered(Halts, told'[t])
      <4>1. Ordered(Halts, told[t]) /\ Follows(Halts, Read(t), Items(t))
        BY DEF Course, Reading, Lines, Follows
      <4>2. Ordered(Halts, c.items)
        BY <1>5 DEF Course, Reading, Lines
      <4>3. t = c.task => Ordered(Halts, told[t] \o c.items)
        <5>1. told[t] \in Seq(Nat)
          BY SequencesAre
        <5>2. t = c.task => Follows(Halts, Range(told[t]), Range(c.items))
          BY <1>8, <4>1 DEF Follows, Read
        <5> QED
          BY <1>5, <4>1, <4>2, <5>1, <5>2, OrderedConcat
      <4> QED
        BY <1>6, <4>1, <4>3
    <3>2. Ordered(Halts, inbox'[t]) /\ \A d \in continues' : d.task = t => Ordered(Halts, d.items)
      BY <1>2, <1>4 DEF Course, Reading, Lines
    <3>3. Follows(Halts, Read(t)', Items(t)' \cup Range(inbox'[t]) \cup Delivered(t)')
      BY <1>2, <1>8, <1>9 DEF Course, Reading, Lines, Follows
    <3>4. Follows(Halts, Items(t)', Range(inbox'[t]) \cup Delivered(t)')
      BY <1>2, <1>9 DEF Course, Reading, Lines, Follows
    <3>5. Follows(Halts, Range(inbox'[t]), Delivered(t)')
      BY <1>2, <1>9 DEF Course, Reading, Lines, Follows
    <3> QED
      BY <3>1, <3>2, <3>3, <3>4, <3>5
  <2> QED
    BY <1>1, <2>1, LinesMoved
<1> QED
  BY <1>7, <1>11, <1>12 DEF Course, Reading

\* A request takes the inbox, which follows what was read.
LEMMA CourseDispatch ==
  ASSUME ConversationAssumption, Typed, Barrier, Doors, Course, [Next]_vars, Dispatch
  PROVE  Course'
<1>1. /\ Halts' = Halts /\ Halts \subseteq Inputs /\ \A n \in Inputs : Used(n) => Used(n)'
      /\ \A t \in Tasks : Goes(t)
  BY InputsGo, TasksGo, HaltsAre DEF Typed
<1>2. /\ Runs("dispatch") /\ todo' = todo \ {"dispatch"}
      /\ UNCHANGED <<continues, deliveries, stops, ended>>
  BY DEF Dispatch, Done
<1>3. todo = {"dispatch"} /\ todo' = {} /\ continues = {}
  <2>1. todo = {"dispatch"}
    BY <1>2, RunsAt DEF Barrier, Typed, TypeOK
  <2> QED
    BY <1>2, <2>1 DEF Course, Turns, Continues
<1> DEFINE resumed == {t \in answers : status[t] = "approval"}
           sending == {t \in Tasks : due[t] = "agent" \/ (due[t] = "live" /\ status[t] = "working")}
           calling == {t \in Tasks \ resumed : status[t] = "working" /\ "tool" \in held[t]}
<1>4. /\ \E asks \in {"nothing", "approval", "question"} :
           /\ status' = [t \in Tasks |->
                IF t \in resumed \cup sending THEN "working"
                ELSE IF t \in calling /\ asks # "nothing" THEN asks ELSE status[t]]
           /\ held' = [t \in Tasks |->
                IF t \in sending THEN held[t] \cup {"llm"}
                ELSE IF t \in calling /\ asks = "question" THEN held[t] \ {"tool"} ELSE held[t]]
      /\ told' = [t \in Tasks |-> IF t \in sending THEN told[t] \o inbox[t] ELSE told[t]]
      /\ inbox' = [t \in Tasks |-> IF t \in sending THEN <<>> ELSE inbox[t]]
      /\ revived' = revived \cup {t \in sending : status[t] = "ended"}
  BY DEF Dispatch
<1>5. PICK S, R, C :
        /\ S \subseteq Tasks /\ \A t \in C : status[t] = "working" /\ "tool" \in held[t]
        /\ \A t \in Tasks :
             /\ status'[t] \in {"approval", "question"} => t \in C \/ status'[t] = status[t]
             /\ status'[t] = "working" \/ status'[t] = status[t] \/ (t \in C /\ status'[t] # "user")
             /\ t \in S => status'[t] = "working"
             /\ held'[t] \subseteq held[t] \/ (t \in S /\ held'[t] = held[t] \cup {"llm"})
             /\ t \in S => told'[t] = told[t] \o inbox[t] /\ inbox'[t] = <<>>
             /\ t \notin S => told'[t] = told[t] /\ inbox'[t] = inbox[t]
        /\ revived' = revived \cup R /\ \A t \in R : status[t] = "ended"
  <2>1. sending \subseteq Tasks /\ \A t \in calling : status[t] = "working" /\ "tool" \in held[t]
    OBVIOUS
  <2>2. \A t \in Tasks :
             /\ t \in sending => told'[t] = told[t] \o inbox[t] /\ inbox'[t] = <<>>
             /\ t \notin sending => told'[t] = told[t] /\ inbox'[t] = inbox[t]
    BY <1>4
  <2>3. \A t \in {u \in sending : status[u] = "ended"} : status[t] = "ended"
    OBVIOUS
  <2>4. PICK asks \in {"nothing", "approval", "question"} :
           /\ status' = [t \in Tasks |->
                IF t \in resumed \cup sending THEN "working"
                ELSE IF t \in calling /\ asks # "nothing" THEN asks ELSE status[t]]
           /\ held' = [t \in Tasks |->
                IF t \in sending THEN held[t] \cup {"llm"}
                ELSE IF t \in calling /\ asks = "question" THEN held[t] \ {"tool"} ELSE held[t]]
    BY <1>4
  <2> HIDE DEF resumed, sending, calling
  <2>5. \A t \in Tasks :
             /\ status'[t] \in {"approval", "question"} => t \in calling \/ status'[t] = status[t]
             /\ status'[t] = "working" \/ status'[t] = status[t] \/ (t \in calling /\ status'[t] # "user")
             /\ t \in sending => status'[t] = "working"
             /\ held'[t] \subseteq held[t] \/ (t \in sending /\ held'[t] = held[t] \cup {"llm"})
    BY <2>4
  <2> QED
    BY <1>4, <2>1, <2>2, <2>3, <2>5
<1> HIDE DEF resumed, sending, calling
<1>6. Turns'
  <2>1. Left'
    <3>1. SUFFICES ASSUME NEW t \in Tasks, status'[t] = "user"
                   PROVE  /\ "llm" \notin held'[t]
                          /\ \A m \in Range(inbox'[t]) : \E s \in Halts' : Used(s)' /\ m <= s
      BY DEF Left
    <3>2. status[t] = "user" /\ t \notin S
      BY <1>5, <3>1
    <3>3. held'[t] \subseteq held[t] /\ inbox'[t] = inbox[t]
      BY <1>5, <3>2
    <3>4. /\ "llm" \notin held[t]
          /\ \A m \in Range(inbox[t]) : \E s \in Halts : Used(s) /\ m <= s
      BY <1>3, <3>2 DEF Course, Turns, Left
    <3> QED
      BY <1>1, <3>3, <3>4
  <2>2. Deliveries'
    <3>1. SUFFICES ASSUME NEW d \in deliveries
                   PROVE  /\ status'[d.task] \in {"working", "ended", "gone"}
                          /\ "tool" \notin held'[d.task] /\ d.task \notin stops
      BY <1>2, <1>3 DEF Deliveries
    <3>2. /\ d.task \in Tasks /\ status[d.task] \in {"working", "ended", "gone"}
          /\ "tool" \notin held[d.task] /\ d.task \notin stops
      BY <1>3 DEF Course, Turns, Deliveries, Typed, TypeOK
    <3>3. d.task \notin C
      BY <1>5, <3>2
    <3>4. status'[d.task] = "working" \/ status'[d.task] = status[d.task]
      BY <1>5, <3>2, <3>3
    <3>5. "tool" \notin held'[d.task]
      <4>1. \/ held'[d.task] \subseteq held[d.task]
            \/ held'[d.task] = held[d.task] \cup {"llm"}
        BY <1>5, <3>2
      <4>2. "tool" \notin held[d.task] \cup {"llm"}
        BY <3>2
      <4> QED
        BY <3>2, <4>1, <4>2
    <3> QED
      BY <3>2, <3>4, <3>5
  <2>3. Continues'
    BY <1>2, <1>3 DEF Continues
  <2> QED
    BY <2>1, <2>2, <2>3 DEF Turns
<1>7. ASSUME NEW t \in Tasks
      PROVE  /\ Delivered(t)' = Delivered(t) /\ Items(t)' = {}
             /\ \/ /\ t \notin S /\ Read(t)' = Read(t) /\ inbox'[t] = inbox[t] /\ told'[t] = told[t]
                \/ /\ t \in S /\ Read(t)' = Read(t) \cup Range(inbox[t])
                   /\ inbox'[t] = <<>> /\ Range(inbox'[t]) = {} /\ told'[t] = told[t] \o inbox[t]
  <2>1. Delivered(t)' = Delivered(t) /\ Items(t)' = {}
    BY <1>2, <1>3 DEF Delivered, Items
  <2>2. CASE t \notin S
    BY <1>5, <2>1, <2>2 DEF Read
  <2>3. CASE t \in S
    <3>1. told'[t] = told[t] \o inbox[t] /\ inbox'[t] = <<>>
      BY <1>5, <2>3
    <3>2. Range(told[t] \o inbox[t]) = Read(t) \cup Range(inbox[t])
      BY SequencesAre
    <3>3. Range(inbox'[t]) = {}
      BY <3>1, EmptyIs
    <3> QED
      BY <2>1, <2>3, <3>1, <3>2, <3>3 DEF Read
  <2> QED
    BY <2>2, <2>3
<1>8. ASSUME NEW t \in Tasks PROVE Texts(t)' \subseteq Texts(t)
  BY <1>7 DEF Texts
<1>9. NoneYet'
  <2>1. \A t \in Tasks : t \in revived' /\ t \notin revived => status[t] # "none"
    BY <1>5
  <2> QED
    BY <1>1, <1>8, <2>1, NoneYetKept DEF Course, Reading
<1>10. Since'
  <2>1. revived \subseteq revived' /\ \A m \in Inputs : ended'[m] = ended[m] \/ m \in waiting
    BY <1>2, <1>5
  <2> QED
    BY <1>1, <1>8, <2>1, SinceKept DEF Course, Reading
<1>11. Lines'
  <2>1. ASSUME NEW t \in Tasks
        PROVE  /\ Ordered(Halts, told'[t]) /\ Ordered(Halts, inbox'[t])
               /\ \A c \in continues' : c.task = t => Ordered(Halts, c.items)
               /\ Follows(Halts, Read(t)', Items(t)' \cup Range(inbox'[t]) \cup Delivered(t)')
               /\ Follows(Halts, Items(t)', Range(inbox'[t]) \cup Delivered(t)')
               /\ Follows(Halts, Range(inbox'[t]), Delivered(t)')
    <3>0. /\ Ordered(Halts, told[t]) /\ Ordered(Halts, inbox[t])
          /\ Follows(Halts, Read(t), Items(t) \cup Range(inbox[t]) \cup Delivered(t))
          /\ Follows(Halts, Range(inbox[t]), Delivered(t))
      BY DEF Course, Reading, Lines
    <3>1. Ordered(Halts, told'[t])
      <4>1. Follows(Halts, Range(told[t]), Range(inbox[t]))
        BY <3>0 DEF Follows, Read
      <4>2. Ordered(Halts, told[t] \o inbox[t])
        BY <3>0, <4>1, SequencesAre, OrderedConcat
      <4> QED
        BY <1>7, <3>0, <4>2
    <3>2. Ordered(Halts, inbox'[t])
      BY <1>7, <3>0, EmptyIs
    <3>3. \A c \in continues' : c.task = t => Ordered(Halts, c.items)
      BY <1>2, <1>3
    <3>4. Follows(Halts, Read(t)', Items(t)' \cup Range(inbox'[t]) \cup Delivered(t)')
      BY <1>7, <3>0 DEF Follows
    <3>5. Follows(Halts, Items(t)', Range(inbox'[t]) \cup Delivered(t)')
      BY <1>7 DEF Follows
    <3>6. Follows(Halts, Range(inbox'[t]), Delivered(t)')
      BY <1>7, <3>0 DEF Follows
    <3> QED
      BY <3>1, <3>2, <3>3, <3>4, <3>5, <3>6
  <2> QED
    BY <1>1, <2>1, LinesMoved
<1> QED
  BY <1>6, <1>9, <1>10, <1>11 DEF Course, Reading

\* Before the first input nothing is on its way.
LEMMA CourseInit ==
  ASSUME Init
  PROVE  Course
<1>1. /\ continues = {} /\ deliveries = {} /\ revived = {} /\ todo = {}
      /\ \A t \in Tasks : status[t] = "none" /\ told[t] = <<>> /\ inbox[t] = <<>>
  BY DEF Init
<1>2. ASSUME NEW t \in Tasks
      PROVE  Read(t) = {} /\ Items(t) = {} /\ Range(inbox[t]) = {} /\ Delivered(t) = {} /\ Texts(t) = {}
  <2>1. Range(told[t]) = {} /\ Range(inbox[t]) = {}
    BY <1>1, EmptyIs
  <2> QED
    BY <1>1, <2>1 DEF Read, Items, Delivered, Texts
<1>3. Turns
  BY <1>1 DEF Turns, Left, Deliveries, Continues
<1>4. NoneYet /\ Since
  BY <1>1, <1>2 DEF NoneYet, Since
<1>5. Lines
  <2>1. \A t \in Tasks : Ordered(Halts, told[t]) /\ Ordered(Halts, inbox[t])
    BY <1>1, EmptyIs
  <2>2. \A t \in Tasks :
          /\ \A c \in continues : c.task = t => Ordered(Halts, c.items)
          /\ Follows(Halts, Read(t), Items(t) \cup Range(inbox[t]) \cup Delivered(t))
          /\ Follows(Halts, Items(t), Range(inbox[t]) \cup Delivered(t))
          /\ Follows(Halts, Range(inbox[t]), Delivered(t))
    BY <1>1, <1>2 DEF Follows
  <2> QED
    BY <2>1, <2>2 DEF Lines
<1> QED
  BY <1>3, <1>4, <1>5 DEF Course, Reading

\* Every step keeps the course of the texts.
LEMMA CourseStep ==
  ASSUME ConversationAssumption, Typed, Barrier, Doors, Course, [Next]_vars
  PROVE  Course'
<1>1. Turns /\ Reading /\ Since
  BY DEF Course, Reading
<1>2. CASE \/ UNCHANGED vars
           \/ Arrive \/ Tick \/ \E t \in Tasks : ToolReturns(t) \/ Released(t) \/ ShellExits(t) \/ IdleEnds(t)
  <2>1. Reading'
    BY <1>1, <1>2, ReadingStays
  <2>2. Turns'
    BY <1>1, <1>2, TurnsBetween
  <2> QED
    BY <2>1, <2>2 DEF Course
<1>3. CASE \/ Order \/ Card \/ Command \/ Finish \/ Clear \/ RouteEnds \/ ContinueEnds \/ Llm \/ Stop \/ Terminate
  <2>1. Reading'
    BY <1>1, <1>3, ReadingStays
  <2>2. Turns'
    BY <1>1, <1>3, TurnsInputs, TurnsTasks, TurnsLlm, TurnsStop
  <2> QED
    BY <2>1, <2>2 DEF Course
<1>4. CASE Route \/ Create \/ Ingest \/ Wake \/ Continue \/ Dispatch
  BY <1>4, CourseRoute, CourseCreate, CourseIngest, CourseWake, CourseContinue, CourseDispatch
<1> QED
  BY <1>2, <1>3, <1>4 DEF Next, Frame

\* The order of what was read follows from the course of the texts.
LEMMA CourseIsInOrder ==
  ASSUME ConversationAssumption, Typed, Course
  PROVE  InOrder
<1>1. ASSUME NEW t \in Tasks, NEW p \in DOMAIN told[t], NEW q \in DOMAIN told[t], p < q, told[t][p] > told[t][q]
      PROVE  \E n \in told[t][q]..told[t][p] : script.kind[n] \in {"stop", "cardStop"}
  BY <1>1 DEF Course, Reading, Lines, Ordered, Stopped, Halts
<1>2. ASSUME NEW t \in Tasks, NEW n \in Read(t)
      PROVE  n >= t /\ (t \notin revived => \A m \in t..(n - 1) : ended[m] # t)
  <2>1. n >= t /\ (t \notin revived => \A m \in 1..n : ended[m] # t)
    BY DEF Course, Reading, Since, Texts
  <2>2. n \in Inputs /\ t \in Inputs
    BY TextsAre DEF Typed, Texts, Tasks
  <2>3. \A m \in t..(n - 1) : m \in 1..n
    BY <2>2, SMT DEF Inputs, ConversationAssumption
  <2> QED
    BY <2>1, <2>3
<1> QED
  BY <1>1, <1>2 DEF InOrder

\* A task reads the texts of its user in the order they were sent, but for one
\* that a stop has left in the inbox, none from before it was founded, and
\* none that was sent after the command that ended it, unless it was
\* dispatched after its end.
THEOREM InputsInOrder == Spec => []InOrder
<1> DEFINE Inv == Typed /\ Barrier /\ Doors /\ Course
<1>1. Init => Inv
  BY ConversationAssumption, InitIInv, TypeInit, BarrierInit, DoorsInit, CourseInit DEF Typed
<1>2. Inv /\ [Next]_vars => Inv'
  <2>1. SUFFICES ASSUME Inv, [Next]_vars PROVE Inv'
    OBVIOUS
  <2>2. Typed'
    BY <2>1, ConversationAssumption, TypedStep
  <2>3. Barrier'
    BY <2>1, <2>2, BarrierStep
  <2>4. Doors'
    BY <2>1, <2>2, <2>3, DoorsStep
  <2>5. Course'
    BY <2>1, ConversationAssumption, CourseStep
  <2> QED
    BY <2>2, <2>3, <2>4, <2>5
<1>3. Inv => InOrder
  BY ConversationAssumption, CourseIsInOrder
<1> QED
  BY <1>1, <1>2, <1>3, PTL DEF Spec

-----------------------------------------------------------------------------
(* The channel as its user sees it: every step of the conversation is one  *)
(* of ChannelSlot, or none.                                                *)

\* A message that may found a task is newer than every task, and so is the
\* task that has the channel.
Newest ==
  /\ \A n \in creates, u \in Tasks : status[u] # "none" => u < n
  /\ \A t, u \in Tasks : Owner(t) /\ status[u] # "none" => u <= t

\* Nobody but the creation of a task gives the channel away: who has it had it
\* before, and there are the tasks there were.
LEMMA OwnersStay ==
  ASSUME Typed, [Next]_vars, ~Create, NEW t \in Tasks
  PROVE  /\ (Open(t) \/ due[t] = "agent")' => Owner(t)
         /\ status'[t] # "none" <=> status[t] # "none"
<1>0. status[t] # "none" => status'[t] # "none"
  BY TasksGo DEF Goes
<1>1. CASE UNCHANGED <<status, due>>
  BY <1>1 DEF Owner, Open
<1>2. CASE Card
  <2>1. \/ UNCHANGED <<status, due>>
        \/ \E u \in Tasks : /\ status[u] = "question" /\ status' = [status EXCEPT ![u] = "working"]
                            /\ due' = [due EXCEPT ![u] = "live"]
    BY <1>2, Zenon DEF Card, Owes
  <2>2. CASE \E u \in Tasks : /\ status[u] = "question" /\ status' = [status EXCEPT ![u] = "working"]
                              /\ due' = [due EXCEPT ![u] = "live"]
    <3>1. PICK u \in Tasks : /\ status[u] = "question" /\ status' = [status EXCEPT ![u] = "working"]
                             /\ due' = [due EXCEPT ![u] = "live"]
      BY <2>2
    <3> QED
      BY <3>1 DEF Owner, Open, Typed, TypeOK
  <2> QED
    BY <1>1, <2>1, <2>2
<1>3. CASE Finish
  <2>1. t \in finishes => status[t] # "none"
    BY DEF Typed, IInv, Fresh
  <2>2. status'[t] = status[t] \/ (t \in finishes /\ status'[t] = "ended")
    BY <1>3 DEF Finish
  <2>3. due' = due
    BY <1>3 DEF Finish
  <2> QED
    BY <1>0, <2>1, <2>2, <2>3 DEF Owner, Open
<1>4. CASE Clear
  <2>1. t \in clears => status[t] # "none"
    BY DEF Typed, IInv, Fresh
  <2>2. /\ status'[t] = status[t] \/ (t \in clears /\ status'[t] = "gone")
        /\ due'[t] = due[t] \/ due'[t] = "none"
    BY <1>4 DEF Clear
  <2> QED
    BY <1>0, <2>1, <2>2 DEF Owner, Open
<1>5. CASE Route
  <2>1. \/ status'[t] = status[t]
        \/ status[t] \in {"user", "question"} /\ status'[t] = "working"
    BY <1>5, RouteIs
  <2>2. due'[t] = due[t] \/ due'[t] = "live"
    BY <1>5 DEF Route
  <2> QED
    BY <1>0, <2>1, <2>2 DEF Owner, Open
<1>6. CASE Continue
  <2>1. PICK c \in continues :
          \/ UNCHANGED <<status, due>>
          \/ /\ Open(c.task) /\ status' = [status EXCEPT ![c.task] = "working"]
             /\ due' = [due EXCEPT ![c.task] = "agent"]
    BY <1>6 DEF Continue, Owes
  <2>2. \/ status'[t] = status[t] /\ due'[t] = due[t]
        \/ Open(t) /\ status'[t] = "working"
    BY <2>1 DEF Typed, TypeOK
  <2> QED
    BY <2>2 DEF Owner, Open
<1>7. CASE Llm
  <2>1. status'[t] = status[t] \/ (status[t] = "working" /\ status'[t] \in {"user", "ended"})
    BY <1>7 DEF Llm, Nothing, Typed, TypeOK
  <2>2. due' = due
    BY <1>7 DEF Llm
  <2> QED
    BY <2>1, <2>2 DEF Owner, Open
<1>8. CASE Stop
  <2>1. status'[t] = status[t] \/ (Open(t) /\ status'[t] = "user")
    BY <1>8 DEF Stop
  <2>2. due'[t] = due[t] \/ due'[t] = "none"
    BY <1>8 DEF Stop
  <2> QED
    BY <1>0, <2>1, <2>2 DEF Owner, Open
<1>9. CASE Dispatch
  <2> DEFINE resumed == {u \in answers : status[u] = "approval"}
             sending == {u \in Tasks : due[u] = "agent" \/ (due[u] = "live" /\ status[u] = "working")}
             calling == {u \in Tasks \ resumed : status[u] = "working" /\ "tool" \in held[u]}
  <2>1. PICK asks \in {"nothing", "approval", "question"} :
          /\ status' = [u \in Tasks |->
               IF u \in resumed \cup sending THEN "working"
               ELSE IF u \in calling /\ asks # "nothing" THEN asks ELSE status[u]]
          /\ due' = [u \in Tasks |-> "none"]
    BY <1>9 DEF Dispatch
  <2>2. /\ t \in resumed => status[t] = "approval"
        /\ t \in sending => due[t] = "agent" \/ status[t] = "working"
        /\ t \in calling => status[t] = "working"
    OBVIOUS
  <2>3. due[t] = "agent" => status[t] # "none"
    BY DEF Typed, IInv, Named
  <2>4. /\ due'[t] = "none"
        /\ status'[t] = status[t] \/ t \in resumed \/ t \in sending \/ t \in calling
    BY <2>1
  <2> HIDE DEF resumed, sending, calling
  <2> QED
    BY <1>0, <2>2, <2>3, <2>4 DEF Owner, Open
<1>10. CASE ToolReturns(t)
  BY <1>10 DEF ToolReturns, Owner, Open
<1>11. CASE \E u \in Tasks : ToolReturns(u) \/ Released(u) \/ ShellExits(u) \/ IdleEnds(u)
  <2>1. status' = status /\ (due'[t] = due[t] \/ due'[t] = "live")
    BY <1>11 DEF ToolReturns, Released, ShellExits, IdleEnds, Owes, taskVars, Typed, TypeOK
  <2> QED
    BY <2>1 DEF Owner, Open
<1>12. CASE \/ UNCHANGED vars \/ Arrive \/ Tick
            \/ Order \/ Command \/ RouteEnds \/ Ingest \/ Wake \/ ContinueEnds \/ Terminate
  <2>1. UNCHANGED <<status, due>>
    <3>1. Command => UNCHANGED <<status, due>>
      BY CommandIs DEF taskVars
    <3> QED
      BY <1>12, <3>1 DEF vars, Arrive, Tick, Order, RouteEnds, Ingest, Wake, ContinueEnds, Terminate, taskVars
  <2> QED
    BY <1>1, <2>1
<1> QED
  BY <1>2, <1>3, <1>4, <1>5, <1>6, <1>7, <1>8, <1>9, <1>11, <1>12 DEF Next, Frame

\* What runs for a task that has ended ran for it before, or it was open.
LEMMA EndedHeld ==
  ASSUME Typed, [Next]_vars, NEW t \in Tasks, ~Open(t), status'[t] = "ended", held'[t] # {}
  PROVE  status[t] = "ended" /\ held[t] # {}
<1>0. status[t] \in {"none", "ended", "gone"}
  BY DEF Typed, TypeOK, Statuses, Open
<1>1. CASE UNCHANGED <<status, held>>
  BY <1>1
<1>2. CASE Card
  BY <1>2, CardIs DEF Open
<1>3. CASE Finish
  <2>1. t \in finishes => status[t] # "none"
    BY DEF Typed, IInv, Fresh
  <2>2. /\ status'[t] = status[t] \/ (t \in finishes /\ status[t] # "gone")
        /\ held'[t] = held[t] \/ held'[t] = Cancelled(held[t])
    BY <1>3 DEF Finish
  <2> QED
    BY <1>0, <2>1, <2>2, CancelledIs
<1>4. CASE Clear
  <2>1. /\ status'[t] = status[t] \/ status'[t] = "gone"
        /\ held'[t] \in {held[t], {}, Cancelled(held[t])}
    BY <1>4 DEF Clear
  <2> QED
    BY <2>1, CancelledIs
<1>5. CASE Route
  BY <1>5, RouteIs DEF Open
<1>6. CASE Create
  <2>1. held' = held /\ (status'[t] = status[t] \/ status'[t] = "working")
    BY <1>6 DEF Create
  <2> QED
    BY <2>1
<1>7. CASE Continue
  BY <1>7 DEF Continue, Typed, TypeOK
<1>8. CASE Llm
  <2>1. status'[t] = status[t] /\ held'[t] = held[t]
    BY <1>0, <1>8 DEF Llm, Nothing, Holds, Typed, TypeOK
  <2> QED
    BY <2>1
<1>9. CASE Stop
  <2>1. status'[t] = status[t] /\ held'[t] = held[t]
    BY <1>9 DEF Stop
  <2> QED
    BY <2>1
<1>10. CASE Terminate
  <2>1. /\ status' = status
        /\ held'[t] \in {held[t], Cancelled(held[t]), Cancelled(held[t] \ {"shell"})}
    BY <1>10 DEF Terminate
  <2>2. held[t] = {} => held[t] \ {"shell"} = {}
    OBVIOUS
  <2> QED
    BY <2>1, <2>2, CancelledIs
<1>11. CASE Dispatch
  <2> DEFINE resumed == {u \in answers : status[u] = "approval"}
             sending == {u \in Tasks : due[u] = "agent" \/ (due[u] = "live" /\ status[u] = "working")}
             calling == {u \in Tasks \ resumed : status[u] = "working" /\ "tool" \in held[u]}
  <2>1. PICK asks \in {"nothing", "approval", "question"} :
          /\ status' = [u \in Tasks |->
               IF u \in resumed \cup sending THEN "working"
               ELSE IF u \in calling /\ asks # "nothing" THEN asks ELSE status[u]]
          /\ held' = [u \in Tasks |->
               IF u \in sending THEN held[u] \cup {"llm"}
               ELSE IF u \in calling /\ asks = "question" THEN held[u] \ {"tool"} ELSE held[u]]
    BY <1>11 DEF Dispatch
  <2>2. t \notin calling
    BY <1>0
  <2> HIDE DEF resumed, sending, calling
  <2>3. t \notin sending /\ status'[t] = status[t] /\ held'[t] = held[t]
    BY <2>1, <2>2
  <2> QED
    BY <2>3
<1>12. CASE \E u \in Tasks : ToolReturns(u) \/ Released(u) \/ ShellExits(u) \/ IdleEnds(u)
  <2>1. PICK u \in Tasks : ToolReturns(u) \/ Released(u) \/ ShellExits(u) \/ IdleEnds(u)
    BY <1>12
  <2>2. status' = status
    BY <2>1 DEF ToolReturns, Released, ShellExits, IdleEnds, taskVars
  <2>3. /\ ToolReturns(u) => status[u] = "working" /\ \E w : held' = [held EXCEPT ![u] = w]
        /\ Released(u) => held' = [held EXCEPT ![u] = @ \ {"cancelled"}]
        /\ ShellExits(u) => held' = [held EXCEPT ![u] = @ \ {"shell"}]
        /\ IdleEnds(u) => held' = held
    BY DEF ToolReturns, Released, ShellExits, IdleEnds, taskVars, Holds
  <2>4. held \in [Tasks -> SUBSET Work]
    BY DEF Typed, TypeOK
  <2>5. CASE t # u
    BY <1>0, <2>1, <2>2, <2>3, <2>4, <2>5
  <2>6. CASE t = u
    <3>1. ~ToolReturns(u)
      BY <1>0, <2>3, <2>6
    <3>2. held'[t] \subseteq held[t]
      BY <2>1, <2>3, <2>4, <2>6, <3>1
    <3> QED
      BY <2>2, <3>2
  <2> QED
    BY <2>5, <2>6
<1>13. CASE \/ UNCHANGED vars \/ Arrive \/ Tick
            \/ Order \/ Command \/ RouteEnds \/ Ingest \/ Wake \/ ContinueEnds
  <2>1. UNCHANGED <<status, held>>
    <3>1. Command => UNCHANGED <<status, held>>
      BY CommandIs DEF taskVars
    <3> QED
      BY <1>13, <3>1 DEF vars, Arrive, Tick, Order, RouteEnds, Ingest, Wake, ContinueEnds, taskVars
  <2> QED
    BY <1>1, <2>1
<1> QED
  BY <1>2, <1>3, <1>4, <1>5, <1>6, <1>7, <1>8, <1>9, <1>10, <1>11, <1>12, <1>13 DEF Next, Frame

\* A task is founded, or none is.
LEMMA CreateIs ==
  ASSUME Typed, Create
  PROVE  \/ UNCHANGED <<status, held, due, creates>>
         \/ \E f \in creates :
              /\ f \in Tasks /\ creates' = {} /\ ~Closing /\ held' = held
              /\ status' = [t \in Tasks |-> IF t = f THEN "working" ELSE status[t]]
              /\ due' = [t \in Tasks |-> IF t = f THEN "live" ELSE due[t]]
              /\ \A t \in Tasks : ~Owner(t)
<1>1. held' = held
  BY DEF Create
<1>2. CASE creates = {} \/ Closing
  BY <1>1, <1>2 DEF Create
<1>3. CASE creates # {} /\ ~Closing
  <2>1. \A t \in Tasks : ~Owner(t)
    BY <1>3 DEF Typed, IInv, Quiet
  <2>2. OpenRoots = {}
    BY <2>1 DEF OpenRoots, Owner
  <2> DEFINE f == Foremost(creates)
  <2>3. f \in creates /\ f \in Tasks /\ Founded = {f}
    BY <1>3, FoundedIs DEF Typed, IInv
  <2>4. /\ creates' = {}
        /\ status' = [t \in Tasks |-> IF t \in Founded THEN "working" ELSE status[t]]
        /\ due' = [t \in Tasks |-> IF t \in Founded THEN "live" ELSE due[t]]
    BY <1>3, <2>2 DEF Create
  <2> HIDE DEF f
  <2>5. /\ status' = [t \in Tasks |-> IF t = f THEN "working" ELSE status[t]]
        /\ due' = [t \in Tasks |-> IF t = f THEN "live" ELSE due[t]]
    BY <2>3, <2>4
  <2> QED
    BY <1>1, <1>3, <2>1, <2>3, <2>4, <2>5
<1> QED
  BY <1>2, <1>3

\* Before the first input nobody has the channel.
LEMMA NewestInit ==
  ASSUME Init
  PROVE  Newest
<1>1. creates = {} /\ \A t \in Tasks : ~Owner(t)
  BY DEF Init, Owner, Open
<1> QED
  BY <1>1 DEF Newest

\* Messages that may found a task come of an input that was let in last.
LEMMA NewerInputs ==
  ASSUME Typed, Barrier, [Next]_vars, NEW n \in creates'
  PROVE  n \in creates \/ (n \in waiting /\ n \in Inputs)
<1>1. CASE creates' \subseteq creates
  BY <1>1
<1>2. CASE Command
  BY <1>2, CommandIs DEF inputVars
<1>3. CASE Route
  BY <1>3, RouteIs
<1>4. CASE \/ UNCHANGED vars \/ Arrive \/ Tick \/ (Frame /\ ~Command /\ ~Route)
           \/ \E t \in Tasks : ToolReturns(t) \/ Released(t) \/ ShellExits(t) \/ IdleEnds(t)
  <2>1. CASE \/ UNCHANGED vars \/ Arrive \/ Tick
             \/ \E t \in Tasks : ToolReturns(t) \/ Released(t) \/ ShellExits(t) \/ IdleEnds(t)
    BY <1>1, <2>1 DEF vars, Arrive, Tick, ToolReturns, Released, ShellExits, IdleEnds, mailVars
  <2>2. CASE Order \/ Card \/ Finish \/ Clear \/ RouteEnds \/ Create \/ Ingest \/ Wake
    BY <1>1, <2>2 DEF Order, Card, Finish, Clear, RouteEnds, Create, Ingest, Wake, mailVars
  <2>3. CASE Continue \/ ContinueEnds \/ Llm \/ Stop \/ Terminate \/ Dispatch
    BY <1>1, <2>3 DEF Continue, ContinueEnds, Llm, Stop, Terminate, Dispatch, mailVars
  <2> QED
    BY <1>4, <2>1, <2>2, <2>3 DEF Frame
<1> QED
  BY <1>2, <1>3, <1>4 DEF Next

LEMMA NewestStep ==
  ASSUME Typed, Barrier, Newest, [Next]_vars
  PROVE  Newest'
<1>1. \A n \in creates, u \in Tasks : status[u] # "none" => u < n
  BY DEF Newest
<1>2. \A t, u \in Tasks : (Open(t) \/ due[t] = "agent") /\ status[u] # "none" => u <= t
  BY DEF Newest, Owner
<1>3. CASE Create
  <2>1. CASE UNCHANGED <<status, held, due, creates>>
    BY <1>1, <1>2, <2>1 DEF Newest, Owner, Open
  <2>2. CASE \E f \in creates :
              /\ f \in Tasks /\ creates' = {} /\ ~Closing /\ held' = held
              /\ status' = [t \in Tasks |-> IF t = f THEN "working" ELSE status[t]]
              /\ due' = [t \in Tasks |-> IF t = f THEN "live" ELSE due[t]]
              /\ \A t \in Tasks : ~Owner(t)
    <3>1. PICK f \in creates :
              /\ f \in Tasks /\ creates' = {}
              /\ status' = [t \in Tasks |-> IF t = f THEN "working" ELSE status[t]]
              /\ due' = [t \in Tasks |-> IF t = f THEN "live" ELSE due[t]]
              /\ \A t \in Tasks : ~Owner(t)
      BY <2>2
    <3>2. \A t \in Tasks : Owner(t)' => t = f
      BY <3>1 DEF Owner, Open
    <3>3. ASSUME NEW u \in Tasks, status'[u] # "none" PROVE u <= f
      <4>1. u = f \/ u < f
        BY <1>1, <3>1, <3>3
      <4>2. u \in Nat /\ f \in Nat
        BY <3>1, SMT DEF Tasks, Inputs
      <4> QED
        BY <4>1, <4>2, SMT
    <3> QED
      BY <3>1, <3>2, <3>3 DEF Newest
  <2> QED
    BY <1>3, <2>1, <2>2, CreateIs
<1>4. CASE ~Create
  <2>1. \A t \in Tasks : /\ (Open(t) \/ due[t] = "agent")' => Owner(t)
                         /\ status'[t] # "none" <=> status[t] # "none"
    BY <1>4, OwnersStay
  <2>2. \A t, u \in Tasks : (Open(t) \/ due[t] = "agent")' /\ status'[u] # "none" => u <= t
    BY <2>1 DEF Newest
  <2>3. ASSUME NEW n \in creates', NEW u \in Tasks, status'[u] # "none" PROVE u < n
    <3>1. status[u] # "none" /\ u \in Inputs /\ Used(u)
      BY <2>1, <2>3, TasksUsed
    <3>2. CASE n \in creates
      BY <1>1, <3>1, <3>2
    <3>3. CASE n \in waiting
      BY <3>1, <3>3, AfterUsed
    <3> QED
      BY <3>2, <3>3, NewerInputs
  <2> QED
    BY <2>2, <2>3 DEF Newest, Owner
<1> QED
  BY <1>3, <1>4

Past == {t \in Tasks : status[t] # "none"}

\* At most one task has the channel, and then nothing is left of the others.
LEMMA OneOpen ==
  ASSUME Slot, NEW t \in Tasks, Open(t)
  PROVE  OpenRoots = {t} /\ ~Closing
<1>1. \A u \in Tasks : u # t => ~Open(u) /\ (status[u] = "ended" => held[u] = {})
  BY DEF Slot, Owner
<1>2. status[t] # "ended"
  BY DEF Open
<1> QED
  BY <1>1, <1>2 DEF OpenRoots, Closing

\* Every step is one of the channel's.
LEMMA ChannelStep ==
  ASSUME Typed, Typed', Newest, [Next]_vars
  PROVE  \/ Channel!Next
         \/ UNCHANGED <<OpenRoots, Past, Closing>>
<1>1. \A t \in Tasks : Open(t) => OpenRoots = {t} /\ ~Closing
  BY OneOpen DEF Typed, IInv
<1>2. \A t \in Tasks : Open(t)' => OpenRoots' = {t} /\ ~Closing'
  <2>1. Slot'
    BY DEF Typed, IInv
  <2>2. \A t, u \in Tasks : t # u /\ Open(t)' => ~Open(u)' /\ (status'[u] = "ended" => held'[u] = {})
    BY <2>1 DEF Slot, Owner
  <2>3. \A t \in Tasks : Open(t)' => status'[t] # "ended"
    BY DEF Open
  <2> QED
    BY <2>2, <2>3 DEF OpenRoots, Closing
<1>3. Closing \in BOOLEAN /\ Closing' \in BOOLEAN
  BY DEF Closing
<1>4. CASE Create
  <2>1. CASE UNCHANGED <<status, held, due, creates>>
    BY <2>1 DEF OpenRoots, Past, Closing, Open
  <2>2. CASE \E f \in creates :
              /\ f \in Tasks /\ creates' = {} /\ ~Closing /\ held' = held
              /\ status' = [t \in Tasks |-> IF t = f THEN "working" ELSE status[t]]
              /\ due' = [t \in Tasks |-> IF t = f THEN "live" ELSE due[t]]
              /\ \A t \in Tasks : ~Owner(t)
    <3>1. PICK f \in creates :
              /\ f \in Tasks /\ ~Closing /\ held' = held
              /\ status' = [t \in Tasks |-> IF t = f THEN "working" ELSE status[t]]
              /\ \A t \in Tasks : ~Owner(t)
      BY <2>2
    <3>2. OpenRoots = {} /\ OpenRoots' = {f}
      BY <3>1 DEF OpenRoots, Open, Owner
    <3>3. Past' = Past \cup {f} /\ \A u \in Past : u < f
      BY <3>1 DEF Past, Newest
    <3>4. ~Closing'
      BY <3>1 DEF Closing
    <3>5. Channel!Take(f)
      BY <1>3, <3>1, <3>2, <3>3, <3>4 DEF Channel!Take, Past, Closing
    <3> QED
      BY <3>1, <3>5 DEF Channel!Next
  <2> QED
    BY <1>4, <2>1, <2>2, CreateIs
<1>5. CASE ~Create
  <2>1. \A t \in Tasks : /\ (Open(t) \/ due[t] = "agent")' => Owner(t)
                         /\ status'[t] # "none" <=> status[t] # "none"
    BY <1>5, OwnersStay
  <2>2. Past' = Past
    BY <2>1 DEF Past
  <2>3. CASE OpenRoots # {} /\ OpenRoots' = {}
    BY <1>3, <2>2, <2>3 DEF Channel!Next, Channel!Leave, Past, Closing
  <2>4. CASE OpenRoots # {} /\ OpenRoots' # {}
    <3>1. PICK t \in Tasks : Open(t)
      BY <2>4 DEF OpenRoots
    <3>2. PICK u \in Tasks : Open(u)'
      BY <2>4 DEF OpenRoots
    <3>3. Owner(u) /\ Owner(t)
      BY <2>1, <3>1, <3>2 DEF Owner
    <3>4. t = u
      BY <3>3 DEF Typed, IInv, Slot
    <3> QED
      BY <1>1, <1>2, <1>3, <2>2, <3>1, <3>2, <3>4
  <2>5. CASE OpenRoots = {} /\ OpenRoots' # {}
    <3>1. PICK t \in Tasks : Open(t)'
      BY <2>5 DEF OpenRoots
    <3>2. Owner(t) /\ ~Open(t)
      BY <2>1, <2>5, <3>1 DEF OpenRoots
    <3>3. status[t] # "none"
      BY <3>2 DEF Owner, Typed, IInv, Named
    <3>4. t \in Past /\ \A u \in Past : u <= t
      BY <3>2, <3>3 DEF Past, Newest
    <3>5. OpenRoots' = {t} /\ Closing' = FALSE
      BY <1>2, <1>3, <3>1
    <3>6. Channel!Return(t)
      BY <2>2, <2>5, <3>4, <3>5 DEF Channel!Return, Past, Closing
    <3> QED
      BY <3>6 DEF Channel!Next
  <2>6. CASE OpenRoots = {} /\ OpenRoots' = {}
    <3>1. Closing' => Closing
      <4>1. \A t \in Tasks : ~Open(t)
        BY <2>6 DEF OpenRoots
      <4> QED
        BY <4>1, EndedHeld DEF Closing
    <3>2. Closing' = Closing \/ (Closing /\ Closing' = FALSE)
      BY <1>3, <3>1
    <3> QED
      BY <2>2, <2>6, <3>2 DEF Channel!Next, Channel!Settle, Past, Closing
  <2> QED
    BY <2>3, <2>4, <2>5, <2>6
<1> QED
  BY <1>4, <1>5

\* The channel is one task's at a time, each newer than those before it, and is
\* given to a new one only when nothing is left of the last, for any number of
\* inputs and any script of them: the conversation implements ChannelSlot.
THEOREM ChannelHasOneOwner == Spec => OneOwner
<1> DEFINE Inv == Typed /\ Barrier /\ Newest
<1>1. Init => Inv /\ Channel!Init
  <2> SUFFICES ASSUME Init PROVE Inv /\ Channel!Init
    OBVIOUS
  <2>1. Inv
    BY ConversationAssumption, InitIInv, TypeInit, BarrierInit, NewestInit DEF Typed
  <2>2. \A t \in Tasks : status[t] = "none"
    BY DEF Init
  <2>3. OpenRoots = {} /\ Past = {} /\ Closing = FALSE
    BY <2>2 DEF OpenRoots, Past, Closing, Open
  <2> QED
    BY <2>1, <2>3 DEF Channel!Init, Past, Closing
<1>2. Inv /\ [Next]_vars => Inv' /\ [Channel!Next]_(Channel!vars)
  <2> SUFFICES ASSUME Inv, [Next]_vars PROVE Inv' /\ [Channel!Next]_(Channel!vars)
    OBVIOUS
  <2>1. Typed'
    BY ConversationAssumption, TypedStep
  <2>2. Barrier'
    BY <2>1, BarrierStep
  <2>3. Newest'
    BY NewestStep
  <2>4. Channel!Next \/ UNCHANGED <<OpenRoots, Past, Closing>>
    BY <2>1, ChannelStep
  <2>5. [Channel!Next]_(Channel!vars)
    BY <2>4 DEF Channel!vars, Past, Closing
  <2> QED
    BY <2>1, <2>2, <2>3, <2>5
<1> QED
  BY <1>1, <1>2, PTL DEF Spec, OneOwner, Channel!Spec
=============================================================================

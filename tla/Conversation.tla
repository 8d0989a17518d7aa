---------------------------- MODULE Conversation ----------------------------
(***************************************************************************)
(* One channel and the user tasks that own it, one after the other: the    *)
(* barrier that orders inputs around commands and around a closing task,   *)
(* the routing of a text to a new task, a waiting task or the inbox of a   *)
(* working one, /finish, /stop, /clear, /btw and the cards of a client,    *)
(* and the end of an idle conversation.                                    *)
(*                                                                         *)
(* What the agent does in a turn is AgentTurn's subject; here it answers,  *)
(* fails, calls a tool, asks, or has its work cancelled.  A task is named  *)
(* by the input that created it.  Channels share nothing, so one is        *)
(* modelled.                                                               *)
(***************************************************************************)
EXTENDS Naturals, Sequences, FiniteSets, Functions

CONSTANTS
  N,        \* bound: inputs that arrive
  Scripts   \* what they are, each with the kind of channel they come from

Kinds == {"text", "new", "finish", "stop", "clear", "cardFinish", "cardStop", "cardAnswer"}
Cards == {"cardFinish", "cardStop", "cardAnswer"}

ASSUME ConversationAssumption ==
  /\ N \in Nat
  /\ Scripts \subseteq [client : BOOLEAN, kind : [1..N -> Kinds]]

VARIABLES
  script,    \* the inputs, known to the users alone until they arrive
  next,      \* InputSequencer: the number of the next input
  waiting,   \* UserInputMessage and InteractionRequest entities
  blocked,   \* those of them marked InputBlocked
  status,    \* per task: TaskStatus, "none" before it is created and "gone" after it is removed
  held,      \* per task: what still runs for its tree
  due,       \* per task: the request to be sent, for the agent named or for a live task only
  seen,      \* per task: task_termination_system has seen it end
  inbox,     \* per task: TaskInbox
  told,      \* per task: the user inputs of its short-term memory, in order
  creates,   \* CreateTaskMessage
  continues, \* ContinueTaskMessage
  deliveries, \* InboxDeliveryMessage
  answers,   \* ToolConfirmationResponseMessage
  finishes, stops, clears, \* FinishTaskMessage, StopTaskMessage, ClearTaskMessage
  todo,      \* systems this frame has still to run
  ended,     \* history: the task a command ended, 0 for none
  lost,      \* history: texts dropped after they were routed to a waiting task
  revived    \* history: tasks dispatched after their end

inputVars == <<next, waiting, blocked>>
taskVars == <<status, held, due, seen, inbox, told>>
mailVars == <<creates, continues, deliveries, answers, finishes, stops, clears>>
histVars == <<ended, lost, revived>>
vars == <<script, inputVars, taskVars, mailVars, todo, histVars>>

Inputs == 1..N
Tasks == Inputs
Statuses == {"none", "working", "user", "approval", "question", "ended", "gone"}
Work == {"llm", "tool", "cancelled", "shell"}
Open(t) == status[t] \in {"working", "user", "approval", "question"}
OpenRoots == {t \in Tasks : Open(t)}
IsText(n) == script.kind[n] = "text"
IsCard(n) == script.kind[n] \in Cards
First(S) == CHOOSE n \in S : \A m \in S : n <= m

\* The members of S, the smallest first.
InOrderOf(S) ==
  [k \in 1..Cardinality(S) |-> CHOOSE n \in S : Cardinality({m \in S : m < n}) = k - 1]

Systems == {"order", "card", "command", "finish", "clear", "stop", "route", "create", "continue",
            "ingest", "llm", "wake", "terminate", "dispatch"}

\* The edges of the plugins between these systems; all but "dispatch" are in
\* the Transform set.
Before(s) ==
  CASE s = "order" -> {}
    [] s = "card" -> {"order"}
    [] s = "command" -> {"card"}
    [] s \in {"finish", "clear", "route"} -> {"command"}
    [] s \in {"create", "ingest"} -> {"route"}
    [] s = "llm" -> {"ingest"}
    [] s \in {"wake", "stop", "terminate"} -> {"llm", "command"}
    [] s = "continue" -> {"wake", "route"}
    [] OTHER -> Systems \ {"dispatch"}

Runs(s) == s \in todo /\ Before(s) \cap todo = {}
Done(s) == Runs(s) /\ todo' = todo \ {s}

Init ==
  /\ script \in Scripts /\ next = 1 /\ waiting = {} /\ blocked = {}
  /\ status = [t \in Tasks |-> "none"] /\ held = [t \in Tasks |-> {}]
  /\ due = [t \in Tasks |-> "none"] /\ seen = [t \in Tasks |-> FALSE]
  /\ inbox = [t \in Tasks |-> <<>>] /\ told = [t \in Tasks |-> <<>>]
  /\ creates = {} /\ continues = {} /\ deliveries = {} /\ answers = {}
  /\ finishes = {} /\ stops = {} /\ clears = {}
  /\ todo = {} /\ ended = [n \in Inputs |-> 0] /\ lost = {} /\ revived = {}

-----------------------------------------------------------------------------
\* Between frames.

\* input_ingress and frontend_input give the next number; signal_ingest
\* turns the signal into a message.
Arrive ==
  /\ todo = {} /\ next <= N
  /\ next' = next + 1 /\ waiting' = waiting \cup {next}
  /\ UNCHANGED <<script, blocked, taskVars, mailVars, todo, histVars>>

\* A frame begins.
Tick ==
  /\ todo = {} /\ todo' = Systems
  /\ UNCHANGED <<script, inputVars, taskVars, mailVars, histVars>>

Holds(t, w) == held' = [held EXCEPT ![t] = w]

Owes(t, d) == due' = [due EXCEPT ![t] = d]

\* A tool of the loop returns, and the next request is due; the tool may have
\* started a shell session.
ToolReturns(t) ==
  /\ todo = {} /\ status[t] = "working" /\ "tool" \in held[t]
  /\ \E more \in {{}, {"shell"}} : Holds(t, (held[t] \ {"tool"}) \cup more)
  /\ Owes(t, "live")
  /\ UNCHANGED <<script, inputVars, status, seen, inbox, told, mailVars, todo, histVars>>

\* Cancelled work is gone: the aborted request, the cancelled worker, the
\* children that were ended.
Released(t) ==
  /\ todo = {} /\ "cancelled" \in held[t]
  /\ Holds(t, held[t] \ {"cancelled"})
  /\ UNCHANGED <<script, inputVars, status, due, seen, inbox, told, mailVars, todo, histVars>>

\* A shell session ends by itself.
ShellExits(t) ==
  /\ todo = {} /\ "shell" \in held[t]
  /\ Holds(t, held[t] \ {"shell"})
  /\ UNCHANGED <<script, inputVars, status, due, seen, inbox, told, mailVars, todo, histVars>>

\* conversation_idle: nothing was heard of the task for long.
IdleEnds(t) ==
  /\ todo = {} /\ status[t] \in {"user", "question"} /\ held[t] = {} /\ inbox[t] = <<>>
  /\ \A d \in deliveries : d.task # t
  /\ finishes' = finishes \cup {t}
  /\ UNCHANGED <<script, inputVars, taskVars, creates, continues, deliveries, answers, stops,
                 clears, todo, histVars>>

-----------------------------------------------------------------------------
\* The barrier.

\* Mutant: sessions are not counted.
ClosingButShells == \E t \in Tasks : status[t] = "ended" /\ held[t] \ {"shell"} # {}

\* channel_is_closing: an ended task whose tree still has work or sessions.
Closing == \E t \in Tasks : status[t] = "ended" /\ held[t] # {}

\* A task that is being cleared keeps the channel as well.
Clearing == \E t \in clears : status[t] \notin {"none", "gone"}

\* Mutant: commands do not hold back what follows them.
HeldBackByClosing(n) ==
  \/ (Closing \/ Clearing) /\ ~IsCard(n)
  \/ ~IsText(n) /\ \E m \in waiting : m < n

\* A command waits until it is first, and what follows it waits for it.
HeldBack(n) ==
  \/ (Closing \/ Clearing) /\ ~IsCard(n)
  \/ \E m \in waiting : m < n /\ ~(IsText(m) /\ IsText(n))

\* Mutant: the mark is never taken off.
MarkedForGood == blocked \cup {n \in waiting : HeldBack(n)}

Marked == {n \in waiting : HeldBack(n)}

\* conversation_input_order
Order ==
  /\ Done("order") /\ blocked' = Marked
  /\ UNCHANGED <<script, next, waiting, taskVars, mailVars, histVars>>

Free == waiting \ blocked
Consumed(n) == waiting' = waiting \ {n} /\ UNCHANGED <<next, blocked>>
EndedBy(n, S) == ended' = [ended EXCEPT ![n] = IF S = {} THEN 0 ELSE First(S)]

\* interaction_request: a card of the client names its task, and the
\* revision of it that the client saw.
Card ==
  /\ Done("card")
  /\ IF {n \in Free : IsCard(n)} = {}
       THEN UNCHANGED <<inputVars, status, due, finishes, stops, histVars>>
       ELSE \E n \in {m \in Free : IsCard(m)}, t \in {m \in Tasks : status[m] # "none"} \cup {0},
               fresh \in BOOLEAN :
         LET ok == t # 0 /\ Open(t) /\ fresh
         IN
         /\ t < n /\ Consumed(n)
         /\ finishes' = IF ok /\ script.kind[n] = "cardFinish" THEN finishes \cup {t} ELSE finishes
         /\ stops' = IF ok /\ script.kind[n] = "cardStop" /\ status[t] # "user"
                     THEN stops \cup {t} ELSE stops
         /\ IF ok /\ script.kind[n] = "cardAnswer" /\ status[t] = "question"
              THEN status' = [status EXCEPT ![t] = "working"] /\ Owes(t, "live")
              ELSE UNCHANGED <<status, due>>
         /\ EndedBy(n, IF ok /\ script.kind[n] = "cardFinish" THEN {t} ELSE {}) /\ UNCHANGED <<lost, revived>>
  /\ UNCHANGED <<script, held, seen, inbox, told, creates, continues, deliveries, answers, clears>>

\* With more than one open task a command is refused.
Sole == IF Cardinality(OpenRoots) = 1 THEN OpenRoots ELSE {}

\* command_parse
Command ==
  /\ Done("command")
  /\ IF {n \in Free : ~IsText(n) /\ ~IsCard(n)} = {}
       THEN UNCHANGED <<inputVars, creates, finishes, stops, clears, histVars>>
       ELSE LET n == First({m \in Free : ~IsText(m) /\ ~IsCard(m)})
                To(k, S) == IF script.kind[n] = k THEN S ELSE {}
            IN
            /\ Consumed(n)
            /\ creates' = creates \cup To("new", IF OpenRoots = {} THEN {n} ELSE {})
            /\ finishes' = finishes \cup To("finish", Sole)
            /\ stops' = stops \cup To("stop", Sole)
            /\ clears' = clears \cup To("clear", Sole)
            /\ EndedBy(n, To("finish", Sole) \cup To("clear", Sole)) /\ UNCHANGED <<lost, revived>>
  /\ UNCHANGED <<script, taskVars, continues, deliveries, answers>>

Cancelled(w) == IF w \cap {"llm", "tool"} = {} THEN w
                ELSE (w \ {"llm", "tool"}) \cup {"cancelled"}

\* finish_task: children are ended and requests aborted with the task.
Finish ==
  /\ Done("finish") /\ finishes' = {}
  /\ LET over == {t \in finishes : status[t] # "gone"}
     IN
     /\ status' = [t \in Tasks |-> IF t \in over THEN "ended" ELSE status[t]]
     /\ held' = [t \in Tasks |-> IF t \in over THEN Cancelled(held[t]) ELSE held[t]]
  /\ UNCHANGED <<script, inputVars, due, seen, inbox, told, creates, continues, deliveries, answers,
                 stops, clears, histVars>>

\* clear_task: work is cancelled, and the task goes when it is gone and its
\* sessions could be stopped.
Clear ==
  /\ Done("clear")
  /\ \E gone \in SUBSET {t \in clears : held[t] \subseteq {"shell"}} :
       /\ {t \in clears : held[t] = {}} \subseteq gone
       /\ clears' = clears \ gone
       /\ status' = [t \in Tasks |-> IF t \in gone THEN "gone" ELSE status[t]]
       /\ held' = [t \in Tasks |-> IF t \in gone THEN {}
                                   ELSE IF t \in clears THEN Cancelled(held[t]) ELSE held[t]]
       /\ due' = [t \in Tasks |-> IF t \in gone THEN "none" ELSE due[t]]
  /\ UNCHANGED <<script, inputVars, seen, inbox, told, creates, continues, deliveries, answers,
                 finishes, stops, histVars>>

-----------------------------------------------------------------------------
\* Routing.

FreeTexts == {n \in Free : IsText(n)}

\* user_input_routing, the first of the texts that are left.
Route ==
  /\ Runs("route") /\ FreeTexts # {}
  /\ LET n == First(FreeTexts)
         only(S) == {t \in Sole : status[t] \in S}
         toUser == only({"user"})
         toWork == only({"working"})
         answered == IF script.client THEN {} ELSE only({"approval"})
         replied == IF script.client THEN {} ELSE only({"question"})
     IN
     /\ Consumed(n)
     /\ status' = [t \in Tasks |-> IF t \in toUser \cup replied THEN "working" ELSE status[t]]
     /\ due' = [t \in Tasks |-> IF t \in replied THEN "live" ELSE due[t]]
     /\ continues' = continues \cup {[task |-> t, items |-> <<n>>] : t \in toUser}
     /\ deliveries' = deliveries \cup {[task |-> t, item |-> n] : t \in toWork}
     /\ answers' \in {answers, answers \cup answered}   \* an option, or anything else
     /\ creates' = creates \cup (IF OpenRoots = {} THEN {n} ELSE {})
  /\ UNCHANGED <<script, held, seen, inbox, told, finishes, stops, clears, todo, histVars>>

RouteEnds ==
  /\ Done("route") /\ FreeTexts = {}
  /\ UNCHANGED <<script, inputVars, taskVars, mailVars, histVars>>

\* Texts have their number; /btw has none and comes last.
Foremost(S) == IF {n \in S : IsText(n)} = {} THEN First(S) ELSE First({n \in S : IsText(n)})

\* The channel is reserved for one of the messages.
Founded == {Foremost(creates)}

\* user_message_to_task: messages wait for a closing task, the first one
\* creates the task and the others go to its inbox; if a task is open they
\* are routed again.  That last branch is for the entries of plugins: a text
\* becomes a creation only when no task is open and keeps others out until then
\* (`Quiet` in Conversation_proofs), and there is never more than one /btw.
Create ==
  /\ Done("create")
  /\ IF creates = {} \/ Closing
       THEN UNCHANGED <<waiting, status, due, told, creates, deliveries>>
       ELSE
         /\ creates' = {}
         /\ IF OpenRoots # {}
              THEN waiting' = waiting \cup creates /\ UNCHANGED <<status, due, told, deliveries>>
              ELSE
                /\ status' = [t \in Tasks |-> IF t \in Founded THEN "working" ELSE status[t]]
                /\ due' = [t \in Tasks |-> IF t \in Founded THEN "live" ELSE due[t]]
                /\ told' = [t \in Tasks |-> IF t \in Founded THEN <<t>> ELSE told[t]]
                /\ deliveries' = deliveries \cup
                     {[task |-> First(Founded), item |-> n] : n \in creates \ Founded}
                /\ UNCHANGED waiting
  /\ UNCHANGED <<script, next, blocked, held, seen, inbox, continues, answers, finishes, stops,
                 clears, histVars>>

\* inbox_ingest: in the order of their numbers; an ended task takes nothing.
Ingest ==
  /\ Done("ingest") /\ deliveries' = {}
  /\ inbox' = [t \in Tasks |->
       IF Open(t) THEN inbox[t] \o InOrderOf({d.item : d \in {e \in deliveries : e.task = t}})
       ELSE inbox[t]]
  /\ UNCHANGED <<script, inputVars, status, held, due, seen, told, creates, continues, answers, finishes,
                 stops, clears, histVars>>

\* inbox_wake: an idle task is continued with its inbox.
Wake ==
  /\ Done("wake")
  /\ LET idle == {t \in Tasks : status[t] = "user" /\ inbox[t] # <<>>}
     IN
     /\ continues' = continues \cup {[task |-> t, items |-> inbox[t]] : t \in idle}
     /\ inbox' = [t \in Tasks |-> IF t \in idle THEN <<>> ELSE inbox[t]]
  /\ UNCHANGED <<script, inputVars, status, held, due, seen, told, creates, deliveries, answers, finishes,
                 stops, clears, histVars>>

\* continue_task: an ended task is not continued.
Continue ==
  /\ Runs("continue")
  /\ \E c \in continues :
       /\ continues' = continues \ {c}
       /\ IF Open(c.task)
            THEN /\ status' = [status EXCEPT ![c.task] = "working"]
                 /\ told' = [told EXCEPT ![c.task] = @ \o c.items]
                 /\ Owes(c.task, "agent") /\ UNCHANGED lost
            ELSE lost' = lost \cup Range(c.items) /\ UNCHANGED <<status, due, told>>
  /\ UNCHANGED <<script, inputVars, held, seen, inbox, creates, deliveries, answers, finishes, stops,
                 clears, todo, ended, revived>>

ContinueEnds ==
  /\ Done("continue") /\ continues = {}
  /\ UNCHANGED <<script, inputVars, taskVars, mailVars, histVars>>

-----------------------------------------------------------------------------
\* The turn, as far as a conversation sees it.

Nothing == UNCHANGED <<status, held>>

\* llm_response: the answer of a request ends the turn, or calls a tool, or
\* the task fails.
Llm ==
  /\ Done("llm")
  /\ \/ Nothing
     \/ \E t \in Tasks :
          /\ status[t] = "working" /\ "llm" \in held[t]
          /\ \/ status' = [status EXCEPT ![t] = "user"] /\ Holds(t, held[t] \ {"llm"})
             \/ Holds(t, (held[t] \ {"llm"}) \cup {"tool"}) /\ UNCHANGED status
             \/ status' = [status EXCEPT ![t] = "ended"] /\ Holds(t, held[t] \ {"llm"})
  /\ UNCHANGED <<script, inputVars, due, seen, inbox, told, mailVars, histVars>>

\* stop_task: the turn is interrupted and its request withdrawn, the inbox
\* stays, and so does what continue_task has asked for.
Stop ==
  /\ Done("stop") /\ stops' = {}
  /\ LET stopped == {t \in stops : Open(t) /\ status[t] # "user"}
     IN
     /\ status' = [t \in Tasks |-> IF t \in stopped THEN "user" ELSE status[t]]
     /\ held' = [t \in Tasks |-> IF t \in stopped THEN Cancelled(held[t]) ELSE held[t]]
     /\ due' = [t \in Tasks |-> IF t \in stopped /\ due[t] = "live" THEN "none" ELSE due[t]]
  /\ UNCHANGED <<script, inputVars, seen, inbox, told, creates, continues, deliveries, answers,
                 finishes, clears, histVars>>

\* task_termination: sessions of a task that has ended are stopped, once; a
\* session that cannot be stopped keeps the channel.
Terminate ==
  /\ Done("terminate")
  /\ LET over == {t \in Tasks : status[t] = "ended" /\ ~seen[t]}
     IN
     /\ seen' = [t \in Tasks |-> status[t] = "ended"]
     /\ \E kept \in SUBSET {t \in over : "shell" \in held[t]} :
          held' = [t \in Tasks |-> IF t \in over \ kept THEN Cancelled(held[t] \ {"shell"})
                                   ELSE IF t \in over THEN Cancelled(held[t]) ELSE held[t]]
  /\ UNCHANGED <<script, inputVars, status, due, inbox, told, mailVars, histVars>>

\* Dispatch and Execution: a confirmation is answered or asked for, the agent
\* asks, or the request that is due takes the inbox with it.  A request for
\* the agent of a continued task does not look at the status, so an ended
\* task works again.
Dispatch ==
  /\ Done("dispatch") /\ answers' = {}
  /\ LET resumed == {t \in answers : status[t] = "approval"}
         sending == {t \in Tasks : due[t] = "agent" \/ (due[t] = "live" /\ status[t] = "working")}
         calling == {t \in Tasks \ resumed : status[t] = "working" /\ "tool" \in held[t]}
     IN \E asks \in {"nothing", "approval", "question"} :
        /\ status' = [t \in Tasks |->
             IF t \in resumed \cup sending THEN "working"
             ELSE IF t \in calling /\ asks # "nothing" THEN asks ELSE status[t]]
        /\ held' = [t \in Tasks |->
             IF t \in sending THEN held[t] \cup {"llm"}
             ELSE IF t \in calling /\ asks = "question" THEN held[t] \ {"tool"} ELSE held[t]]
        /\ told' = [t \in Tasks |-> IF t \in sending THEN told[t] \o inbox[t] ELSE told[t]]
        /\ inbox' = [t \in Tasks |-> IF t \in sending THEN <<>> ELSE inbox[t]]
        /\ due' = [t \in Tasks |-> "none"]
        /\ revived' = revived \cup {t \in sending : status[t] = "ended"}
  /\ UNCHANGED <<script, inputVars, seen, creates, continues, deliveries, finishes, stops, clears,
                 ended, lost>>

-----------------------------------------------------------------------------
Frame ==
  \/ Order \/ Card \/ Command \/ Finish \/ Clear \/ Route \/ RouteEnds \/ Create \/ Ingest \/ Wake
  \/ Continue \/ ContinueEnds \/ Llm \/ Stop \/ Terminate \/ Dispatch

Next ==
  \/ Arrive \/ Tick \/ Frame
  \/ \E t \in Tasks : ToolReturns(t) \/ Released(t) \/ ShellExits(t) \/ IdleEnds(t)

Spec == Init /\ [][Next]_vars

LlmAnswers == Llm /\ held' # held

Returns == \E t \in Tasks : ToolReturns(t)

\* Frames go on; a request is answered and a tool returns some time, and since
\* each may happen at one point of a frame only, that takes strong fairness.
\* Cancelled work and sessions need never be gone.
FairSpec ==
  /\ Spec /\ WF_vars(Tick) /\ WF_vars(Frame)
  /\ SF_vars(LlmAnswers) /\ SF_vars(Returns)

-----------------------------------------------------------------------------
\* Properties.

TypeOK ==
  /\ script \in Scripts /\ next \in 1..(N + 1) /\ waiting \subseteq Inputs /\ blocked \subseteq Inputs
  /\ status \in [Tasks -> Statuses] /\ held \in [Tasks -> SUBSET Work] /\ seen \in [Tasks -> BOOLEAN]
  /\ due \in [Tasks -> {"none", "live", "agent"}] /\ revived \subseteq Tasks
  /\ inbox \in [Tasks -> Seq(Inputs)] /\ told \in [Tasks -> Seq(Inputs)]
  /\ creates \subseteq Inputs /\ continues \subseteq [task : Tasks, items : Seq(Inputs)]
  /\ deliveries \subseteq [task : Tasks, item : Inputs]
  /\ answers \subseteq Tasks /\ finishes \subseteq Tasks /\ stops \subseteq Tasks /\ clears \subseteq Tasks
  /\ todo \subseteq Systems /\ ended \in [Inputs -> {0} \cup Tasks] /\ lost \subseteq Inputs

\* A channel has one user task at a time: while a task is open, every other
\* one has ended and nothing of its tree runs any more.  An ended task that is
\* dispatched does not break it: no input was let through in between.
SlotExclusive ==
  \A t, u \in Tasks : Open(t) /\ t # u => ~Open(u) /\ (status[u] = "ended" => held[u] = {})

Read(t) == Range(told[t])

\* Inputs keep their order: a task reads texts in the order they were sent
\* (unless one was left in the inbox by a stop in between), none that was sent
\* before the task was founded, and none sent after the command that ended it.
\* The last is not said of a task that was dispatched after its end (`revived`,
\* see EndsForGood): it works again and reads what the user sends it.
InOrder ==
  \A t \in Tasks :
    /\ \A p, q \in DOMAIN told[t] : p < q /\ told[t][p] > told[t][q] =>
         \E n \in told[t][q]..told[t][p] : script.kind[n] \in {"stop", "cardStop"}
    /\ \A n \in Read(t) : n >= t /\ (t \notin revived => \A m \in t..(n - 1) : ended[m] # t)

Pending(n) ==
  \/ n \in waiting \cup creates
  \/ \E t \in OpenRoots : n \in Range(inbox[t])
  \/ \E d \in deliveries : d.item = n
  \/ \E c \in continues : n \in Range(c.items)

AsksUser == \E t \in Tasks : status[t] \in {"approval", "question"}

\* A task at its end is not let go: a session of it cannot be stopped, or a
\* worker does not heed its cancellation (cancel_monitor.rs:15-17).
Unstoppable ==
  \E t \in Tasks :
    \/ "shell" \in held[t] /\ (seen[t] \/ t \in clears)
    \/ "cancelled" \in held[t] /\ (status[t] = "ended" \/ t \in clears)

\* Every input is taken in the end, by a task, a command or the end of its
\* task, unless the user is asked or the task before cannot be let go.  As
\* inputs are finitely many, none is pending then.
InputsSettle ==
  []<>(AsksUser \/ Unstoppable \/ \A n \in Inputs : ~Pending(n))

\* An ended task stays so.
EndsForGood == revived = {}

\* A text that is taken for a waiting task is read by it, or the user has
\* ended the task after sending it.
AcceptedIsRead == \A n \in lost : \E m \in Inputs : m > n /\ ended[m] # 0

\* What the channel promises: it is one task's at a time, each newer than those
\* before it, and is given to a new one only when nothing is left of the work of
\* the last, however that one ended, by a command, a card, the idle end or its
\* own failure (ChannelSlot).
Channel == INSTANCE ChannelSlot WITH
  owner <- OpenRoots,
  past <- {t \in Tasks : status[t] # "none"},
  closing <- \E t \in Tasks : status[t] = "ended" /\ held[t] # {}

OneOwner == Channel!Spec
=============================================================================

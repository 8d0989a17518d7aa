----------------------------- MODULE ChannelSlot -----------------------------
(***************************************************************************)
(* What a channel promises its user: one user task at a time, each newer   *)
(* than the ones before it, and a new one only when nothing is left of the *)
(* work of the last.  Conversation implements this specification.          *)
(***************************************************************************)
EXTENDS Naturals

CONSTANT Tasks

VARIABLES
  owner,   \* the task that is open, if there is one
  past,    \* the tasks there have been, the owner included
  closing  \* work of a task that has ended still runs

vars == <<owner, past, closing>>

Init == owner = {} /\ past = {} /\ closing = FALSE

\* A task is founded.
Take(t) ==
  /\ owner = {} /\ ~closing /\ \A u \in past : u < t
  /\ owner' = {t} /\ past' = past \cup {t} /\ UNCHANGED closing

\* The task ends, or is cleared; what it had begun may have to end first.
Leave ==
  /\ owner # {} /\ owner' = {}
  /\ closing' \in BOOLEAN /\ UNCHANGED past

\* The last of its work has ended.
Settle == closing /\ closing' = FALSE /\ UNCHANGED <<owner, past>>

\* A task that has ended is dispatched, which the program lets happen to the
\* last one only.
Return(t) ==
  /\ owner = {} /\ t \in past /\ \A u \in past : u <= t
  /\ owner' = {t} /\ closing' = FALSE /\ UNCHANGED past

Next == Leave \/ Settle \/ \E t \in Tasks : Take(t) \/ Return(t)

Spec == Init /\ [][Next]_vars
=============================================================================

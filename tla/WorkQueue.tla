------------------------------ MODULE WorkQueue ------------------------------
(***************************************************************************)
(* What the main loop promises its producers: every piece of work handed   *)
(* over is served once, sooner or later, as long as the loop has not been  *)
(* told to end.  RunLoop implements this specification.                    *)
(***************************************************************************)
CONSTANT Items

VARIABLES
  queued,  \* handed over, not served yet
  served,  \* served
  open     \* the loop has not ended

vars == <<queued, served, open>>

Init == queued = {} /\ served = {} /\ open = TRUE

Send(i) ==
  /\ i \in Items \ (queued \cup served)
  /\ queued' = queued \cup {i}
  /\ UNCHANGED <<served, open>>

Serve(S) ==
  /\ open
  /\ S # {} /\ S \subseteq queued
  /\ queued' = queued \ S
  /\ served' = served \cup S
  /\ UNCHANGED open

Close == open /\ open' = FALSE /\ UNCHANGED <<queued, served>>

Next ==
  \/ \E i \in Items : Send(i)
  \/ \E S \in SUBSET queued : Serve(S)
  \/ Close

Spec ==
  /\ Init /\ [][Next]_vars
  /\ \A i \in Items : WF_vars(\E S \in SUBSET queued : i \in S /\ Serve(S))
=============================================================================

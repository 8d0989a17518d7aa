------------------------------ MODULE OutputLog ------------------------------
(***************************************************************************)
(* What session output promises its user: the lines of a session are shown *)
(* in order and settled in order, a line that was shown is not shown again *)
(* and one that was settled neither.  SessionOutput implements this        *)
(* specification.                                                          *)
(***************************************************************************)
EXTENDS Naturals

CONSTANT Sessions

VARIABLES
  read,     \* per session: lines that were read
  shown,    \* lines the user has surely got that are not settled
  settled   \* per session: lines with a record of their delivery or its failure

vars == <<read, shown, settled>>

Init ==
  /\ read = [s \in Sessions |-> 0] /\ settled = [s \in Sessions |-> 0] /\ shown = {}

Line(s) ==
  /\ read' = [read EXCEPT ![s] = @ + 1]
  /\ UNCHANGED <<shown, settled>>

\* The lines up to n, the first ones that are not settled.
Upto(s, n) == {<<s, m>> : m \in settled[s] + 1..n}

Show(s, n) ==
  /\ settled[s] < n /\ n <= read[s] /\ Upto(s, read[s]) \cap shown = {}
  /\ shown' = shown \cup Upto(s, n)
  /\ UNCHANGED <<read, settled>>

\* All of what was shown is settled at once, or what could not be shown is.
Settle(s, n) ==
  /\ settled[s] < n /\ n <= read[s]
  /\ Upto(s, read[s]) \cap shown \in {{}, Upto(s, n)}
  /\ settled' = [settled EXCEPT ![s] = n]
  /\ shown' = shown \ Upto(s, n)
  /\ UNCHANGED read

Next ==
  \E s \in Sessions : Line(s) \/ \E n \in 1..read[s] : Show(s, n) \/ Settle(s, n)

Spec == Init /\ [][Next]_vars
=============================================================================

-------------------------- MODULE RuntimeDeadlines --------------------------
(***************************************************************************)
(* The replaceable deadline index of the main loop: a map from keys to     *)
(* instants and the same entries ordered by instant, so that the next one  *)
(* is found without a scan and a replaced one leaves no stale heap entry.  *)
(* An index is a record [by_key, by_time]; by_key is a partial function.   *)
(***************************************************************************)
EXTENDS Integers, FiniteSets

Index(Keys, Times) ==
  [by_key : UNION {[K -> Times] : K \in SUBSET Keys},
   by_time : SUBSET (Times \X Keys)]

Empty == [by_key |-> [k \in {} |-> 0], by_time |-> {}]

Armed(x) == DOMAIN x.by_key

\* remove: both entries of the key go.
Remove(x, k) ==
  IF k \in Armed(x)
    THEN [by_key  |-> [j \in Armed(x) \ {k} |-> x.by_key[j]],
          by_time |-> x.by_time \ {<<x.by_key[k], k>>}]
    ELSE x

\* set: the previous deadline of the key is removed first.
Set(x, k, at) ==
  LET y == Remove(x, k)
  IN  [by_key  |-> [j \in Armed(y) \cup {k} |-> IF j = k THEN at ELSE y.by_key[j]],
       by_time |-> y.by_time \cup {<<at, k>>}]

\* next: an instant no armed one precedes (the first of by_time).
IsNext(x, at) ==
  /\ \E e \in x.by_time : e[1] = at
  /\ \A e \in x.by_time : at <= e[1]

\* take_due pops by_time while its first entry is not after now, and drops the
\* popped keys from by_key.
Popped(x, now) == {e \in x.by_time : e[1] <= now}
Due(x, now) == {e[2] : e \in Popped(x, now)}

AfterDue(x, now) ==
  [by_key  |-> [j \in Armed(x) \ Due(x, now) |-> x.by_key[j]],
   by_time |-> x.by_time \ Popped(x, now)]

\* The two halves of the index hold the same deadlines.
Agree(x) == x.by_time = {<<x.by_key[k], k>> : k \in Armed(x)}
=============================================================================

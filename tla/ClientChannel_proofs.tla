------------------------ MODULE ClientChannel_proofs ------------------------
(***************************************************************************)
(* Proofs about the client channel: its event streams and commands, then   *)
(* its outbox of notifications, two users of one store.  They hold for any *)
(* number of clients, commands, requests, notifications, recipients and    *)
(* limits, and any number of failed writes, restarts and lost connections: *)
(* a stream tells the durable log, a quiet client is current, a command is *)
(* executed once, a request answered once, no notification is sent twice   *)
(* without consent, and the quota holds.                                   *)
(***************************************************************************)
EXTENDS ClientSync, Outbox, SequenceTheorems, FiniteSetTheorems, WellFoundedInduction, TLAPS

-----------------------------------------------------------------------------
(* Types.                                                                  *)

Events == 1..MaxEvents + MaxFaults

\* A state of the store has room for the events it will still see, the ones
\* numbered in writes that failed included.
Fits(s, b, f) ==
  s \in State /\ Len(s.log) <= MaxEvents /\ b <= Len(s.log) + f

StorageOK ==
  /\ Fits(state, born, faults) /\ Fits(disk, born, faults)
  /\ failed \in BOOLEAN /\ (~failed => disk = state)
  /\ born \in Nat /\ faults \in 0..MaxFaults

RuntimeOK ==
  /\ accepting \in BOOLEAN /\ input \subseteq Commands
  /\ reached \in [Commands -> Nat] /\ presented \subseteq Requests

ClientsOK ==
  /\ stream \in [Clients -> [at : {"off", "connecting", "read", "send", "wait"},
                             cursor : 0..MaxEvents, woken : BOOLEAN]]
  /\ told \in [Clients -> Seq(Events)]
  /\ fetch \in [Clients -> [at : {"idle", "asked", "answered"}, cursor : 0..MaxEvents]]
  /\ again \subseteq Clients /\ lost \subseteq Clients
  /\ shown \in [Clients -> 0..MaxEvents]
  /\ crashes \in 0..MaxCrashes /\ drops \in 0..MaxDrops

\* What a client was told is the beginning of the file's log.
ToldAt(c) ==
  /\ Len(told[c]) <= Len(disk.log)
  /\ \A i \in 1..Len(told[c]) : told[c][i] = disk.log[i]
  /\ stream[c].at # "off" => Len(told[c]) = stream[c].cursor

Told == \A c \in Clients : ToldAt(c)

\* A client that waits for a change asked for the latest state, or got it.
QuietAt(c) ==
  (accepting /\ ~failed /\ stream[c].at = "wait" /\ ~stream[c].woken) =>
    /\ fetch[c].at = "idle" /\ c \notin lost => shown[c] = Len(state.log)
    /\ fetch[c].at = "answered" /\ c \notin again => fetch[c].cursor = Len(state.log)

Quiet == \A c \in Clients : QuietAt(c)

Delivered(k) == k \in input \/ reached[k] > 0

\* The ledger s knows what was delivered, and no more was done than it says.
Knows(s, k) ==
  /\ Delivered(k) => k \in DOMAIN s.commands /\ s.commands[k] # "runtime_unavailable"
  /\ k \in DOMAIN s.commands /\ s.commands[k] = "processed" => reached[k] = 1

Receipts ==
  \A k \in Commands :
    /\ reached[k] \in {0, 1} /\ (k \in input => reached[k] = 0)
    /\ Knows(state, k) /\ Knows(disk, k)

\* A request is claimed before its answer is delivered, and stays so.
Claims ==
  /\ DOMAIN state.approvals \subseteq presented
  /\ \A k \in Commands : Delivered(k) /\ Kind[k] \in Requests =>
       /\ Kind[k] \in presented
       /\ Kind[k] \in DOMAIN state.approvals => state.approvals[Kind[k]]
  /\ \A k, l \in Commands :
       Delivered(k) /\ Delivered(l) /\ Kind[k] \in Requests /\ Kind[l] = Kind[k] => k = l

SyncInv ==
  /\ StorageOK /\ RuntimeOK /\ ClientsOK
  /\ Told /\ Quiet /\ Receipts /\ Claims

-----------------------------------------------------------------------------
(* The store's states.                                                     *)

\* The parts of a state.
LEMMA StateParts ==
  ASSUME NEW s \in State
  PROVE  /\ s = [log |-> s.log, commands |-> s.commands, approvals |-> s.approvals]
         /\ s.log \in Seq(Events) /\ Len(s.log) \in Nat
         /\ DOMAIN s.commands \subseteq Commands /\ s.commands \in [DOMAIN s.commands -> Status]
         /\ DOMAIN s.approvals \subseteq Requests /\ s.approvals \in [DOMAIN s.approvals -> BOOLEAN]
<1>1. /\ s = [log |-> s.log, commands |-> s.commands, approvals |-> s.approvals]
      /\ s.log \in Seq(Events)
      /\ s.commands \in UNION {[S -> Status] : S \in SUBSET Commands}
      /\ s.approvals \in UNION {[S -> BOOLEAN] : S \in SUBSET Requests}
  BY DEF State, Events
<1>2. PICK S \in SUBSET Commands : s.commands \in [S -> Status]
  BY <1>1
<1>3. PICK A \in SUBSET Requests : s.approvals \in [A -> BOOLEAN]
  BY <1>1
<1> QED BY <1>1, <1>2, <1>3, LenProperties

\* What makes a state.
LEMMA StateMade ==
  ASSUME NEW L \in Seq(Events), NEW S \in SUBSET Commands, NEW f \in [S -> Status],
         NEW A \in SUBSET Requests, NEW g \in [A -> BOOLEAN]
  PROVE  [log |-> L, commands |-> f, approvals |-> g] \in State
BY DEF State, Events

\* A value is put into a map.
LEMMA WithIs ==
  ASSUME NEW X, NEW V, NEW D \in SUBSET X, NEW f \in [D -> V], NEW x \in X, NEW v \in V
  PROVE  /\ With(f, x, v) \in [D \cup {x} -> V]
         /\ \A y \in D \cup {x} : With(f, x, v)[y] = IF y = x THEN v ELSE f[y]
BY DEF With

\* What a change of the store leaves alone: the log grows by an event at most.
Extends(s, t) ==
  /\ t \in State
  /\ Len(t.log) = Len(s.log) \/ Len(t.log) = Len(s.log) + 1
  /\ \A i \in 1..Len(s.log) : t.log[i] = s.log[i]

\* An event is appended.
LEMMA AppendedIs ==
  ASSUME NEW s \in State, born + 1 \in Events
  PROVE  /\ Appended(s) = [log |-> Append(s.log, born + 1), commands |-> s.commands,
                           approvals |-> s.approvals]
         /\ Extends(s, Appended(s))
         /\ Len(Appended(s).log) = Len(s.log) + 1
<1> DEFINE L == Append(s.log, born + 1)
<1>2. /\ s = [log |-> s.log, commands |-> s.commands, approvals |-> s.approvals]
      /\ s.log \in Seq(Events) /\ Len(s.log) \in Nat
  BY StateParts
<1>1. Appended(s) = [log |-> L, commands |-> s.commands, approvals |-> s.approvals]
  <2>1. ASSUME NEW x, NEW y, NEW u, NEW v
        PROVE  [[log |-> x, commands |-> y, approvals |-> u] EXCEPT !.log = v]
                 = [log |-> v, commands |-> y, approvals |-> u]
    OBVIOUS
  <2>2. Appended(s) = [s EXCEPT !.log = L]
    BY DEF Appended
  <2> QED BY <1>2, <2>1, <2>2, Zenon
<1>3. L \in Seq(Events)
  BY <1>2, AppendProperties
<1>4. Len(L) = Len(s.log) + 1
  BY <1>2, AppendProperties
<1>5. \A i \in 1..Len(s.log) : L[i] = s.log[i]
  BY <1>2, AppendProperties
<1> HIDE DEF L
<1>6. Appended(s) \in State
  <2>1. /\ DOMAIN s.commands \in SUBSET Commands /\ s.commands \in [DOMAIN s.commands -> Status]
        /\ DOMAIN s.approvals \in SUBSET Requests /\ s.approvals \in [DOMAIN s.approvals -> BOOLEAN]
    BY StateParts
  <2> QED BY <1>1, <1>3, <2>1, StateMade
<1>7. Appended(s).log = L
  BY <1>1
<1> QED BY <1>1, <1>4, <1>5, <1>6, <1>7 DEF Extends, L

\* A command is put into the ledger; an answer claims its request.
LEMMA AcceptedIs ==
  ASSUME state \in State, NEW k \in Commands, Acceptable(k), Logs(k) => born + 1 \in Events
  PROVE  /\ Extends(state, Accepted(k))
         /\ Logs(k) => Len(Accepted(k).log) = Len(state.log) + 1
         /\ ~Logs(k) => Len(Accepted(k).log) = Len(state.log)
         /\ DOMAIN Accepted(k).commands = DOMAIN state.commands \cup {k}
         /\ Accepted(k).commands[k] = "queued"
         /\ \A j \in DOMAIN state.commands \ {k} : Accepted(k).commands[j] = state.commands[j]
         /\ DOMAIN Accepted(k).approvals = DOMAIN state.approvals
         /\ \A r \in DOMAIN state.approvals :
              Accepted(k).approvals[r] = IF Kind[k] = r THEN TRUE ELSE state.approvals[r]
<1> DEFINE K == DOMAIN state.commands
           R == DOMAIN state.approvals
           f == With(state.commands, k, "queued")
           g == [r \in R |-> IF Kind[k] = r THEN TRUE ELSE state.approvals[r]]
           ledger == [state EXCEPT !.commands = f]
           claimed == IF Kind[k] \in Requests
                        THEN [ledger EXCEPT !.approvals[Kind[k]] = TRUE] ELSE ledger
           c == [log |-> state.log, commands |-> f, approvals |-> g]
<1>1. /\ state = [log |-> state.log, commands |-> state.commands, approvals |-> state.approvals]
      /\ state.log \in Seq(Events) /\ Len(state.log) \in Nat
      /\ K \in SUBSET Commands /\ state.commands \in [K -> Status]
      /\ R \in SUBSET Requests /\ state.approvals \in [R -> BOOLEAN]
  BY StateParts
<1>2. /\ f \in [K \cup {k} -> Status]
      /\ \A j \in K \cup {k} : f[j] = IF j = k THEN "queued" ELSE state.commands[j]
  <2>1. "queued" \in Status
    BY DEF Status
  <2> QED BY <1>1, <2>1 DEF With
<1>3. g \in [R -> BOOLEAN]
  BY <1>1
<1>4. ledger = [log |-> state.log, commands |-> f, approvals |-> state.approvals]
  BY <1>1
<1>5. claimed = c
  <2>1. CASE Kind[k] \in Requests
    <3>1. claimed = [log |-> state.log, commands |-> f,
                     approvals |-> [state.approvals EXCEPT ![Kind[k]] = TRUE]]
      BY <2>1, <1>4
    <3>2. [state.approvals EXCEPT ![Kind[k]] = TRUE] = g
      BY <1>1
    <3> QED BY <3>1, <3>2
  <2>2. CASE Kind[k] \notin Requests
    <3>1. g = state.approvals
      BY <2>2, <1>1
    <3> QED BY <2>2, <3>1, <1>4
  <2> QED BY <2>1, <2>2
<1>6. Accepted(k) = IF Logs(k) THEN Appended(c) ELSE c
  BY <1>5 DEF Accepted
<1>7. c \in State
  <2>1. K \cup {k} \in SUBSET Commands
    BY <1>1
  <2> HIDE DEF K, R, f, g
  <2> QED BY <1>1, <1>2, <1>3, <2>1, StateMade
<1>8. /\ DOMAIN f = K \cup {k} /\ f[k] = "queued" /\ \A j \in K \ {k} : f[j] = state.commands[j]
      /\ DOMAIN g = R /\ \A r \in R : g[r] = IF Kind[k] = r THEN TRUE ELSE state.approvals[r]
  BY <1>2
<1> HIDE DEF f, g, ledger, claimed
<1>9. CASE Logs(k)
  <2>1. born + 1 \in Events
    BY <1>9
  <2>2. /\ Appended(c) = [log |-> Append(c.log, born + 1), commands |-> c.commands,
                          approvals |-> c.approvals]
        /\ Extends(c, Appended(c)) /\ Len(Appended(c).log) = Len(c.log) + 1
    <3> HIDE DEF c
    <3> QED BY <1>7, <2>1, AppendedIs
  <2>3. c.log = state.log /\ Appended(c).commands = f /\ Appended(c).approvals = g
    BY <2>2
  <2>4. Accepted(k) = Appended(c)
    BY <1>9, <1>6
  <2> HIDE DEF c
  <2> QED BY <1>8, <1>9, <2>2, <2>3, <2>4 DEF Extends
<1>10. CASE ~Logs(k)
  <2>1. Accepted(k) = c
    BY <1>10, <1>6
  <2>2. c.log = state.log /\ c.commands = f /\ c.approvals = g
    OBVIOUS
  <2> HIDE DEF c
  <2> QED BY <1>7, <1>8, <1>10, <2>1, <2>2 DEF Extends
<1> QED BY <1>9, <1>10

\* A command is rejected.
LEMMA RejectedIs ==
  ASSUME NEW s \in State, NEW k \in DOMAIN s.commands
  PROVE  /\ Rejected(s, k) \in State
         /\ Rejected(s, k).log = s.log /\ Rejected(s, k).approvals = s.approvals
         /\ DOMAIN Rejected(s, k).commands = DOMAIN s.commands
         /\ Rejected(s, k).commands[k] = "runtime_unavailable"
         /\ \A j \in DOMAIN s.commands \ {k} : Rejected(s, k).commands[j] = s.commands[j]
<1> DEFINE f == [s.commands EXCEPT ![k] = "runtime_unavailable"]
<1>1. /\ s = [log |-> s.log, commands |-> s.commands, approvals |-> s.approvals]
      /\ s.log \in Seq(Events)
      /\ DOMAIN s.commands \in SUBSET Commands /\ s.commands \in [DOMAIN s.commands -> Status]
      /\ DOMAIN s.approvals \in SUBSET Requests /\ s.approvals \in [DOMAIN s.approvals -> BOOLEAN]
  BY StateParts
<1>2. Rejected(s, k) = [log |-> s.log, commands |-> f, approvals |-> s.approvals]
  BY <1>1 DEF Rejected
<1>3. f \in [DOMAIN s.commands -> Status]
  BY <1>1 DEF Status
<1>4. /\ DOMAIN f = DOMAIN s.commands /\ f[k] = "runtime_unavailable"
      /\ \A j \in DOMAIN s.commands \ {k} : f[j] = s.commands[j]
  BY <1>1
<1> HIDE DEF f
<1>5. Rejected(s, k) \in State
  BY <1>1, <1>2, <1>3, StateMade
<1> QED BY <1>2, <1>4, <1>5

\* The store is opened again.
LEMMA ReopenedIs ==
  ASSUME NEW s \in State
  PROVE  /\ Reopened(s) \in State
         /\ Reopened(s).log = s.log
         /\ DOMAIN Reopened(s).approvals = {}
         /\ DOMAIN Reopened(s).commands = DOMAIN s.commands
         /\ \A k \in DOMAIN s.commands :
              Reopened(s).commands[k] = IF s.commands[k] = "queued"
                                          THEN "unknown_after_restart" ELSE s.commands[k]
<1> DEFINE f == [k \in DOMAIN s.commands |-> IF s.commands[k] = "queued"
                                               THEN "unknown_after_restart" ELSE s.commands[k]]
           none == {}
           g == [r \in none |-> TRUE]
<1>1. /\ s = [log |-> s.log, commands |-> s.commands, approvals |-> s.approvals]
      /\ s.log \in Seq(Events)
      /\ DOMAIN s.commands \in SUBSET Commands /\ s.commands \in [DOMAIN s.commands -> Status]
  BY StateParts
<1>2. Reopened(s) = [log |-> s.log, commands |-> f, approvals |-> g]
  BY DEF Reopened, Fresh
<1>3. f \in [DOMAIN s.commands -> Status]
  BY <1>1 DEF Status
<1>4. g \in [none -> BOOLEAN] /\ none \in SUBSET Requests /\ DOMAIN g = {}
  OBVIOUS
<1>5. /\ DOMAIN f = DOMAIN s.commands
      /\ \A k \in DOMAIN s.commands :
           f[k] = IF s.commands[k] = "queued" THEN "unknown_after_restart" ELSE s.commands[k]
  OBVIOUS
<1> HIDE DEF f, g, none
<1>6. Reopened(s) \in State
  <2>1. DOMAIN s.commands \in SUBSET Commands /\ s.log \in Seq(Events)
    BY <1>1
  <2>2. f \in UNION {[S -> Status] : S \in SUBSET Commands}
    BY <1>3, <2>1
  <2>3. g \in UNION {[S -> BOOLEAN] : S \in SUBSET Requests}
    BY <1>4
  <2> QED BY <1>2, <2>1, <2>2, <2>3 DEF State, Events
<1> QED BY <1>2, <1>4, <1>5, <1>6

\* An event is appended, and the rest of the session is what the event says.
LEMMA LoggedIs ==
  ASSUME state \in State, born + 1 \in Events,
         NEW S \in SUBSET Commands, NEW f \in [S -> Status],
         NEW A \in SUBSET Requests, NEW g \in [A -> BOOLEAN],
         NEW n, n = [log |-> Append(state.log, born + 1), commands |-> f, approvals |-> g]
  PROVE  Extends(state, n) /\ Len(n.log) = Len(state.log) + 1
<1>1. state.log \in Seq(Events) /\ Len(state.log) \in Nat
  BY StateParts
<1> DEFINE L == Append(state.log, born + 1)
<1>2. L \in Seq(Events)
  BY <1>1, AppendProperties
<1>3. Len(L) = Len(state.log) + 1
  BY <1>1, AppendProperties
<1>4. \A i \in 1..Len(state.log) : L[i] = state.log[i]
  BY <1>1, AppendProperties
<1> HIDE DEF L
<1>5. n.log = L /\ n = [log |-> L, commands |-> f, approvals |-> g]
  BY DEF L
<1>6. n \in State
  BY <1>2, <1>5, StateMade
<1> QED BY <1>3, <1>4, <1>5, <1>6 DEF Extends

\* The fields of a connection.
Conns == [at : {"off", "connecting", "read", "send", "wait"}, cursor : 0..MaxEvents,
          woken : BOOLEAN]

LEMMA ConnFields ==
  ASSUME NEW x \in Conns, NEW a \in {"off", "connecting", "read", "send", "wait"},
         NEW w \in BOOLEAN
  PROVE  /\ x = [at |-> x.at, cursor |-> x.cursor, woken |-> x.woken]
         /\ x.at \in {"off", "connecting", "read", "send", "wait"}
         /\ x.cursor \in 0..MaxEvents /\ x.woken \in BOOLEAN
         /\ [x EXCEPT !.woken = w] = [at |-> x.at, cursor |-> x.cursor, woken |-> w]
         /\ [x EXCEPT !.at = a] = [at |-> a, cursor |-> x.cursor, woken |-> x.woken]
         /\ [x EXCEPT !.woken = w] \in Conns
         /\ [x EXCEPT !.at = a] \in Conns
<1>1. /\ x = [at |-> x.at, cursor |-> x.cursor, woken |-> x.woken]
      /\ x.at \in {"off", "connecting", "read", "send", "wait"}
      /\ x.cursor \in 0..MaxEvents /\ x.woken \in BOOLEAN
  BY DEF Conns
<1>2. [x EXCEPT !.woken = w] = [at |-> x.at, cursor |-> x.cursor, woken |-> w]
  BY <1>1
<1>3. [x EXCEPT !.at = a] = [at |-> a, cursor |-> x.cursor, woken |-> x.woken]
  BY <1>1
<1>4. [at |-> x.at, cursor |-> x.cursor, woken |-> w] \in Conns
  BY <1>1 DEF Conns
<1>5. [at |-> a, cursor |-> x.cursor, woken |-> x.woken] \in Conns
  BY <1>1 DEF Conns
<1> QED BY <1>1, <1>2, <1>3, <1>4, <1>5

-----------------------------------------------------------------------------
(* What a change of the store preserves.                                   *)

\* The store keeps its types, whether the file is written or not.
LEMMA Storing ==
  ASSUME StorageOK, NEW s \in State, NEW t \in State, ~failed,
         Len(s.log) <= MaxEvents, Len(t.log) <= MaxEvents, born' \in Nat,
         born' <= Len(t.log) + faults, born' <= Len(s.log) + faults + 1,
         Persisted(t) \/ NotPersisted(s, t)
  PROVE  StorageOK'
<1>1. Len(s.log) \in Nat /\ Len(t.log) \in Nat
  BY StateParts
<1>2. MaxFaults \in Nat /\ faults \in 0..MaxFaults
  BY StoreAssumption DEF StorageOK
<1>3. CASE Persisted(t)
  BY <1>1, <1>2, <1>3 DEF StorageOK, Fits, Persisted, WriteSucceeds
<1>4. CASE NotPersisted(s, t)
  <2>1. /\ failed' = TRUE /\ faults' = faults + 1 /\ faults < MaxFaults
        /\ state' = s /\ disk' \in {s, t}
    BY <1>4 DEF NotPersisted, WriteFails
  <2>2. faults' \in 0..MaxFaults
    BY <1>2, <2>1
  <2>3. born' <= Len(s.log) + faults' /\ born' <= Len(t.log) + faults'
    <3>1. faults' = faults + 1 /\ faults \in Nat
      BY <1>2, <2>1
    <3>2. \A a, b, x, f \in Nat :
             b <= a + f + 1 /\ b <= x + f => b <= a + (f + 1) /\ b <= x + (f + 1)
      OBVIOUS
    <3> QED BY <1>1, <3>1, <3>2
  <2>4. Fits(s, born', faults') /\ Fits(t, born', faults')
    BY <2>3 DEF Fits
  <2> QED BY <2>1, <2>2, <2>4 DEF StorageOK
<1> QED BY <1>3, <1>4

\* The clients, when the store has changed: they are woken, or the change is
\* not for them yet.
LEMMA StoreClients ==
  ASSUME StorageOK, ClientsOK, Told, Quiet,
         NEW l, disk'.log = l, Len(l) \in Nat, Len(disk.log) <= Len(l),
         \A i \in 1..Len(disk.log) : l[i] = disk.log[i],
         UNCHANGED <<told, fetch, again, shown, lost, drops, crashes>>,
         Wake \/ (UNCHANGED stream /\ (failed' \/ ~accepting'))
  PROVE  ClientsOK' /\ Told' /\ Quiet'
<1>1. \A c \in Clients : stream'[c].at = stream[c].at /\ stream'[c].cursor = stream[c].cursor
  <2>1. CASE Wake
    BY <2>1 DEF Wake, ClientsOK
  <2>2. CASE UNCHANGED stream
    BY <2>2
  <2> QED BY <2>1, <2>2
<1>2. stream' \in [Clients -> [at : {"off", "connecting", "read", "send", "wait"},
                              cursor : 0..MaxEvents, woken : BOOLEAN]]
  <2>1. CASE Wake
    <3>1. \A c \in Clients : [stream[c] EXCEPT !.woken = TRUE] \in
            [at : {"off", "connecting", "read", "send", "wait"}, cursor : 0..MaxEvents,
             woken : BOOLEAN]
      <4> SUFFICES ASSUME NEW c \in Clients
                   PROVE  [stream[c] EXCEPT !.woken = TRUE] \in Conns
        BY DEF Conns
      <4>1. stream[c] \in Conns
        BY DEF ClientsOK, Conns
      <4> QED BY <4>1, ConnFields
    <3> QED BY <2>1, <3>1 DEF Wake
  <2>2. CASE UNCHANGED stream
    BY <2>2 DEF ClientsOK
  <2> QED BY <2>1, <2>2
<1>3. ClientsOK'
  BY <1>2 DEF ClientsOK
<1>4. Told'
  <2> SUFFICES ASSUME NEW c \in Clients
               PROVE  /\ Len(told[c]) <= Len(l)
                      /\ \A i \in 1..Len(told[c]) : told[c][i] = l[i]
                      /\ stream'[c].at # "off" => Len(told[c]) = stream'[c].cursor
    BY DEF Told, ToldAt
  <2>1. Len(told[c]) \in Nat /\ Len(disk.log) \in Nat
    BY StateParts, LenProperties DEF ClientsOK, StorageOK, Fits
  <2>2. /\ Len(told[c]) <= Len(disk.log)
        /\ \A i \in 1..Len(told[c]) : told[c][i] = disk.log[i]
        /\ stream[c].at # "off" => Len(told[c]) = stream[c].cursor
    BY DEF Told, ToldAt
  <2> QED BY <1>1, <2>1, <2>2
<1>5. Quiet'
  <2>1. CASE Wake
    <3>1. \A c \in Clients : stream'[c].woken
      BY <2>1 DEF Wake, ClientsOK
    <3> QED BY <3>1 DEF Quiet, QuietAt
  <2>2. CASE failed' \/ ~accepting'
    BY <2>2 DEF Quiet, QuietAt
  <2> QED BY <2>1, <2>2
<1> QED BY <1>3, <1>4, <1>5

\* An event of the runtime: what it does to the ledger is told by the runtime.
LEMMA Recorded ==
  ASSUME StorageOK, ClientsOK, Told, Quiet, Receipts, RuntimeOK,
         NEW n, Extends(state, n), Len(n.log) = Len(state.log) + 1, Record(n),
         UNCHANGED <<accepting, input, reached>>,
         DOMAIN n.commands = DOMAIN state.commands,
         \A k \in DOMAIN state.commands :
            \/ n.commands[k] = state.commands[k]
            \/ n.commands[k] = "processed" /\ reached[k] > 0
  PROVE  StorageOK' /\ ClientsOK' /\ Told' /\ Quiet' /\ Receipts'
<1>1. /\ state \in State /\ Len(state.log) \in Nat /\ Len(state.log) < MaxEvents
      /\ born' = born + 1 /\ born \in Nat /\ born <= Len(state.log) + faults
      /\ faults \in Nat /\ MaxEvents \in Nat
      /\ ~failed /\ disk = state /\ n \in State
  BY ClientSyncAssumption, StateParts DEF StorageOK, Fits, Record, Extends, Persisted, NotPersisted, WriteSucceeds, WriteFails
<1>2. StorageOK'
  <2>1. /\ Len(state.log) <= MaxEvents /\ Len(n.log) <= MaxEvents /\ born' \in Nat
        /\ born' <= Len(n.log) + faults /\ born' <= Len(state.log) + faults + 1
    BY <1>1
  <2>2. Persisted(n) \/ NotPersisted(state, n)
    BY DEF Record
  <2> QED BY <1>1, <2>1, <2>2, Storing
<1>3. ClientsOK' /\ Told' /\ Quiet'
  <2>1. disk' \in {state, n}
    BY DEF Record, Persisted, NotPersisted, WriteSucceeds, WriteFails
  <2>2. /\ Len(disk'.log) \in Nat /\ Len(disk.log) <= Len(disk'.log)
        /\ \A i \in 1..Len(disk.log) : disk'.log[i] = disk.log[i]
    BY <1>1, <2>1 DEF Extends
  <2>3. UNCHANGED <<told, fetch, again, shown, lost, drops, crashes>>
    BY DEF Record
  <2>4. Wake \/ (UNCHANGED stream /\ (failed' \/ ~accepting'))
    BY DEF Record, NotPersisted, WriteFails
  <2> QED BY <2>2, <2>3, <2>4, StoreClients
<1>4. Receipts'
  <2> SUFFICES ASSUME NEW k \in Commands
               PROVE  /\ reached[k] \in {0, 1} /\ (k \in input => reached[k] = 0)
                      /\ Knows(state, k)' /\ Knows(disk, k)'
    BY DEF Receipts
  <2>1. /\ reached[k] \in {0, 1} /\ (k \in input => reached[k] = 0)
        /\ Knows(state, k)
    BY DEF Receipts
  <2>2. Knows(n, k)
    BY <2>1 DEF Knows, Delivered
  <2>3. state' \in {state, n} /\ disk' \in {state, n}
    BY DEF Record, Persisted, NotPersisted, WriteSucceeds, WriteFails
  <2>4. Knows(state, k)' /\ Knows(disk, k)'
    BY <2>1, <2>2, <2>3 DEF Knows, Delivered
  <2> QED BY <2>1, <2>4
<1> QED BY <1>2, <1>3, <1>4

-----------------------------------------------------------------------------
(* The steps that change the store.                                        *)

\* There is a number left for the next event.
LEMMA Numbered ==
  ASSUME StorageOK, Len(state.log) < MaxEvents
  PROVE  born + 1 \in Events
<1>1. /\ Len(state.log) \in Nat /\ born \in Nat /\ faults \in 0..MaxFaults
      /\ born <= Len(state.log) + faults /\ MaxEvents \in Nat /\ MaxFaults \in Nat
  BY ClientSyncAssumption, StoreAssumption, StateParts DEF StorageOK, Fits
<1> QED BY <1>1 DEF Events

LEMMA RecordEventStep == SyncInv /\ RecordEvent => SyncInv'
<1> SUFFICES ASSUME SyncInv, RecordEvent PROVE SyncInv'
  OBVIOUS
<1> DEFINE n == Appended(state)
<1>1. Len(state.log) < MaxEvents /\ state \in State
  BY DEF SyncInv, StorageOK, Fits, RecordEvent, Record
<1>2. /\ Extends(state, n) /\ Len(n.log) = Len(state.log) + 1
      /\ n.commands = state.commands /\ n.approvals = state.approvals
  BY <1>1, Numbered, AppendedIs DEF SyncInv
<1>3. Record(n) /\ UNCHANGED <<accepting, input, reached, presented>>
  BY DEF RecordEvent, runtime
<1> HIDE DEF n
<1>4. StorageOK' /\ ClientsOK' /\ Told' /\ Quiet' /\ Receipts'
  BY <1>2, <1>3, Recorded DEF SyncInv
<1>5. state' \in {state, n}
  BY <1>3 DEF Record, Persisted, NotPersisted, WriteSucceeds, WriteFails
<1>6. Claims'
  BY <1>2, <1>3, <1>5 DEF SyncInv, Claims, Delivered
<1> QED BY <1>3, <1>4, <1>6 DEF SyncInv, RuntimeOK

LEMMA RecordRequestStep ==
  ASSUME SyncInv, NEW r \in Requests, RecordRequest(r)
  PROVE  SyncInv'
<1> DEFINE g == With(state.approvals, r, FALSE)
           n == [Appended(state) EXCEPT !.approvals = With(@, r, FALSE)]
<1>1. Len(state.log) < MaxEvents /\ state \in State
  BY DEF SyncInv, StorageOK, Fits, RecordRequest, Record
<1>2. /\ state.log \in Seq(Events)
      /\ DOMAIN state.commands \in SUBSET Commands
      /\ state.commands \in [DOMAIN state.commands -> Status]
      /\ DOMAIN state.approvals \in SUBSET Requests
      /\ state.approvals \in [DOMAIN state.approvals -> BOOLEAN]
  BY <1>1, StateParts
<1>3. Appended(state) = [log |-> Append(state.log, born + 1), commands |-> state.commands,
                         approvals |-> state.approvals]
  BY <1>1, Numbered, AppendedIs DEF SyncInv
<1>4. n = [log |-> Append(state.log, born + 1), commands |-> state.commands, approvals |-> g]
  <2>1. PICK x : x = Appended(state)
    OBVIOUS
  <2>2. x.approvals = state.approvals
    BY <1>3, <2>1
  <2>3. n = [x EXCEPT !.approvals = g]
    BY <2>1, <2>2
  <2>4. x = [log |-> Append(state.log, born + 1), commands |-> state.commands,
             approvals |-> state.approvals]
    BY <1>3, <2>1
  <2> HIDE DEF n, g
  <2> QED BY <2>3, <2>4
<1>5. /\ g \in [DOMAIN state.approvals \cup {r} -> BOOLEAN]
      /\ \A x \in DOMAIN state.approvals : x # r => g[x] = state.approvals[x]
      /\ DOMAIN state.approvals \cup {r} \in SUBSET Requests
  BY <1>2 DEF With
<1>6. Record(n) /\ UNCHANGED <<accepting, input, reached>>
      /\ r \notin presented /\ presented' = presented \cup {r}
  BY DEF RecordRequest
<1> HIDE DEF g, n
<1>7. Extends(state, n) /\ Len(n.log) = Len(state.log) + 1
  BY <1>1, <1>2, <1>4, <1>5, Numbered, LoggedIs DEF SyncInv
<1>8. n.commands = state.commands /\ n.approvals = g /\ DOMAIN g = DOMAIN state.approvals \cup {r}
  BY <1>4, <1>5
<1>9. StorageOK' /\ ClientsOK' /\ Told' /\ Quiet' /\ Receipts'
  BY <1>6, <1>7, <1>8, Recorded DEF SyncInv
<1>10. state' \in {state, n}
  BY <1>6 DEF Record, Persisted, NotPersisted, WriteSucceeds, WriteFails
<1>11. Claims'
  <2>1. DOMAIN state'.approvals \subseteq presented'
    BY <1>6, <1>8, <1>10 DEF SyncInv, Claims
  <2>2. ASSUME NEW k \in Commands, Delivered(k)', Kind[k] \in Requests
        PROVE  /\ Kind[k] \in presented'
               /\ Kind[k] \in DOMAIN state'.approvals => state'.approvals[Kind[k]]
    <3>1. /\ Kind[k] \in presented
          /\ Kind[k] \in DOMAIN state.approvals => state.approvals[Kind[k]]
      BY <1>6, <2>2 DEF SyncInv, Claims, Delivered
    <3>2. Kind[k] # r
      BY <1>6, <3>1
    <3> QED BY <1>5, <1>6, <1>8, <1>10, <3>1, <3>2
  <2>3. \A k, l \in Commands :
          (Delivered(k) /\ Delivered(l))' /\ Kind[k] \in Requests /\ Kind[l] = Kind[k] => k = l
    BY <1>6 DEF SyncInv, Claims, Delivered
  <2> QED BY <2>1, <2>2, <2>3 DEF Claims
<1>12. RuntimeOK'
  BY <1>6 DEF SyncInv, RuntimeOK
<1> QED BY <1>9, <1>11, <1>12 DEF SyncInv

LEMMA RecordDecisionStep ==
  ASSUME SyncInv, NEW r \in Requests, RecordDecision(r)
  PROVE  SyncInv'
<1> DEFINE R == DOMAIN state.approvals \ {r}
           g == Restrict(state.approvals, R)
           n == [Appended(state) EXCEPT !.approvals = Restrict(@, DOMAIN @ \ {r})]
<1>1. Len(state.log) < MaxEvents /\ state \in State
  BY DEF SyncInv, StorageOK, Fits, RecordDecision, Record
<1>2. /\ DOMAIN state.commands \in SUBSET Commands
      /\ state.commands \in [DOMAIN state.commands -> Status]
      /\ DOMAIN state.approvals \in SUBSET Requests
      /\ state.approvals \in [DOMAIN state.approvals -> BOOLEAN]
  BY <1>1, StateParts
<1>3. Appended(state) = [log |-> Append(state.log, born + 1), commands |-> state.commands,
                         approvals |-> state.approvals]
  BY <1>1, Numbered, AppendedIs DEF SyncInv
<1>4. n = [log |-> Append(state.log, born + 1), commands |-> state.commands, approvals |-> g]
  <2>1. PICK x : x = Appended(state)
    OBVIOUS
  <2>2. x.approvals = state.approvals
    BY <1>3, <2>1
  <2>3. n = [x EXCEPT !.approvals = g]
    BY <2>1, <2>2
  <2>4. x = [log |-> Append(state.log, born + 1), commands |-> state.commands,
             approvals |-> state.approvals]
    BY <1>3, <2>1
  <2> HIDE DEF n, g
  <2> QED BY <2>3, <2>4
<1>5. /\ g \in [R -> BOOLEAN] /\ R \in SUBSET Requests
      /\ \A x \in R : g[x] = state.approvals[x]
  BY <1>2 DEF Restrict
<1>6. Record(n) /\ UNCHANGED <<accepting, input, reached, presented>>
  BY DEF RecordDecision, runtime
<1> HIDE DEF g, n
<1>7. Extends(state, n) /\ Len(n.log) = Len(state.log) + 1
  <2> HIDE DEF R
  <2> QED BY <1>1, <1>2, <1>4, <1>5, Numbered, LoggedIs DEF SyncInv
<1>8. n.commands = state.commands /\ n.approvals = g /\ DOMAIN g = R
  BY <1>4, <1>5
<1>9. StorageOK' /\ ClientsOK' /\ Told' /\ Quiet' /\ Receipts'
  BY <1>6, <1>7, <1>8, Recorded DEF SyncInv
<1>10. state' \in {state, n}
  BY <1>6 DEF Record, Persisted, NotPersisted, WriteSucceeds, WriteFails
<1>11. Claims'
  BY <1>5, <1>6, <1>8, <1>10 DEF SyncInv, Claims, Delivered
<1>12. RuntimeOK'
  BY <1>6 DEF SyncInv, RuntimeOK
<1> QED BY <1>9, <1>11, <1>12 DEF SyncInv

LEMMA RecordResultStep ==
  ASSUME SyncInv, NEW k \in Commands, RecordResult(k)
  PROVE  SyncInv'
<1> DEFINE f == [state.commands EXCEPT ![k] = "processed"]
           n == [Appended(state) EXCEPT !.commands[k] = "processed"]
<1>1. /\ Len(state.log) < MaxEvents /\ state \in State
      /\ k \in DOMAIN state.commands /\ reached[k] > 0
  BY DEF SyncInv, StorageOK, Fits, RecordResult, Record
<1>2. /\ DOMAIN state.commands \in SUBSET Commands
      /\ state.commands \in [DOMAIN state.commands -> Status]
      /\ DOMAIN state.approvals \in SUBSET Requests
      /\ state.approvals \in [DOMAIN state.approvals -> BOOLEAN]
  BY <1>1, StateParts
<1>3. Appended(state) = [log |-> Append(state.log, born + 1), commands |-> state.commands,
                         approvals |-> state.approvals]
  BY <1>1, Numbered, AppendedIs DEF SyncInv
<1>4. n = [log |-> Append(state.log, born + 1), commands |-> f, approvals |-> state.approvals]
  <2>1. PICK x : x = Appended(state)
    OBVIOUS
  <2>2. x.commands = state.commands
    BY <1>3, <2>1
  <2>3. n = [x EXCEPT !.commands = f]
    BY <2>1, <2>2
  <2>4. x = [log |-> Append(state.log, born + 1), commands |-> state.commands,
             approvals |-> state.approvals]
    BY <1>3, <2>1
  <2> HIDE DEF n, f
  <2> QED BY <2>3, <2>4
<1>5. /\ f \in [DOMAIN state.commands -> Status]
      /\ \A j \in DOMAIN state.commands : f[j] = IF j = k THEN "processed" ELSE state.commands[j]
  BY <1>2 DEF Status
<1>6. Record(n) /\ UNCHANGED <<accepting, input, reached, presented>>
  BY DEF RecordResult, runtime
<1> HIDE DEF f, n
<1>7. Extends(state, n) /\ Len(n.log) = Len(state.log) + 1
  BY <1>1, <1>2, <1>4, <1>5, Numbered, LoggedIs DEF SyncInv
<1>8. n.commands = f /\ n.approvals = state.approvals /\ DOMAIN f = DOMAIN state.commands
  BY <1>4, <1>5
<1>9. \A j \in DOMAIN state.commands :
         \/ n.commands[j] = state.commands[j]
         \/ n.commands[j] = "processed" /\ reached[j] > 0
  BY <1>1, <1>5, <1>8
<1>10. StorageOK' /\ ClientsOK' /\ Told' /\ Quiet' /\ Receipts'
  BY <1>6, <1>7, <1>8, <1>9, Recorded DEF SyncInv
<1>11. state' \in {state, n}
  BY <1>6 DEF Record, Persisted, NotPersisted, WriteSucceeds, WriteFails
<1>12. Claims'
  BY <1>6, <1>8, <1>11 DEF SyncInv, Claims, Delivered
<1>13. RuntimeOK'
  BY <1>6 DEF SyncInv, RuntimeOK
<1> QED BY <1>10, <1>12, <1>13 DEF SyncInv

LEMMA CommandStep ==
  ASSUME SyncInv, NEW k \in Commands, Command(k)
  PROVE  SyncInv'
<1> DEFINE acc == Accepted(k)
           rej == Rejected(acc, k)
<1>1. /\ k \notin DOMAIN state.commands /\ Acceptable(k)
      /\ Logs(k) => Len(state.log) < MaxEvents
      /\ born' = (IF Logs(k) THEN born + 1 ELSE born)
      /\ UNCHANGED <<accepting, reached, presented>>
      /\ UNCHANGED <<told, fetch, again, shown, lost, drops, crashes>>
  BY DEF Command
<1>2. /\ state \in State /\ Len(state.log) \in Nat /\ Len(state.log) <= MaxEvents
      /\ born \in Nat /\ born <= Len(state.log) + faults /\ faults \in Nat /\ MaxEvents \in Nat
      /\ ~failed /\ disk = state
  BY ClientSyncAssumption, StateParts
     DEF SyncInv, StorageOK, Fits, Command, Persisted, NotPersisted, WriteSucceeds, WriteFails
<1>3. Logs(k) => born + 1 \in Events
  BY <1>1, Numbered DEF SyncInv
<1>4. /\ Extends(state, acc)
      /\ Logs(k) => Len(acc.log) = Len(state.log) + 1
      /\ ~Logs(k) => Len(acc.log) = Len(state.log)
      /\ DOMAIN acc.commands = DOMAIN state.commands \cup {k}
      /\ acc.commands[k] = "queued"
      /\ \A j \in DOMAIN state.commands \ {k} : acc.commands[j] = state.commands[j]
      /\ DOMAIN acc.approvals = DOMAIN state.approvals
      /\ \A r \in DOMAIN state.approvals :
           acc.approvals[r] = IF Kind[k] = r THEN TRUE ELSE state.approvals[r]
  BY <1>1, <1>2, <1>3, AcceptedIs
<1> HIDE DEF acc
<1>5. /\ rej \in State /\ rej.log = acc.log /\ rej.approvals = acc.approvals
      /\ DOMAIN rej.commands = DOMAIN acc.commands
      /\ rej.commands[k] = "runtime_unavailable"
      /\ \A j \in DOMAIN acc.commands \ {k} : rej.commands[j] = acc.commands[j]
  BY <1>4, RejectedIs DEF Extends
<1> DEFINE A == NotPersisted(state, acc) /\ UNCHANGED <<input, stream>>
           B == accepting /\ Persisted(acc) /\ input' = input \cup {k} /\ Wake
           C == ~accepting /\ UNCHANGED <<input, stream>> /\ Persisted(rej)
           D == ~accepting /\ UNCHANGED <<input, stream>> /\ NotPersisted(acc, rej)
<1>6. A \/ B \/ C \/ D
  BY DEF Command, acc
<1> HIDE DEF rej
<1>7. StorageOK'
  <2>1. acc \in State /\ Len(acc.log) <= MaxEvents
    BY <1>1, <1>2, <1>4 DEF Extends
  <2>2. /\ born' \in Nat /\ born' <= Len(acc.log) + faults
        /\ born' <= Len(state.log) + faults + 1 /\ born' <= Len(acc.log) + faults + 1
    <3>1. CASE Logs(k)
      BY <3>1, <1>1, <1>2, <1>4
    <3>2. CASE ~Logs(k)
      BY <3>2, <1>1, <1>2, <1>4
    <3> QED BY <3>1, <3>2
  <2>3. CASE A \/ B
    BY <2>1, <2>2, <2>3, <1>2, Storing DEF SyncInv
  <2>4. CASE C \/ D
    BY <2>1, <2>2, <2>4, <1>2, <1>5, Storing DEF SyncInv
  <2> QED BY <1>6, <2>3, <2>4
<1>8. ClientsOK' /\ Told' /\ Quiet'
  <2>1. disk' \in {state, acc, rej}
    BY <1>6 DEF Persisted, NotPersisted, WriteSucceeds, WriteFails
  <2>2. /\ Len(disk'.log) \in Nat /\ Len(disk.log) <= Len(disk'.log)
        /\ \A i \in 1..Len(disk.log) : disk'.log[i] = disk.log[i]
    BY <1>2, <1>4, <1>5, <2>1 DEF Extends
  <2>3. Wake \/ (UNCHANGED stream /\ (failed' \/ ~accepting'))
    BY <1>1, <1>6 DEF NotPersisted, WriteFails
  <2> QED BY <1>1, <2>2, <2>3, StoreClients DEF SyncInv
<1>9. state' \in {state, acc, rej} /\ disk' \in {state, acc, rej}
  BY <1>6 DEF Persisted, NotPersisted, WriteSucceeds, WriteFails
<1>10. ~Delivered(k)
  BY <1>1 DEF SyncInv, Receipts, Knows
<1>11. Receipts'
  <2> SUFFICES ASSUME NEW j \in Commands
               PROVE  /\ reached'[j] \in {0, 1} /\ (j \in input' => reached'[j] = 0)
                      /\ Knows(state, j)' /\ Knows(disk, j)'
    BY DEF Receipts
  <2>1. reached[j] \in {0, 1} /\ (j \in input => reached[j] = 0) /\ Knows(state, j)
    BY DEF SyncInv, Receipts
  <2>2. reached'[j] \in {0, 1} /\ (j \in input' => reached'[j] = 0)
    <3>1. reached[k] \in Nat
      BY DEF SyncInv, RuntimeOK
    <3> QED BY <1>1, <1>6, <1>10, <2>1, <3>1 DEF Delivered
  <2>3. CASE j = k
    <3>1. /\ state'.commands[k] # "processed" \/ k \notin DOMAIN state'.commands
          /\ disk'.commands[k] # "processed" \/ k \notin DOMAIN disk'.commands
      BY <1>1, <1>4, <1>5, <1>9
    <3>2. Knows(state, k)' /\ Knows(disk, k)'
      <4>1. CASE B
        <5>1. state' = acc /\ disk' = acc /\ k \in DOMAIN acc.commands
          BY <1>4, <4>1 DEF Persisted
        <5> QED BY <1>4, <5>1 DEF Knows
      <4>2. CASE A \/ C \/ D
        <5>1. ~Delivered(k)'
          BY <1>1, <1>10, <4>2 DEF Delivered
        <5> QED BY <3>1, <5>1 DEF Knows
      <4> QED BY <1>6, <4>1, <4>2
    <3> QED BY <2>2, <2>3, <3>2
  <2>4. CASE j # k
    <3>1. Delivered(j)' <=> Delivered(j)
      BY <1>1, <1>6, <2>4 DEF Delivered
    <3>2. Knows(acc, j) /\ Knows(rej, j)
      BY <1>4, <1>5, <2>1, <2>4 DEF Knows
    <3> QED BY <1>1, <1>9, <2>1, <2>2, <3>1, <3>2 DEF Knows
  <2> QED BY <2>2, <2>3, <2>4
<1>12. Claims'
  <2>1. DOMAIN state'.approvals = DOMAIN state.approvals
    BY <1>4, <1>5, <1>9
  <2>2. \A r \in DOMAIN state.approvals : state.approvals[r] => state'.approvals[r]
    BY <1>4, <1>5, <1>9
  <2>3. /\ DOMAIN state.approvals \subseteq presented
        /\ \A j \in Commands : Delivered(j) /\ Kind[j] \in Requests =>
             /\ Kind[j] \in presented
             /\ Kind[j] \in DOMAIN state.approvals => state.approvals[Kind[j]]
        /\ \A j, l \in Commands :
             Delivered(j) /\ Delivered(l) /\ Kind[j] \in Requests /\ Kind[l] = Kind[j] => j = l
    BY DEF SyncInv, Claims
  <2>4. CASE A \/ C \/ D
    <3>1. \A j \in Commands : Delivered(j)' <=> Delivered(j)
      BY <1>1, <2>4 DEF Delivered
    <3> QED BY <1>1, <2>1, <2>2, <2>3, <3>1 DEF Claims
  <2>5. CASE B
    <3>1. \A j \in Commands : Delivered(j)' <=> Delivered(j) \/ j = k
      BY <1>1, <2>5 DEF Delivered
    <3>2. Kind[k] \in Requests =>
            /\ Kind[k] \in DOMAIN state.approvals /\ ~state.approvals[Kind[k]]
            /\ state'.approvals[Kind[k]]
      BY <1>1, <1>4, <2>5 DEF Acceptable, Persisted
    <3>3. \A j \in Commands : Delivered(j) /\ Kind[j] \in Requests => Kind[j] # Kind[k]
      BY <2>3, <3>2
    <3>4. ASSUME NEW j \in Commands, Delivered(j)', Kind[j] \in Requests
          PROVE  /\ Kind[j] \in presented'
                 /\ Kind[j] \in DOMAIN state'.approvals => state'.approvals[Kind[j]]
      BY <1>1, <2>1, <2>2, <2>3, <3>1, <3>2, <3>4
    <3>5. \A j, l \in Commands :
            (Delivered(j) /\ Delivered(l))' /\ Kind[j] \in Requests /\ Kind[l] = Kind[j] => j = l
      BY <2>3, <3>1, <3>3
    <3> QED BY <1>1, <2>1, <2>3, <3>4, <3>5 DEF Claims
  <2> QED BY <1>6, <2>4, <2>5
<1>13. RuntimeOK'
  BY <1>1, <1>6 DEF SyncInv, RuntimeOK
<1> QED BY <1>7, <1>8, <1>11, <1>12, <1>13 DEF SyncInv

-----------------------------------------------------------------------------
(* The steps of the runtime and of the process.                            *)

LEMMA TakeStep ==
  ASSUME SyncInv, NEW k \in Commands, Take(k)
  PROVE  SyncInv'
<1>1. /\ k \in input /\ input' = input \ {k} /\ reached' = [reached EXCEPT ![k] = @ + 1]
      /\ UNCHANGED <<state, disk, failed, born, faults, accepting, presented>>
      /\ UNCHANGED <<stream, told, fetch, again, shown, lost, drops, crashes>>
  BY DEF Take, storage, clients
<1>2. reached \in [Commands -> Nat] /\ reached[k] = 0
  BY <1>1 DEF SyncInv, RuntimeOK, Receipts
<1>3. reached'[k] = 1 /\ \A j \in Commands \ {k} : reached'[j] = reached[j]
  BY <1>1, <1>2
<1>4. \A j \in Commands : Delivered(j)' <=> Delivered(j)
  BY <1>1, <1>2, <1>3 DEF Delivered
<1>5. Receipts'
  BY <1>1, <1>3, <1>4 DEF SyncInv, Receipts, Knows
<1>6. Claims'
  BY <1>1, <1>4 DEF SyncInv, Claims
<1>7. RuntimeOK'
  BY <1>1, <1>2 DEF SyncInv, RuntimeOK
<1>8. StorageOK' /\ ClientsOK' /\ Told' /\ Quiet'
  BY <1>1 DEF SyncInv, StorageOK, ClientsOK, Told, Quiet, ToldAt, QuietAt
<1> QED BY <1>5, <1>6, <1>7, <1>8 DEF SyncInv

LEMMA RuntimeEndsStep == SyncInv /\ RuntimeEnds => SyncInv'
<1> SUFFICES ASSUME SyncInv, RuntimeEnds PROVE SyncInv'
  OBVIOUS
<1>1. /\ accepting' = FALSE /\ input' = {}
      /\ UNCHANGED <<state, disk, failed, born, faults, reached, presented>>
      /\ UNCHANGED <<stream, told, fetch, again, shown, lost, drops, crashes>>
  BY DEF RuntimeEnds, storage, clients
<1>2. \A j \in Commands : Delivered(j)' => Delivered(j)
  BY <1>1 DEF Delivered
<1>3. Receipts'
  BY <1>1, <1>2 DEF SyncInv, Receipts, Knows
<1>4. Claims'
  BY <1>1, <1>2 DEF SyncInv, Claims
<1>5. RuntimeOK' /\ StorageOK' /\ ClientsOK' /\ Told' /\ Quiet'
  BY <1>1 DEF SyncInv, RuntimeOK, StorageOK, ClientsOK, Told, Quiet, ToldAt, QuietAt
<1> QED BY <1>3, <1>4, <1>5 DEF SyncInv

LEMMA RestartStep == SyncInv /\ Restart => SyncInv'
<1> SUFFICES ASSUME SyncInv, Restart PROVE SyncInv'
  OBVIOUS
<1> DEFINE new == Reopened(disk)
<1>1. /\ state' = new /\ disk' = new /\ failed' = FALSE
      /\ accepting' = TRUE /\ input' = {} /\ stream' = [c \in Clients |-> Off]
      /\ crashes < MaxCrashes /\ crashes' = crashes + 1
      /\ UNCHANGED <<born, faults, reached, presented>>
      /\ UNCHANGED <<told, fetch, again, shown, lost, drops>>
  BY DEF Restart, Reopen
<1>2. disk \in State
  BY DEF SyncInv, StorageOK, Fits
<1>3. /\ new \in State /\ new.log = disk.log /\ DOMAIN new.approvals = {}
      /\ DOMAIN new.commands = DOMAIN disk.commands
      /\ \A k \in DOMAIN disk.commands :
           new.commands[k] = IF disk.commands[k] = "queued"
                               THEN "unknown_after_restart" ELSE disk.commands[k]
  BY <1>2, ReopenedIs
<1> HIDE DEF new
<1>4. StorageOK'
  BY <1>1, <1>3 DEF SyncInv, StorageOK, Fits
<1>5. \A j \in Commands : Delivered(j)' => Delivered(j)
  BY <1>1 DEF Delivered
<1>6. Receipts'
  <2> SUFFICES ASSUME NEW k \in Commands
               PROVE  reached[k] \in {0, 1} /\ Knows(state, k)' /\ Knows(disk, k)'
    BY <1>1 DEF Receipts
  <2>1. reached[k] \in {0, 1} /\ Knows(disk, k)
    BY DEF SyncInv, Receipts
  <2>2. Knows(state, k)'
    BY <1>1, <1>3, <1>5, <2>1 DEF Knows
  <2> QED BY <1>1, <2>1, <2>2 DEF Knows
<1>7. Claims'
  BY <1>1, <1>3, <1>5 DEF SyncInv, Claims
<1>8. RuntimeOK'
  BY <1>1 DEF SyncInv, RuntimeOK
<1>9. \A c \in Clients : stream'[c].at = "off"
  BY <1>1 DEF Off
<1>10. ClientsOK'
  <2>1. Off \in Conns
    BY ClientSyncAssumption DEF Off, Conns
  <2>2. stream' \in [Clients -> Conns]
    BY <1>1, <2>1
  <2>3. crashes' \in 0..MaxCrashes
    BY <1>1, StoreAssumption DEF SyncInv, ClientsOK
  <2> QED BY <1>1, <2>2, <2>3 DEF SyncInv, ClientsOK, Conns
<1>11. Told'
  BY <1>1, <1>3, <1>9 DEF SyncInv, Told, ToldAt
<1>12. Quiet'
  BY <1>9 DEF Quiet, QuietAt
<1> QED BY <1>4, <1>6, <1>7, <1>8, <1>10, <1>11, <1>12 DEF SyncInv

-----------------------------------------------------------------------------
(* The steps of a stream and its client.                                   *)

\* A step of client c that leaves the store, the runtime and the other clients
\* alone.
Alone(c) ==
  /\ UNCHANGED <<state, disk, failed, born, faults, accepting, input, reached, presented, crashes>>
  /\ \A d \in Clients \ {c} :
       /\ UNCHANGED <<stream[d], told[d], fetch[d], shown[d]>>
       /\ d \in again' <=> d \in again
       /\ d \in lost' <=> d \in lost

LEMMA ClientAlone ==
  ASSUME SyncInv, NEW c \in Clients, Alone(c), ClientsOK', ToldAt(c)', QuietAt(c)'
  PROVE  SyncInv'
<1>1. UNCHANGED <<state, disk, failed, born, faults, accepting, input, reached, presented, crashes>>
  BY DEF Alone
<1>2. Told'
  <2> SUFFICES ASSUME NEW d \in Clients, d # c PROVE ToldAt(d)'
    BY DEF Told
  <2> QED BY DEF SyncInv, Told, ToldAt, Alone
<1>3. Quiet'
  <2> SUFFICES ASSUME NEW d \in Clients, d # c PROVE QuietAt(d)'
    BY DEF Quiet
  <2> QED BY DEF SyncInv, Quiet, QuietAt, Alone
<1>4. StorageOK' /\ RuntimeOK'
  BY <1>1 DEF SyncInv, StorageOK, RuntimeOK
<1>5. Receipts' /\ Claims'
  BY <1>1 DEF SyncInv, Receipts, Claims, Knows, Delivered
<1> QED BY <1>2, <1>3, <1>4, <1>5 DEF SyncInv

\* What is known of the log and of a client.
LEMMA ClientIs ==
  ASSUME SyncInv, NEW c \in Clients
  PROVE  /\ state \in State /\ state.log \in Seq(Events)
         /\ Len(state.log) \in 0..MaxEvents /\ Len(state.log) \in Nat
         /\ ~failed => disk = state
         /\ stream[c] \in Conns /\ stream \in [Clients -> Conns]
         /\ told[c] \in Seq(Events) /\ Len(told[c]) \in Nat
         /\ told \in [Clients -> Seq(Events)]
         /\ fetch[c] \in [at : {"idle", "asked", "answered"}, cursor : 0..MaxEvents]
         /\ ToldAt(c) /\ QuietAt(c) /\ ClientsOK
<1>1. state \in State /\ Len(state.log) <= MaxEvents /\ (~failed => disk = state)
  BY DEF SyncInv, StorageOK, Fits
<1>2. state.log \in Seq(Events) /\ Len(state.log) \in Nat /\ MaxEvents \in Nat
  BY <1>1, StateParts, ClientSyncAssumption
<1>3. told \in [Clients -> Seq(Events)]
  BY DEF SyncInv, ClientsOK
<1>4. told[c] \in Seq(Events) /\ Len(told[c]) \in Nat
  BY <1>3, LenProperties
<1>5. stream \in [Clients -> Conns]
  BY DEF SyncInv, ClientsOK, Conns
<1>6. /\ fetch[c] \in [at : {"idle", "asked", "answered"}, cursor : 0..MaxEvents]
      /\ ToldAt(c) /\ QuietAt(c) /\ ClientsOK
  BY DEF SyncInv, ClientsOK, Told, Quiet
<1>7. Len(state.log) \in 0..MaxEvents
  BY <1>1, <1>2
<1> QED BY <1>1, <1>2, <1>3, <1>4, <1>5, <1>6, <1>7

\* The stream moves, and the rest of the client stays.
LEMMA StreamMoves ==
  ASSUME SyncInv, NEW c \in Clients, NEW x \in Conns, stream' = [stream EXCEPT ![c] = x],
         UNCHANGED <<storage, runtime, told, fetch, again, shown, lost, crashes>>,
         drops' \in 0..MaxDrops,
         x.at # "off" => x.cursor = stream[c].cursor /\ stream[c].at # "off",
         x.at = "wait" => stream[c].at = "wait" /\ x.woken = stream[c].woken
  PROVE  SyncInv'
<1>1. /\ stream'[c] = x /\ \A d \in Clients \ {c} : stream'[d] = stream[d]
      /\ stream' \in [Clients -> Conns]
  BY ClientIs
<1>2. UNCHANGED <<state, disk, failed, born, faults, accepting, input, reached, presented,
                  told, fetch, again, shown, lost, crashes>>
  BY DEF storage, runtime
<1>3. Alone(c)
  BY <1>1, <1>2 DEF Alone
<1>4. ClientsOK'
  BY <1>1, <1>2, ClientIs DEF ClientsOK, Conns
<1>5. ToldAt(c)'
  BY <1>1, <1>2, ClientIs DEF ToldAt
<1>6. QuietAt(c)'
  BY <1>1, <1>2, ClientIs DEF QuietAt
<1> QED BY <1>3, <1>4, <1>5, <1>6, ClientAlone

LEMMA StreamOnlySteps ==
  ASSUME SyncInv, NEW c \in Clients,
         Subscribe(c) \/ ReadFails(c) \/ Waken(c) \/ Tick(c) \/ Drop(c)
  PROVE  SyncInv'
<1> DEFINE y == stream[c]
           read == [at |-> "read", cursor |-> y.cursor, woken |-> FALSE]
<1>1. /\ y = [at |-> y.at, cursor |-> y.cursor, woken |-> y.woken]
      /\ y.cursor \in 0..MaxEvents /\ y.woken \in BOOLEAN
      /\ stream \in [Clients -> Conns]
  <2>1. stream[c] \in Conns /\ stream \in [Clients -> Conns]
    BY ClientIs
  <2> QED BY <2>1 DEF Conns
<1>2. read \in Conns /\ Off \in Conns
  BY <1>1, ClientSyncAssumption DEF Conns, Off
<1>3. Off.at = "off" /\ read.at = "read" /\ read.cursor = y.cursor
  BY DEF Off
<1>4. drops \in 0..MaxDrops /\ (drops < MaxDrops => drops + 1 \in 0..MaxDrops)
  BY ClientSyncAssumption DEF SyncInv, ClientsOK
<1>5. CASE Subscribe(c) \/ Waken(c) \/ Tick(c)
  <2>1. /\ y.at # "off"
        /\ UNCHANGED <<storage, runtime, told, fetch, again, shown, lost, drops, crashes>>
    BY <1>5 DEF Subscribe, Waken, Tick
  <2>2. stream' = [stream EXCEPT ![c] = read]
    <3>1. CASE Subscribe(c) \/ Waken(c)
      BY <3>1 DEF Subscribe, Waken
    <3>2. CASE Tick(c)
      <4>1. stream' = [stream EXCEPT ![c].at = "read"] /\ ~y.woken
        BY <3>2 DEF Tick
      <4>2. y.woken = FALSE
        BY <1>1, <4>1
      <4>3. [y EXCEPT !.at = "read"] = read
        <5>1. [y EXCEPT !.at = "read"] = [at |-> "read", cursor |-> y.cursor, woken |-> y.woken]
          BY <1>1
        <5> QED BY <4>2, <5>1
      <4>4. stream' = [stream EXCEPT ![c] = [y EXCEPT !.at = "read"]]
        BY <4>1
      <4> QED BY <4>3, <4>4
    <3> QED BY <1>5, <3>1, <3>2
  <2> HIDE DEF read
  <2> QED BY <1>2, <1>3, <1>4, <2>1, <2>2, StreamMoves
<1>6. CASE ReadFails(c) \/ Drop(c)
  <2>1. /\ stream' = [stream EXCEPT ![c] = Off] /\ drops' \in 0..MaxDrops
        /\ UNCHANGED <<storage, runtime, told, fetch, again, shown, lost, crashes>>
    BY <1>4, <1>6 DEF ReadFails, Drop
  <2> QED BY <1>2, <1>3, <2>1, StreamMoves
<1> QED BY <1>5, <1>6

\* Client.connect: the snapshot is the log.
LEMMA ConnectStep ==
  ASSUME SyncInv, NEW c \in Clients, Connect(c)
  PROVE  SyncInv'
<1> DEFINE x == [at |-> "connecting", cursor |-> Len(state.log), woken |-> FALSE]
<1>1. /\ ~failed
      /\ stream' = [stream EXCEPT ![c] = x]
      /\ shown' = [shown EXCEPT ![c] = Len(state.log)]
      /\ told' = [told EXCEPT ![c] = state.log]
      /\ UNCHANGED <<state, disk, failed, born, faults, accepting, input, reached, presented,
                     fetch, again, lost, drops, crashes>>
  BY DEF Connect, storage, runtime
<1>2. /\ Len(state.log) \in 0..MaxEvents /\ state.log \in Seq(Events) /\ Len(state.log) \in Nat
      /\ stream \in [Clients -> Conns] /\ told \in [Clients -> Seq(Events)]
      /\ disk = state /\ shown \in [Clients -> 0..MaxEvents]
  BY <1>1, ClientIs DEF ClientsOK
<1>3. x \in Conns /\ x.at = "connecting" /\ x.cursor = Len(state.log)
  BY <1>2 DEF Conns
<1> HIDE DEF x
<1>4. /\ stream'[c] = x /\ told'[c] = state.log /\ stream' \in [Clients -> Conns]
      /\ told' \in [Clients -> Seq(Events)] /\ shown' \in [Clients -> 0..MaxEvents]
      /\ \A d \in Clients \ {c} : /\ stream'[d] = stream[d] /\ told'[d] = told[d]
                                  /\ shown'[d] = shown[d]
  BY <1>1, <1>2, <1>3
<1>5. Alone(c)
  BY <1>1, <1>4 DEF Alone
<1>6. ClientsOK'
  BY <1>1, <1>4 DEF SyncInv, ClientsOK, Conns
<1>7. ToldAt(c)'
  BY <1>1, <1>2, <1>3, <1>4 DEF ToldAt
<1>8. QuietAt(c)'
  BY <1>3, <1>4 DEF QuietAt
<1> QED BY <1>5, <1>6, <1>7, <1>8, ClientAlone

\* The greater of two numbers.
LEMMA MaxIs ==
  ASSUME NEW a \in Nat, NEW b \in Nat, a <= b
  PROVE  Max({a, b}) = b
<1>1. \A x \in {a, b} : (\A y \in {a, b} : x >= y) <=> x = b
  OBVIOUS
<1> QED BY <1>1 DEF Max

\* What the frames of one read add to what was told makes the log.
LEMMA ReadIs ==
  ASSUME state \in State, NEW n \in Nat, ~Resync(state, n),
         NEW t \in Seq(Events), Len(t) = n, \A i \in 1..n : t[i] = state.log[i],
         NEW u, u = t \o SubSeq(state.log, Max({First(state), n + 1}), Len(state.log))
  PROVE  /\ u \in Seq(Events) /\ Len(u) = Len(state.log)
         /\ \A i \in 1..Len(u) : u[i] = state.log[i]
<1> DEFINE m == Len(state.log)
           v == SubSeq(state.log, n + 1, m)
<1>1. m \in Nat /\ state.log \in Seq(Events)
  BY StateParts
<1>2. First(state) \in Nat /\ First(state) <= n + 1 /\ n <= m
  <2>1. Retention \in Nat
    BY ClientSyncAssumption
  <2> QED BY <1>1, <2>1 DEF Resync, First
<1>3. Max({First(state), n + 1}) = n + 1
  BY <1>2, MaxIs
<1>4. \A i \in n + 1..m : state.log[i] \in Events
  BY <1>1, ElementOfSeq
<1>5. /\ v \in Seq(Events)
      /\ Len(v) = (IF n + 1 <= m THEN m - (n + 1) + 1 ELSE 0)
      /\ \A i \in 1..m - (n + 1) + 1 : v[i] = state.log[n + 1 + i - 1]
  <2> HIDE DEF m
  <2> QED BY <1>1, <1>4, SubSeqProperties
<1>6. Len(v) = m - n
  <2> HIDE DEF m, v
  <2> QED BY <1>1, <1>2, <1>5
<1>7. u = t \o v
  BY <1>3
<1>8. /\ u \in Seq(Events) /\ Len(u) = n + Len(v)
      /\ \A i \in 1..n + Len(v) : u[i] = IF i <= n THEN t[i] ELSE v[i - n]
  <2> HIDE DEF v
  <2>1. /\ t \o v \in Seq(Events) /\ Len(t \o v) = Len(t) + Len(v)
        /\ \A i \in 1..Len(t) + Len(v) : (t \o v)[i] = IF i <= Len(t) THEN t[i] ELSE v[i - Len(t)]
    BY <1>5, ConcatProperties
  <2> QED BY <1>7, <2>1
<1> HIDE DEF m, v
<1>9. Len(u) = m
  BY <1>1, <1>2, <1>6, <1>8
<1>10. ASSUME NEW i \in 1..m PROVE u[i] = state.log[i]
  <2>1. CASE i <= n
    BY <2>1, <1>1, <1>2, <1>6, <1>8
  <2>2. CASE ~(i <= n)
    <3>0. i \in Int /\ i > n /\ i <= m
      BY <2>2, <1>1
    <3>1. i - n \in 1..m - (n + 1) + 1 /\ n + 1 + (i - n) - 1 = i
      <4>1. m \in Nat /\ n \in Nat
        BY <1>1, <1>2
      <4> HIDE DEF m
      <4> QED BY <3>0, <4>1
    <3>2. n + Len(v) = m
      BY <1>1, <1>6
    <3>4. u[i] = v[i - n]
      BY <2>2, <1>8, <3>2
    <3>3. v[i - n] = state.log[n + 1 + (i - n) - 1]
      BY <1>5, <3>1
    <3> QED BY <3>1, <3>3, <3>4
  <2> QED BY <2>1, <2>2
<1> QED BY <1>8, <1>9, <1>10 DEF m

LEMMA ReadEventsStep ==
  ASSUME SyncInv, NEW c \in Clients, ReadEvents(c)
  PROVE  SyncInv'
<1> DEFINE x == [at |-> "send", cursor |-> Len(state.log), woken |-> stream[c].woken]
           n == stream[c].cursor
           u == told[c] \o SubSeq(state.log, Max({First(state), n + 1}), Len(state.log))
<1>1. /\ ~failed /\ ~Resync(state, n) /\ stream[c].at = "read"
      /\ stream' = [stream EXCEPT ![c] = x]
      /\ told' = [told EXCEPT ![c] = u]
      /\ UNCHANGED <<state, disk, failed, born, faults, accepting, input, reached, presented,
                     fetch, again, shown, lost, drops, crashes>>
  BY DEF ReadEvents, storage, runtime
<1>2. /\ state \in State /\ Len(state.log) \in 0..MaxEvents /\ Len(state.log) \in Nat
      /\ stream[c] \in Conns /\ stream \in [Clients -> Conns]
      /\ told[c] \in Seq(Events) /\ told \in [Clients -> Seq(Events)]
      /\ disk = state /\ ToldAt(c)
  BY <1>1, ClientIs
<1>3. x \in Conns /\ x.at = "send" /\ x.cursor = Len(state.log)
  BY <1>2 DEF Conns
<1>4. n \in Nat /\ Len(told[c]) = n /\ \A i \in 1..n : told[c][i] = state.log[i]
  <2>1. n \in 0..MaxEvents
    BY <1>2 DEF Conns
  <2> QED BY <1>1, <1>2, <2>1 DEF ToldAt
<1>5. /\ u \in Seq(Events) /\ Len(u) = Len(state.log)
      /\ \A i \in 1..Len(u) : u[i] = state.log[i]
  <2> HIDE DEF n
  <2> QED BY <1>1, <1>2, <1>4, ReadIs
<1> HIDE DEF x, u
<1>6. /\ stream'[c] = x /\ told'[c] = u /\ stream' \in [Clients -> Conns]
      /\ told' \in [Clients -> Seq(Events)]
      /\ \A d \in Clients \ {c} : stream'[d] = stream[d] /\ told'[d] = told[d]
  BY <1>1, <1>2, <1>3, <1>5
<1>7. Alone(c)
  BY <1>1, <1>6 DEF Alone
<1>8. ClientsOK'
  BY <1>1, <1>6 DEF SyncInv, ClientsOK, Conns
<1>9. ToldAt(c)'
  BY <1>1, <1>2, <1>3, <1>5, <1>6 DEF ToldAt
<1>10. QuietAt(c)'
  BY <1>3, <1>6 DEF QuietAt
<1> QED BY <1>7, <1>8, <1>9, <1>10, ClientAlone

\* The fields of a fetch.
Fetches == [at : {"idle", "asked", "answered"}, cursor : 0..MaxEvents]

LEMMA FetchMoves ==
  ASSUME SyncInv, NEW c \in Clients, NEW x \in Fetches, fetch' = [fetch EXCEPT ![c] = x],
         UNCHANGED <<storage, runtime, stream, told, crashes>>,
         shown' \in [Clients -> 0..MaxEvents],
         \A d \in Clients \ {c} : shown'[d] = shown[d],
         again' \ {c} = again \ {c}, lost' \ {c} = lost \ {c},
         drops' \in 0..MaxDrops, QuietAt(c)'
  PROVE  SyncInv'
<1>1. UNCHANGED <<state, disk, failed, born, faults, accepting, input, reached, presented,
                  stream, told, crashes>>
  BY DEF storage, runtime
<1>2. fetch \in [Clients -> Fetches]
  BY DEF SyncInv, ClientsOK, Fetches
<1>3. fetch' \in [Clients -> Fetches] /\ \A d \in Clients \ {c} : fetch'[d] = fetch[d]
  BY <1>2
<1>4. Alone(c)
  <2>1. \A d \in Clients \ {c} : (d \in again' <=> d \in again) /\ (d \in lost' <=> d \in lost)
    OBVIOUS
  <2> QED BY <1>1, <1>3, <2>1 DEF Alone
<1>5. ClientsOK'
  <2>1. again' \subseteq Clients /\ lost' \subseteq Clients
    BY DEF SyncInv, ClientsOK
  <2> QED BY <1>1, <1>3, <2>1 DEF SyncInv, ClientsOK, Fetches
<1>6. ToldAt(c)'
  BY <1>1 DEF SyncInv, Told, ToldAt
<1> QED BY <1>4, <1>5, <1>6, ClientAlone

LEMMA SendStep ==
  ASSUME SyncInv, NEW c \in Clients, Send(c)
  PROVE  SyncInv'
<1> DEFINE x == [stream[c] EXCEPT !.at = "wait"]
           y == [fetch[c] EXCEPT !.at = "asked"]
<1>1. /\ stream[c].at = "send" /\ stream' = [stream EXCEPT ![c] = x]
      /\ UNCHANGED <<state, disk, failed, born, faults, accepting, input, reached, presented,
                     told, shown, lost, drops, crashes>>
      /\ \/ fetch[c].at = "idle" /\ fetch' = [fetch EXCEPT ![c] = y] /\ UNCHANGED again
         \/ fetch[c].at # "idle" /\ again' = again \cup {c} /\ UNCHANGED fetch
  BY DEF Send, storage, runtime
<1>2. /\ stream[c] \in Conns /\ stream \in [Clients -> Conns]
      /\ fetch[c] \in Fetches /\ fetch \in [Clients -> Fetches]
  BY ClientIs DEF Fetches, ClientsOK
<1>3. x \in Conns /\ x = [at |-> "wait", cursor |-> stream[c].cursor, woken |-> stream[c].woken]
  <2>1. "wait" \in {"off", "connecting", "read", "send", "wait"} /\ TRUE \in BOOLEAN
    OBVIOUS
  <2> QED BY <1>2, <2>1, ConnFields
<1>4. y \in Fetches /\ y.at = "asked"
  BY <1>2 DEF Fetches
<1> HIDE DEF x, y
<1>5. /\ stream' \in [Clients -> Conns] /\ fetch' \in [Clients -> Fetches]
      /\ stream'[c].at = "wait" /\ stream'[c].cursor = stream[c].cursor
      /\ \A d \in Clients \ {c} : stream'[d] = stream[d] /\ fetch'[d] = fetch[d]
      /\ \A d \in Clients \ {c} : d \in again' <=> d \in again
      /\ again' \subseteq Clients
  <2>1. stream' \in [Clients -> Conns] /\ stream'[c] = x
        /\ \A d \in Clients \ {c} : stream'[d] = stream[d]
    BY <1>1, <1>2, <1>3
  <2>2. stream'[c].at = "wait" /\ stream'[c].cursor = stream[c].cursor
    BY <1>3, <2>1
  <2>3. fetch' \in [Clients -> Fetches] /\ \A d \in Clients \ {c} : fetch'[d] = fetch[d]
    BY <1>1, <1>2, <1>4
  <2>4. again' \subseteq Clients /\ \A d \in Clients \ {c} : d \in again' <=> d \in again
    BY <1>1 DEF SyncInv, ClientsOK
  <2> QED BY <2>1, <2>2, <2>3, <2>4
<1>6. fetch'[c].at = "asked" \/ (fetch'[c].at # "idle" /\ c \in again')
  BY <1>1, <1>2, <1>4
<1>7. Alone(c)
  BY <1>1, <1>5 DEF Alone
<1>8. ClientsOK'
  BY <1>1, <1>5 DEF SyncInv, ClientsOK, Conns, Fetches
<1>9. ToldAt(c)'
  BY <1>1, <1>5, ClientIs DEF ToldAt
<1>10. QuietAt(c)'
  BY <1>6 DEF QuietAt
<1> QED BY <1>7, <1>8, <1>9, <1>10, ClientAlone

LEMMA ServeStep ==
  ASSUME SyncInv, NEW c \in Clients, Serve(c)
  PROVE  SyncInv'
<1> DEFINE x == [at |-> "answered", cursor |-> Len(state.log)]
<1>1. /\ fetch' = [fetch EXCEPT ![c] = x]
      /\ UNCHANGED <<storage, runtime, stream, told, again, shown, lost, drops, crashes>>
  BY DEF Serve
<1>2. x \in Fetches /\ x.at = "answered" /\ x.cursor = Len(state.log)
  BY ClientIs DEF Fetches
<1> HIDE DEF x
<1>3. /\ shown \in [Clients -> 0..MaxEvents] /\ drops \in 0..MaxDrops
      /\ fetch \in [Clients -> Fetches]
  BY DEF SyncInv, ClientsOK, Fetches
<1>4. fetch'[c] = x
  BY <1>1, <1>3
<1>5. QuietAt(c)'
  BY <1>1, <1>2, <1>4 DEF QuietAt, storage
<1> QED BY <1>1, <1>2, <1>3, <1>5, FetchMoves

LEMMA ApplyStep ==
  ASSUME SyncInv, NEW c \in Clients, Apply(c)
  PROVE  SyncInv'
<1> DEFINE a == IF c \in again THEN "asked" ELSE "idle"
           x == [NoFetch EXCEPT !.at = a]
<1>1. /\ fetch[c].at = "answered"
      /\ shown' = [shown EXCEPT ![c] = fetch[c].cursor]
      /\ fetch' = [fetch EXCEPT ![c] = x]
      /\ again' = again \ {c} /\ lost' = lost \ {c}
      /\ UNCHANGED <<storage, runtime, stream, told, drops, crashes>>
  BY DEF Apply
<1>2. x = [at |-> a, cursor |-> 0]
  BY DEF NoFetch
<1>3. x \in Fetches /\ x.at = a
  BY <1>2, ClientSyncAssumption DEF Fetches
<1> HIDE DEF x
<1>4. /\ shown \in [Clients -> 0..MaxEvents] /\ drops \in 0..MaxDrops
      /\ fetch \in [Clients -> Fetches] /\ fetch[c].cursor \in 0..MaxEvents
  BY DEF SyncInv, ClientsOK, Fetches
<1>5. /\ fetch'[c].at = a /\ shown'[c] = fetch[c].cursor
      /\ shown' \in [Clients -> 0..MaxEvents]
      /\ \A d \in Clients \ {c} : shown'[d] = shown[d]
  BY <1>1, <1>3, <1>4
<1>6. QuietAt(c)'
  <2>1. QuietAt(c)
    BY DEF SyncInv, Quiet
  <2>2. UNCHANGED <<state, failed, accepting, stream>>
    BY <1>1 DEF storage, runtime
  <2> QED BY <1>1, <1>5, <2>1, <2>2 DEF QuietAt
<1>7. again' \ {c} = again \ {c} /\ lost' \ {c} = lost \ {c}
  BY <1>1
<1> QED BY <1>1, <1>3, <1>4, <1>5, <1>6, <1>7, FetchMoves

LEMMA FetchFailsStep ==
  ASSUME SyncInv, NEW c \in Clients, FetchFails(c)
  PROVE  SyncInv'
<1>1. /\ fetch' = [fetch EXCEPT ![c] = NoFetch]
      /\ again' = again \ {c} /\ lost' = lost \cup {c}
      /\ UNCHANGED <<storage, runtime, stream, told, shown, crashes>>
  BY DEF FetchFails
<1>2. NoFetch \in Fetches /\ NoFetch.at = "idle"
  BY ClientSyncAssumption DEF NoFetch, Fetches
<1>3. /\ shown \in [Clients -> 0..MaxEvents] /\ fetch \in [Clients -> Fetches]
      /\ drops' \in 0..MaxDrops
  BY ClientSyncAssumption DEF SyncInv, ClientsOK, Fetches, FetchFails
<1>4. fetch'[c] = NoFetch /\ c \in lost'
  BY <1>1, <1>3
<1>5. QuietAt(c)'
  BY <1>2, <1>4 DEF QuietAt
<1>6. again' \ {c} = again \ {c} /\ lost' \ {c} = lost \ {c}
  BY <1>1
<1> QED BY <1>1, <1>2, <1>3, <1>5, <1>6, FetchMoves

-----------------------------------------------------------------------------
(* The theorems.                                                           *)

LEMMA SyncInit == Init => SyncInv
<1> SUFFICES ASSUME Init PROVE SyncInv
  OBVIOUS
<1>1. Fresh \in State /\ Fresh.log = <<>> /\ Len(Fresh.log) = 0
      /\ DOMAIN Fresh.commands = {} /\ DOMAIN Fresh.approvals = {}
  <2> DEFINE none == {}
             f == [k \in none |-> ""]
             g == [r \in none |-> TRUE]
  <2>1. /\ none \in SUBSET Commands /\ none \in SUBSET Requests
        /\ f \in [none -> Status] /\ g \in [none -> BOOLEAN]
    OBVIOUS
  <2>2. <<>> \in Seq(Events) /\ Fresh = [log |-> <<>>, commands |-> f, approvals |-> g]
    BY DEF Fresh
  <2>3. DOMAIN f = {} /\ DOMAIN g = {}
    OBVIOUS
  <2> HIDE DEF f, g, none
  <2>4. f \in UNION {[S -> Status] : S \in SUBSET Commands}
    BY <2>1
  <2>5. g \in UNION {[S -> BOOLEAN] : S \in SUBSET Requests}
    BY <2>1
  <2>6. Fresh \in State
    BY <2>2, <2>4, <2>5 DEF State, Events
  <2> QED BY <2>2, <2>3, <2>6
<1>2. StorageOK
  <2>1. MaxEvents \in Nat /\ MaxFaults \in Nat
    BY ClientSyncAssumption, StoreAssumption
  <2>2. /\ state = Fresh /\ disk = Fresh /\ failed = FALSE /\ born = 0 /\ faults = 0
    BY DEF Init
  <2>3. Fits(Fresh, 0, 0)
    <3> HIDE DEF Fresh
    <3> QED BY <1>1, <2>1 DEF Fits
  <2>4. Fits(state, born, faults) /\ Fits(disk, born, faults)
    BY <2>2, <2>3
  <2>5. born \in Nat /\ faults \in 0..MaxFaults /\ disk = state
    BY <2>1, <2>2
  <2>6. failed \in BOOLEAN
    BY <2>2
  <2> QED BY <2>4, <2>5, <2>6 DEF StorageOK
<1>3. RuntimeOK
  BY DEF Init, RuntimeOK
<1>4. Off \in Conns /\ NoFetch \in Fetches /\ Off.at = "off"
  BY ClientSyncAssumption DEF Off, NoFetch, Conns, Fetches
<1>5. ClientsOK
  <2>1. stream \in [Clients -> Conns] /\ fetch \in [Clients -> Fetches]
    BY <1>4 DEF Init
  <2>2. /\ told \in [Clients -> Seq(Events)] /\ again \subseteq Clients /\ lost \subseteq Clients
        /\ shown \in [Clients -> 0..MaxEvents]
        /\ crashes \in 0..MaxCrashes /\ drops \in 0..MaxDrops
    BY ClientSyncAssumption, StoreAssumption DEF Init
  <2> QED BY <2>1, <2>2 DEF ClientsOK, Conns, Fetches
<1>6. \A c \in Clients : stream[c].at = "off" /\ told[c] = <<>>
  BY <1>4 DEF Init
<1>7. Told
  <2> SUFFICES ASSUME NEW c \in Clients PROVE ToldAt(c)
    BY DEF Told
  <2>1. told[c] = <<>> /\ Len(told[c]) = 0 /\ Len(disk.log) = 0 /\ stream[c].at = "off"
    BY <1>1, <1>6 DEF Init
  <2> QED BY <2>1 DEF ToldAt
<1>8. Quiet
  BY <1>6 DEF Quiet, QuietAt
<1>9. \A k \in Commands : reached[k] = 0 /\ ~Delivered(k)
  BY DEF Init, Delivered
<1>10. Receipts
  BY <1>1, <1>9 DEF Init, Receipts, Knows
<1>11. Claims
  BY <1>1, <1>9 DEF Init, Claims
<1> QED BY <1>2, <1>3, <1>5, <1>7, <1>8, <1>10, <1>11 DEF SyncInv

LEMMA SyncStep == SyncInv /\ [Next]_vars => SyncInv'
<1> SUFFICES ASSUME SyncInv, [Next]_vars PROVE SyncInv'
  OBVIOUS
<1>1. CASE RecordEvent
  BY <1>1, RecordEventStep
<1>2. ASSUME NEW r \in Requests, RecordRequest(r) \/ RecordDecision(r) PROVE SyncInv'
  BY <1>2, RecordRequestStep, RecordDecisionStep
<1>3. ASSUME NEW k \in Commands, RecordResult(k) \/ Command(k) \/ Take(k) PROVE SyncInv'
  BY <1>3, RecordResultStep, CommandStep, TakeStep
<1>4. CASE RuntimeEnds \/ Restart
  BY <1>4, RuntimeEndsStep, RestartStep
<1>5. ASSUME NEW c \in Clients, StreamStep(c) \/ Drop(c) PROVE SyncInv'
  <2>1. CASE ReadEvents(c) \/ Send(c)
    BY <2>1, ReadEventsStep, SendStep
  <2>2. CASE Subscribe(c) \/ ReadFails(c) \/ Waken(c) \/ Tick(c) \/ Drop(c)
    BY <2>2, StreamOnlySteps
  <2> QED BY <1>5, <2>1, <2>2 DEF StreamStep
<1>6. ASSUME NEW c \in Clients, ClientStep(c) \/ FetchFails(c) PROVE SyncInv'
  BY <1>6, ConnectStep, ServeStep, ApplyStep, FetchFailsStep DEF ClientStep
<1>7. CASE UNCHANGED vars
  BY <1>7 DEF SyncInv, StorageOK, RuntimeOK, ClientsOK, Told, ToldAt, Quiet, QuietAt, Receipts,
              Claims, Knows, Delivered, vars, storage, runtime, clients
<1> QED BY <1>1, <1>2, <1>3, <1>4, <1>5, <1>6, <1>7 DEF Next

\* The inductive invariant.
THEOREM SyncInvariant == Spec => []SyncInv
BY SyncInit, SyncStep, PTL DEF Spec

\* Every variable keeps its type, and the file is the state unless a write failed.
THEOREM SyncTypeCorrect == Spec => []TypeOK
<1>1. SyncInv => TypeOK
  <2> SUFFICES ASSUME SyncInv PROVE TypeOK
    OBVIOUS
  <2>1. /\ state \in State /\ disk \in State /\ failed \in BOOLEAN /\ (~failed => disk = state)
        /\ faults \in 0..MaxFaults
    BY DEF SyncInv, StorageOK, Fits
  <2>2. born \in 0..MaxEvents + MaxFaults
    <3>1. /\ Len(state.log) \in Nat /\ Len(state.log) <= MaxEvents
          /\ born <= Len(state.log) + faults /\ born \in Nat
      BY <2>1, StateParts DEF SyncInv, StorageOK, Fits
    <3>2. MaxEvents \in Nat /\ MaxFaults \in Nat
      BY ClientSyncAssumption, StoreAssumption
    <3> QED BY <2>1, <3>1, <3>2
  <2> QED BY <2>1, <2>2 DEF SyncInv, RuntimeOK, ClientsOK, TypeOK, Events
<1> QED BY <1>1, SyncInvariant, PTL

\* Two sequences with the same values are the same up to there.
LEMMA PrefixIs ==
  ASSUME NEW s \in Seq(Events), NEW t \in Seq(Events), Len(s) <= Len(t),
         \A i \in 1..Len(s) : s[i] = t[i]
  PROVE  IsPrefix(s, t)
<1> DEFINE n == Len(s)
           t1 == SubSeq(t, 1, n)
<1>1. n \in Nat /\ Len(t) \in Nat
  BY LenProperties
<1>2. SubSeq(s, 1, n) = s
  BY SubSeqFull
<1>3. \A i \in 1..n : t[i] \in Events
  BY <1>1, ElementOfSeq
<1>4. /\ t1 \in Seq(Events) /\ Len(t1) = (IF 1 <= n THEN n - 1 + 1 ELSE 0)
      /\ \A i \in 1..n - 1 + 1 : t1[i] = t[1 + i - 1]
  <2> HIDE DEF n
  <2> QED BY <1>1, <1>3, SubSeqProperties
<1>5. Len(t1) = n
  <2> HIDE DEF n, t1
  <2> QED BY <1>1, <1>4
<1>6. \A i \in 1..n : t1[i] = t[i]
  <2> HIDE DEF n, t1
  <2> SUFFICES ASSUME NEW i \in 1..n PROVE t1[i] = t[i]
    OBVIOUS
  <2>1. i \in 1..n - 1 + 1 /\ 1 + i - 1 = i
    BY <1>1
  <2> QED BY <1>4, <2>1
<1>7. t1 = s
  <2> HIDE DEF t1
  <2>1. s \in [1..n -> Events] /\ t1 \in [1..n -> Events]
    BY <1>4, <1>5, LenProperties
  <2> QED BY <1>6, <2>1
<1> QED BY <1>2, <1>7 DEF IsPrefix

\* What a stream tells is the durable log.
THEOREM StreamsTellTheLog == Spec => []ToldIsDurable
<1>1. SyncInv => ToldIsDurable
  <2> SUFFICES ASSUME SyncInv, NEW c \in Clients
               PROVE  /\ IsPrefix(told[c], disk.log)
                      /\ stream[c].at # "off" => Len(told[c]) = stream[c].cursor
    BY DEF ToldIsDurable
  <2>1. told[c] \in Seq(Events) /\ ToldAt(c)
    BY ClientIs
  <2>2. disk.log \in Seq(Events)
    BY StateParts DEF SyncInv, StorageOK, Fits
  <2> QED BY <2>1, <2>2, PrefixIs DEF ToldAt
<1> QED BY <1>1, SyncInvariant, PTL

\* A client that has nothing on its way shows the latest state.
THEOREM QuietClientsAreCurrent == Spec => []QuietClientIsCurrent
<1>1. SyncInv => QuietClientIsCurrent
  BY DEF SyncInv, Quiet, QuietAt, QuietClientIsCurrent
<1> QED BY <1>1, SyncInvariant, PTL

\* A command reaches the runtime at most once, after its receipt.
THEOREM CommandsRunOnce == Spec => []CommandOnce
<1>1. SyncInv => CommandOnce
  <2> SUFFICES ASSUME SyncInv, NEW k \in Commands
               PROVE  /\ reached[k] + (IF k \in input THEN 1 ELSE 0) <= 1
                      /\ (k \in input \/ reached[k] > 0) =>
                           k \in DOMAIN disk.commands /\ disk.commands[k] # "runtime_unavailable"
                      /\ k \in DOMAIN state.commands /\ state.commands[k] = "processed"
                           => reached[k] = 1
    BY DEF CommandOnce
  <2>1. /\ reached[k] \in {0, 1} /\ (k \in input => reached[k] = 0)
        /\ Knows(state, k) /\ Knows(disk, k)
    BY DEF SyncInv, Receipts
  <2>2. reached[k] + (IF k \in input THEN 1 ELSE 0) <= 1
    BY <2>1
  <2> QED BY <2>1, <2>2 DEF Knows, Delivered
<1> QED BY <1>1, SyncInvariant, PTL

\* One answer to a request reaches the runtime.
THEOREM RequestsAnsweredOnce == Spec => []OneAnswer
<1>1. SyncInv => OneAnswer
  <2> SUFFICES ASSUME SyncInv, NEW r \in Requests
               PROVE  Cardinality({k \in Commands :
                                     Kind[k] = r /\ (k \in input \/ reached[k] > 0)}) <= 1
    BY DEF OneAnswer
  <2> DEFINE S == {k \in Commands : Kind[k] = r /\ (k \in input \/ reached[k] > 0)}
  <2>1. \A k, l \in S : k = l
    BY DEF SyncInv, Claims, Delivered
  <2>2. CASE S = {}
    BY <2>2, FS_EmptySet
  <2>3. CASE S # {}
    <3>1. PICK k \in S : TRUE
      BY <2>3
    <3>2. S = {k}
      BY <2>1, <3>1
    <3>3. Cardinality({k}) = 1
      BY FS_Singleton
    <3> QED BY <3>2, <3>3
  <2> QED BY <2>2, <2>3
<1> QED BY <1>1, SyncInvariant, PTL

-----------------------------------------------------------------------------
(* The inductive invariant.  It speaks of two lists, the one in memory and *)
(* the one in the file, which after a failed write are different futures:  *)
(* a restart goes on with the file's.                                      *)

\* The notes of a list that are being sent.
InHand(ns) == {ns[i] : i \in {j \in DOMAIN ns : ns[j].state = "sending"}}

Unsent == {"queued", "quota_wait", "failed"}

\* What would be sent again has used up no copy that is not allowed, and what
\* is called accepted was taken.
Honest(n, c, a) ==
  /\ n.state \in Unsent => c[n.id] <= a[n.id]
  /\ n.state = "accepted" => c[n.id] >= 1

\* A list of notes whose ids, up to m, are given once.
List(ns, m, c, a) ==
  /\ ns \in Seq(Note) /\ Len(ns) <= Capacity
  /\ \A i \in DOMAIN ns : ns[i].id <= m /\ Honest(ns[i], c, a)
  /\ \A i, j \in DOMAIN ns : ns[i].id = ns[j].id => i = j

Lists ==
  /\ List(notes, made, copies, allowed) /\ List(saved[1], made, copies, allowed)
  /\ ~failed => saved = <<notes, quota>>

Counts ==
  /\ copies \in [Ids -> Nat] /\ allowed \in [Ids -> Nat] /\ made \in 0..MaxNotes
  /\ \A n \in Ids : copies[n] <= 1 + allowed[n] /\ (n > made => copies[n] = 0)

Scalars ==
  /\ failed \in BOOLEAN /\ today \in BOOLEAN /\ recipient \in Recipients
  /\ worker \in {"idle", "sending", "answered", "stopped"} /\ outcome \in Outcomes

\* The worker has exactly one notification in its hands, and the file, should
\* a restart read it, does not take that one for unsent.
Flight ==
  /\ worker \in {"sending", "answered"} => \E n \in Note : InHand(notes) = {n}
  /\ worker = "idle" /\ ~failed => InHand(notes) = {}
  /\ worker = "stopped" => failed
  /\ \A n \in InHand(notes) :
       /\ worker = "sending" => copies[n.id] <= allowed[n.id]
       /\ worker = "answered" /\ outcome \in {"queued", "failed"} => copies[n.id] <= allowed[n.id]
       /\ worker = "answered" /\ outcome = "accepted" => copies[n.id] >= 1
       /\ worker = "sending" =>
            \A j \in DOMAIN saved[1] : saved[1][j].id = n.id => saved[1][j].state = "sending"

\* Every attempt that has reached the platform today, or may yet, is counted,
\* in memory and in the file.
Counted ==
  /\ quota \in [Recipients -> 0..DailyLimit] /\ saved[2] \in [Recipients -> 0..DailyLimit]
  /\ sent \in [Recipients -> Nat]
  /\ \A r \in Recipients : sent[r] <= quota[r] /\ sent[r] <= saved[2][r]
  /\ worker = "sending" /\ today =>
       \A n \in InHand(notes) :
         /\ sent[n.recipient] + 1 <= quota[n.recipient]
         /\ sent[n.recipient] + 1 <= saved[2][n.recipient]

OutboxInv == Lists /\ Counts /\ Scalars /\ Flight /\ Counted

-----------------------------------------------------------------------------
(* Lists of notes.                                                         *)

\* A note has the fields of a note.
LEMMA NoteFields ==
  ASSUME NEW n \in Note
  PROVE  /\ n.id \in Ids /\ n.id \in Nat /\ n.state \in States /\ n.due \in BOOLEAN
         /\ n.attempts \in 0..MaxAttempts /\ n.recipient \in Recipients
BY OutboxAssumption DEF Note, Ids

LEMMA NotesIn ==
  ASSUME NEW m, NEW c, NEW a, NEW ns, List(ns, m, c, a)
  PROVE  /\ Len(ns) \in Nat /\ DOMAIN ns = 1..Len(ns)
         /\ \A i \in DOMAIN ns : ns[i] \in Note
BY LenProperties, ElementOfSeq DEF List

\* One note of a list is replaced by one with its id.
LEMMA Replaced ==
  ASSUME NEW m, NEW c, NEW a, NEW ns, List(ns, m, c, a),
         NEW i \in DOMAIN ns, NEW n \in Note, n.id = ns[i].id, Honest(n, c, a)
  PROVE  LET ms == [ns EXCEPT ![i] = n]
         IN  /\ List(ms, m, c, a)
             /\ DOMAIN ms = DOMAIN ns
             /\ \A j \in DOMAIN ms : ms[j] = IF j = i THEN n ELSE ns[j]
<1> DEFINE ms == [ns EXCEPT ![i] = n]
<1>1. Len(ns) \in Nat /\ DOMAIN ns = 1..Len(ns) /\ ns \in Seq(Note)
  BY NotesIn DEF List
<1>2. /\ ms \in Seq(Note) /\ Len(ms) = Len(ns)
      /\ \A j \in 1..Len(ns) : ms[j] = IF j = i THEN n ELSE ns[j]
  BY <1>1, ExceptSeq
<1>3. DOMAIN ms = DOMAIN ns
  BY <1>1
<1> HIDE DEF ms
<1>4. List(ms, m, c, a)
  BY <1>1, <1>2, <1>3 DEF List
<1> QED BY <1>1, <1>2, <1>3, <1>4 DEF ms

\* A list may be read with more ids, copies and permissions than it was made
\* with, if its unsent notes stay so.
LEMMA Later ==
  ASSUME NEW m \in Nat, NEW c \in [Ids -> Nat], NEW a \in [Ids -> Nat], NEW ns, List(ns, m, c, a),
         NEW m2 \in Nat, NEW c2 \in [Ids -> Nat], NEW a2 \in [Ids -> Nat],
         m <= m2, \A k \in Ids : c[k] <= c2[k] /\ a[k] <= a2[k],
         \A i \in DOMAIN ns : ns[i].state \in Unsent => c2[ns[i].id] = c[ns[i].id]
  PROVE  List(ns, m2, c2, a2)
<1>1. \A i \in DOMAIN ns : ns[i].id \in Ids /\ ns[i].id \in Nat
  BY NotesIn, NoteFields
<1>2. ASSUME NEW i \in DOMAIN ns PROVE ns[i].id <= m2 /\ Honest(ns[i], c2, a2)
  <2>1. ns[i].id <= m /\ Honest(ns[i], c, a) /\ ns[i].id \in Ids /\ ns[i].id \in Nat
    BY <1>1 DEF List
  <2>2. c[ns[i].id] \in Nat /\ c2[ns[i].id] \in Nat /\ a[ns[i].id] \in Nat /\ a2[ns[i].id] \in Nat
    BY <2>1
  <2> QED BY <2>1, <2>2 DEF Honest
<1> QED BY <1>2 DEF List

\* Giving up the note at i keeps the others in their order.
LEMMA Removed ==
  ASSUME NEW m, NEW c, NEW a, NEW ns, List(ns, m, c, a), NEW i \in DOMAIN ns
  PROVE  LET ms == RemoveAt(ns, i)
         IN  /\ List(ms, m, c, a) /\ Len(ms) = Len(ns) - 1 /\ DOMAIN ms = 1..Len(ms)
             /\ \A j \in DOMAIN ms : ms[j] = IF j < i THEN ns[j] ELSE ns[j + 1]
<1> DEFINE ms == RemoveAt(ns, i)
           front == SubSeq(ns, 1, i - 1)
           back == SubSeq(ns, i + 1, Len(ns))
<1>1. /\ Len(ns) \in Nat /\ DOMAIN ns = 1..Len(ns) /\ ns \in Seq(Note)
      /\ \A j \in 1..Len(ns) : ns[j] \in Note
  BY NotesIn DEF List
<1>2. i \in 1..Len(ns) /\ i \in Int /\ i - 1 \in Int /\ i + 1 \in Int
  BY <1>1
<1>3. /\ front \in Seq(Note) /\ Len(front) = i - 1
      /\ \A j \in 1..i - 1 : front[j] = ns[j]
  <2>1. \A j \in 1..i - 1 : ns[j] \in Note
    BY <1>1, <1>2
  <2>2. /\ front \in Seq(Note) /\ Len(front) = IF 1 <= i - 1 THEN i - 1 - 1 + 1 ELSE 0
        /\ \A j \in 1..i - 1 - 1 + 1 : front[j] = ns[1 + j - 1]
    BY <1>2, <2>1, SubSeqProperties
  <2> HIDE DEF front
  <2> QED BY <1>2, <2>2
<1>4. /\ back \in Seq(Note) /\ Len(back) = Len(ns) - i
      /\ \A j \in 1..Len(ns) - i : back[j] = ns[i + j]
  <2>1. \A j \in i + 1..Len(ns) : ns[j] \in Note
    BY <1>1, <1>2
  <2>2. /\ back \in Seq(Note)
        /\ Len(back) = IF i + 1 <= Len(ns) THEN Len(ns) - (i + 1) + 1 ELSE 0
        /\ \A j \in 1..Len(ns) - (i + 1) + 1 : back[j] = ns[i + 1 + j - 1]
    BY <1>1, <1>2, <2>1, SubSeqProperties
  <2> HIDE DEF back
  <2>3. Len(back) = Len(ns) - i
    <3>1. CASE i + 1 <= Len(ns)
      BY <3>1, <1>1, <1>2, <2>2
    <3>2. CASE ~(i + 1 <= Len(ns))
      <4>1. Len(ns) - i = 0
        BY <3>2, <1>1, <1>2
      <4> QED BY <3>2, <4>1, <2>2
    <3> QED BY <3>1, <3>2
  <2>4. ASSUME NEW j \in 1..Len(ns) - i PROVE back[j] = ns[i + j]
    <3>1. j \in 1..Len(ns) - (i + 1) + 1 /\ i + 1 + j - 1 = i + j
      BY <1>1, <1>2
    <3>2. back[j] = ns[i + 1 + j - 1]
      BY <2>2, <3>1
    <3> QED BY <3>1, <3>2
  <2> QED BY <2>2, <2>3, <2>4
<1> HIDE DEF front, back
<1>5. ms = front \o back
  BY DEF RemoveAt, front, back
<1> HIDE DEF ms
<1>6. /\ ms \in Seq(Note) /\ Len(ms) = Len(front) + Len(back)
      /\ \A j \in 1..Len(front) + Len(back) :
           ms[j] = IF j <= Len(front) THEN front[j] ELSE back[j - Len(front)]
  BY <1>3, <1>4, <1>5, ConcatProperties
<1>7. Len(ms) = Len(ns) - 1 /\ DOMAIN ms = 1..Len(ms)
  BY <1>1, <1>2, <1>3, <1>4, <1>6, LenProperties
<1>8. ASSUME NEW j \in 1..Len(ms) PROVE ms[j] = IF j < i THEN ns[j] ELSE ns[j + 1]
  <2>1. CASE j < i
    BY <2>1, <1>2, <1>3, <1>4, <1>6, <1>7
  <2>2. CASE ~(j < i)
    <3>1. j - (i - 1) \in 1..Len(ns) - i /\ ~(j <= i - 1)
      BY <2>2, <1>1, <1>2, <1>7
    <3>2. ms[j] = back[j - (i - 1)]
      BY <3>1, <1>3, <1>4, <1>6, <1>7
    <3>3. back[j - (i - 1)] = ns[i + (j - (i - 1))]
      BY <3>1, <1>4
    <3>4. i + (j - (i - 1)) = j + 1
      BY <1>2
    <3> QED BY <2>2, <3>2, <3>3, <3>4
  <2> QED BY <2>1, <2>2
<1> DEFINE at(j) == IF j < i THEN j ELSE j + 1
<1>9. \A j \in DOMAIN ms : at(j) \in DOMAIN ns /\ ms[j] = ns[at(j)]
  BY <1>1, <1>2, <1>7, <1>8
<1>10. \A j, k \in DOMAIN ms : at(j) = at(k) => j = k
  BY <1>1, <1>2, <1>7
<1> HIDE DEF at
<1>11. List(ms, m, c, a)
  <2>1. Len(ms) <= Capacity
    BY <1>1, <1>7, OutboxAssumption DEF List
  <2>2. ASSUME NEW j \in DOMAIN ms PROVE ms[j].id <= m /\ Honest(ms[j], c, a)
    BY <1>9 DEF List
  <2>3. ASSUME NEW j \in DOMAIN ms, NEW k \in DOMAIN ms, ms[j].id = ms[k].id PROVE j = k
    BY <2>3, <1>9, <1>10 DEF List
  <2> QED BY <1>6, <2>1, <2>2, <2>3 DEF List
<1> QED BY <1>7, <1>8, <1>11 DEF ms

\* A new note is put at the end.
LEMMA NoteAppended ==
  ASSUME NEW m \in Nat, NEW c, NEW a, NEW ns, List(ns, m, c, a), Len(ns) < Capacity,
         NEW n \in Note, n.id = m + 1, Honest(n, c, a)
  PROVE  LET ms == Append(ns, n)
         IN  /\ List(ms, m + 1, c, a) /\ DOMAIN ms = 1..Len(ns) + 1
             /\ \A j \in DOMAIN ms : ms[j] = IF j \in DOMAIN ns THEN ns[j] ELSE n
<1> DEFINE ms == Append(ns, n)
<1>1. /\ Len(ns) \in Nat /\ DOMAIN ns = 1..Len(ns) /\ ns \in Seq(Note)
      /\ \A j \in 1..Len(ns) : ns[j] \in Note /\ ns[j].id \in Nat
  BY NotesIn, NoteFields DEF List
<1>2. /\ ms \in Seq(Note) /\ Len(ms) = Len(ns) + 1
      /\ \A j \in 1..Len(ns) : ms[j] = ns[j]
      /\ ms[Len(ns) + 1] = n
  BY <1>1, AppendProperties
<1>3. DOMAIN ms = 1..Len(ns) + 1
  BY <1>2, LenProperties
<1> HIDE DEF ms
<1>4. \A j \in DOMAIN ms : ms[j] = IF j \in DOMAIN ns THEN ns[j] ELSE n
  BY <1>1, <1>2, <1>3
<1>5. List(ms, m + 1, c, a)
  <2>1. Len(ms) <= Capacity
    BY <1>1, <1>2, OutboxAssumption
  <2>2. ASSUME NEW j \in DOMAIN ms PROVE ms[j].id <= m + 1 /\ Honest(ms[j], c, a)
    BY <1>1, <1>4 DEF List
  <2>3. ASSUME NEW j \in DOMAIN ms, NEW k \in DOMAIN ms, ms[j].id = ms[k].id PROVE j = k
    <3>1. \A i \in DOMAIN ns : ns[i].id <= m /\ ns[i].id \in Nat
      BY <1>1 DEF List
    <3>2. CASE j \in DOMAIN ns /\ k \in DOMAIN ns
      BY <3>2, <2>3, <1>4 DEF List
    <3>3. CASE j \in DOMAIN ns /\ k \notin DOMAIN ns
      BY <3>1, <3>3, <2>3, <1>4
    <3>4. CASE j \notin DOMAIN ns /\ k \in DOMAIN ns
      BY <3>1, <3>4, <2>3, <1>4
    <3>5. CASE j \notin DOMAIN ns /\ k \notin DOMAIN ns
      BY <3>5, <1>1, <1>3
    <3> QED BY <3>2, <3>3, <3>4, <3>5
  <2> QED BY <1>2, <2>1, <2>2, <2>3 DEF List
<1> QED BY <1>3, <1>4, <1>5 DEF ms

\* The notes in hand are notes of the list, and no other note has their ids.
LEMMA HandIsOfList ==
  ASSUME NEW m, NEW c, NEW a, NEW ns, List(ns, m, c, a)
  PROVE  /\ \A n \in InHand(ns) : n \in Note /\ n.state = "sending"
         /\ \A n \in InHand(ns), j \in DOMAIN ns : ns[j].id = n.id => ns[j] = n
BY NotesIn DEF InHand, List

-----------------------------------------------------------------------------
(* A change of the store.                                                  *)

\* A change is made in memory and in the file, or the store fails and the file
\* holds either list.
LEMMA ChangeIs ==
  ASSUME NEW ns, NEW q, Change(ns, q), failed \in BOOLEAN
  PROVE  /\ ~failed
         /\ \/ notes' = ns /\ quota' = q /\ saved' = <<ns, q>> /\ failed' = FALSE
            \/ notes' = notes /\ quota' = quota /\ failed' = TRUE /\ saved' \in {saved, <<ns, q>>}
BY DEF Change, Written, NotWritten, WriteSucceeds, WriteFails

\* Both lists stay lists.
LEMMA ListsAfter ==
  ASSUME NEW ns, NEW q, Change(ns, q), failed \in BOOLEAN,
         List(notes, made', copies', allowed'), List(saved[1], made', copies', allowed'),
         List(ns, made', copies', allowed')
  PROVE  Lists' /\ failed' \in BOOLEAN
<1>1. CASE notes' = ns /\ quota' = q /\ saved' = <<ns, q>> /\ failed' = FALSE
  BY <1>1 DEF Lists
<1>2. CASE notes' = notes /\ quota' = quota /\ failed' = TRUE /\ saved' \in {saved, <<ns, q>>}
  BY <1>2 DEF Lists
<1> QED BY <1>1, <1>2, ChangeIs

\* The worker is not disturbed by what leaves the note in its hands alone.
LEMMA FlightKept ==
  ASSUME OutboxInv, InHand(notes') = InHand(notes), worker' = worker, outcome' = outcome,
         copies' = copies, allowed' \in [Ids -> Nat], \A n \in Ids : allowed[n] <= allowed'[n],
         failed => failed',
         \/ saved'[1] = saved[1]
         \/ InHand(saved'[1]) = InHand(notes) /\ List(saved'[1], made', copies', allowed')
  PROVE  Flight'
<1>1. \A n \in InHand(notes) : n.id \in Ids /\ n.state = "sending"
  BY HandIsOfList, NoteFields DEF OutboxInv, Lists
<1>2. \A n \in InHand(notes) : /\ copies[n.id] \in Nat /\ allowed[n.id] \in Nat /\ allowed'[n.id] \in Nat
                               /\ allowed[n.id] <= allowed'[n.id]
  BY <1>1 DEF OutboxInv, Counts
<1>3. ASSUME NEW n \in InHand(notes), worker = "sending", NEW j \in DOMAIN saved'[1],
             saved'[1][j].id = n.id
      PROVE  saved'[1][j].state = "sending"
  <2>1. CASE saved'[1] = saved[1]
    BY <1>3, <2>1 DEF OutboxInv, Flight
  <2>2. CASE InHand(saved'[1]) = InHand(notes) /\ List(saved'[1], made', copies', allowed')
    BY <1>1, <1>3, <2>2, HandIsOfList
  <2> QED BY <2>1, <2>2
<1>4. ASSUME NEW n \in InHand(notes)
      PROVE  /\ worker = "sending" => copies[n.id] <= allowed'[n.id]
             /\ worker = "answered" /\ outcome \in {"queued", "failed"} => copies[n.id] <= allowed'[n.id]
             /\ worker = "answered" /\ outcome = "accepted" => copies[n.id] >= 1
  BY <1>2, <1>4 DEF OutboxInv, Flight
<1>5. failed \in BOOLEAN /\ Flight
  BY DEF OutboxInv, Scalars
<1> QED BY <1>3, <1>4, <1>5 DEF Flight

\* The quota counts what it counted.
LEMMA CountedKept ==
  ASSUME OutboxInv, InHand(notes') = InHand(notes), worker' = worker, today' = today, sent' = sent,
         quota' = quota, saved'[2] \in {saved[2], quota}
  PROVE  Counted'
BY DEF OutboxInv, Counted

\* A change of notes that leaves the one in hand alone.
LEMMA Undisturbed ==
  ASSUME OutboxInv, NEW ns, Change(ns, quota), InHand(ns) = InHand(notes),
         List(notes, made', copies', allowed'), List(saved[1], made', copies', allowed'),
         List(ns, made', copies', allowed'), UNCHANGED <<delivery, recipient>>, Counts',
         \A n \in Ids : allowed[n] <= allowed'[n]
  PROVE  OutboxInv'
<1>1. Lists' /\ failed' \in BOOLEAN
  BY ListsAfter DEF OutboxInv, Scalars
<1>2. Scalars'
  BY <1>1 DEF OutboxInv, Scalars, delivery
<1>3. /\ InHand(notes') = InHand(notes) /\ quota' = quota /\ saved'[2] \in {saved[2], quota}
      /\ failed => failed'
      /\ \/ saved'[1] = saved[1]
         \/ saved'[1] = ns
  <2>1. CASE notes' = ns /\ quota' = quota /\ saved' = <<ns, quota>> /\ failed' = FALSE
    BY <2>1, ChangeIs DEF OutboxInv, Scalars
  <2>2. CASE notes' = notes /\ quota' = quota /\ failed' = TRUE /\ saved' \in {saved, <<ns, quota>>}
    BY <2>2
  <2> QED BY <2>1, <2>2, ChangeIs DEF OutboxInv, Scalars
<1>4. Flight'
  BY <1>3, FlightKept DEF delivery, Counts
<1>5. Counted'
  BY <1>3, CountedKept DEF delivery
<1> QED BY <1>1, <1>2, <1>4, <1>5 DEF OutboxInv

-----------------------------------------------------------------------------
(* The actions that leave the note in the worker's hands alone.            *)

\* A set of naturals that is not empty has a least element.
LEMMA SmallestOf ==
  ASSUME NEW S \in SUBSET Nat, S # {}
  PROVE  \E i \in S : \A j \in S : i <= j
<1>1. PICK i \in S : \A j \in S : ~ (<<j, i>> \in OpToRel(<, Nat))
  BY NatLessThanWellFounded, WFMin
<1>2. \A j \in S : ~(j < i)
  BY <1>1 DEF OpToRel
<1> QED BY <1>2

\* A position that a CHOOSE takes is one of the set.
LEMMA FirstIsIn ==
  ASSUME NEW S \in SUBSET Nat, S # {}
  PROVE  FirstOf(S) \in S
<1>1. PICK i \in S : \A j \in S : i <= j
  BY SmallestOf
<1> QED BY <1>1 DEF FirstOf

\* Another note takes its place at the end, and perhaps one that is over goes.
LEMMA EnqueueKeeps ==
  ASSUME OutboxInv, Enqueue
  PROVE  OutboxInv'
<1> DEFINE new == [id |-> made + 1, state |-> "queued", due |-> TRUE, attempts |-> 0, read |-> FALSE,
                   recipient |-> recipient]
           kept == IF Len(notes) < Capacity THEN notes
                   ELSE IF Spent = {} THEN notes ELSE RemoveAt(notes, FirstOf(Spent))
           ns == IF Len(kept) < Capacity THEN Append(kept, new) ELSE notes
<1>1. /\ made < MaxNotes /\ made' = made + 1 /\ Change(ns, quota)
      /\ UNCHANGED <<delivery, allowed, recipient>>
  BY DEF Enqueue, bounds
<1>2. /\ List(notes, made, copies, allowed) /\ List(saved[1], made, copies, allowed)
      /\ made \in Nat /\ made + 1 \in Nat /\ MaxNotes \in Nat
      /\ copies \in [Ids -> Nat] /\ allowed \in [Ids -> Nat]
      /\ copies' = copies /\ allowed' = allowed
  BY <1>1, OutboxAssumption DEF OutboxInv, Lists, Counts, delivery
<1>3. Counts'
  BY <1>1, <1>2 DEF OutboxInv, Counts, Ids
<1>4. new \in Note /\ Honest(new, copies, allowed)
  <2>1. made + 1 \in Ids /\ copies[made + 1] = 0 /\ allowed[made + 1] \in Nat
    BY <1>1, <1>2 DEF OutboxInv, Counts, Ids
  <2>2. new \in Note
    BY <2>1, OutboxAssumption DEF Note, States, OutboxInv, Scalars
  <2> QED BY <2>1, <2>2 DEF Honest, Unsent
<1>5. /\ List(kept, made, copies, allowed)
      /\ InHand(kept) = InHand(notes)
  <2>1. CASE kept = notes
    BY <2>1, <1>2
  <2>2. CASE kept = RemoveAt(notes, FirstOf(Spent)) /\ Spent # {}
    <3> DEFINE i == FirstOf(Spent)
    <3>1. Len(notes) \in Nat /\ DOMAIN notes = 1..Len(notes)
      BY <1>2, NotesIn
    <3>2. i \in DOMAIN notes /\ notes[i].state # "sending"
      <4>1. Spent \in SUBSET Nat
        BY <3>1 DEF Spent, Positions
      <4>2. i \in Spent
        BY <4>1, <2>2, FirstIsIn
      <4> QED BY <4>2 DEF Spent, Positions
    <3> HIDE DEF i
    <3>3. /\ List(kept, made, copies, allowed) /\ Len(kept) = Len(notes) - 1
          /\ DOMAIN kept = 1..Len(kept)
          /\ \A j \in DOMAIN kept : kept[j] = IF j < i THEN notes[j] ELSE notes[j + 1]
      BY <2>2, <3>2, <1>2, Removed DEF i
    <3> HIDE DEF kept
    <3>4. ASSUME NEW j \in DOMAIN kept PROVE \E k \in DOMAIN notes : kept[j] = notes[k]
      BY <3>1, <3>2, <3>3
    <3>5. ASSUME NEW k \in DOMAIN notes, k # i PROVE \E j \in DOMAIN kept : kept[j] = notes[k]
      <4>1. CASE k < i
        BY <4>1, <3>1, <3>2, <3>3
      <4>2. CASE ~(k < i)
        <5>1. k - 1 \in DOMAIN kept /\ ~(k - 1 < i) /\ k - 1 + 1 = k
          BY <3>5, <4>2, <3>1, <3>2, <3>3
        <5> QED BY <5>1, <3>3
      <4> QED BY <4>1, <4>2
    <3>6. InHand(kept) = InHand(notes)
      BY <3>2, <3>4, <3>5 DEF InHand
    <3> QED BY <3>3, <3>6
  <2> QED BY <2>1, <2>2
<1> HIDE DEF kept, new
<1>6. List(ns, made', copies, allowed) /\ InHand(ns) = InHand(notes)
  <2>1. CASE Len(kept) < Capacity
    <3> DEFINE ms == Append(kept, new)
    <3>1. new.id = made + 1 /\ new.state = "queued"
      BY DEF new
    <3>2. /\ List(ms, made + 1, copies, allowed) /\ DOMAIN ms = 1..Len(kept) + 1
          /\ \A j \in DOMAIN ms : ms[j] = IF j \in DOMAIN kept THEN kept[j] ELSE new
      BY <2>1, <1>2, <1>4, <1>5, <3>1, NoteAppended
    <3>3. DOMAIN kept \subseteq DOMAIN ms
      BY <1>5, <3>2, NotesIn
    <3> HIDE DEF ms
    <3>4. InHand(ms) = InHand(kept)
      BY <3>1, <3>2, <3>3 DEF InHand
    <3>5. ns = ms
      BY <2>1 DEF ms
    <3> HIDE DEF ns
    <3> QED BY <1>1, <1>5, <3>2, <3>4, <3>5
  <2>2. CASE ~(Len(kept) < Capacity)
    <3>1. ns = notes
      BY <2>2
    <3> HIDE DEF ns
    <3> QED BY <3>1, <1>1, <1>2, Later
  <2> QED BY <2>1, <2>2
<1> HIDE DEF ns
<1>7. List(notes, made', copies, allowed) /\ List(saved[1], made', copies, allowed)
  BY <1>1, <1>2, Later
<1>8. \A n \in Ids : allowed[n] <= allowed'[n]
  BY <1>2
<1> QED BY <1>1, <1>2, <1>3, <1>6, <1>7, <1>8, Undisturbed

\* What an action gives to one note of the list in memory.
LEMMA NoteSet ==
  ASSUME NEW n \in Note, NEW st \in States, NEW d \in BOOLEAN, NEW k \in 0..MaxAttempts
  PROVE  /\ [n EXCEPT !.state = st] \in Note
         /\ [n EXCEPT !.due = d] \in Note
         /\ [n EXCEPT !.read = TRUE] \in Note
         /\ [n EXCEPT !.state = st, !.due = d] \in Note
         /\ [n EXCEPT !.state = st, !.attempts = k] \in Note
BY DEF Note

\* A note that is not in hand is replaced by another that is not.
LEMMA HandKept ==
  ASSUME NEW m, NEW c, NEW a, NEW ns, List(ns, m, c, a), NEW i \in DOMAIN ns, NEW n \in Note,
         n.id = ns[i].id, Honest(n, c, a), n.state # "sending", ns[i].state # "sending"
  PROVE  InHand([ns EXCEPT ![i] = n]) = InHand(ns)
<1> DEFINE ms == [ns EXCEPT ![i] = n]
<1>1. DOMAIN ms = DOMAIN ns /\ \A j \in DOMAIN ms : ms[j] = IF j = i THEN n ELSE ns[j]
  BY Replaced
<1> HIDE DEF ms
<1>2. InHand(ms) = InHand(ns)
  BY <1>1 DEF InHand
<1> QED BY <1>2 DEF ms

\* The user reads what is over.
LEMMA ReadKeeps ==
  ASSUME OutboxInv, NEW i \in 1..Capacity, Read(i)
  PROVE  OutboxInv'
<1> DEFINE n == [notes[i] EXCEPT !.read = TRUE]
           ns == [notes EXCEPT ![i] = n]
<1>1. /\ i \in DOMAIN notes /\ notes[i].state # "sending" /\ Change(ns, quota)
      /\ UNCHANGED <<delivery, made, allowed, recipient>>
  BY DEF Read, Positions, bounds
<1>2. List(notes, made, copies, allowed) /\ List(saved[1], made, copies, allowed) /\ notes[i] \in Note
  BY <1>1, NotesIn DEF OutboxInv, Lists
<1>3. n \in Note /\ n.id = notes[i].id /\ n.state = notes[i].state
  BY <1>2, NoteSet DEF Note
<1>4. Honest(n, copies, allowed)
  BY <1>1, <1>2, <1>3 DEF List, Honest
<1> HIDE DEF n
<1>5. List(ns, made, copies, allowed) /\ InHand(ns) = InHand(notes)
  BY <1>1, <1>2, <1>3, <1>4, Replaced, HandKept
<1> HIDE DEF ns
<1>6. Counts' /\ \A k \in Ids : allowed[k] <= allowed'[k]
  BY <1>1 DEF OutboxInv, Counts, delivery
<1>7. copies' = copies /\ allowed' = allowed /\ made' = made
  BY <1>1 DEF delivery
<1> QED BY <1>1, <1>2, <1>5, <1>6, <1>7, Undisturbed

\* The user asks for another attempt, and allows one when the result is unknown.
LEMMA RetryKeeps ==
  ASSUME OutboxInv, NEW i \in 1..Capacity, Retry(i)
  PROVE  OutboxInv'
<1> DEFINE n == [notes[i] EXCEPT !.state = "queued", !.due = TRUE]
           ns == [notes EXCEPT ![i] = n]
<1>1. /\ i \in DOMAIN notes /\ notes[i].state \in {"failed", "unknown"}
      /\ UNCHANGED <<delivery, made, recipient>>
      /\ allowed' = IF notes[i].state = "unknown"
                      THEN [allowed EXCEPT ![notes[i].id] = @ + 1] ELSE allowed
  BY DEF Retry, Positions
<1>2. /\ List(notes, made, copies, allowed) /\ List(saved[1], made, copies, allowed)
      /\ notes[i] \in Note /\ notes[i].id \in Ids
  BY <1>1, NotesIn, NoteFields DEF OutboxInv, Lists
<1>3. Change(ns, quota)
  <2>1. [At(i, "queued") EXCEPT ![i].due = TRUE] = ns
    BY <1>1, <1>2 DEF At, Note
  <2> QED BY <2>1 DEF Retry
<1>4. /\ copies \in [Ids -> Nat] /\ allowed \in [Ids -> Nat] /\ made \in Nat
      /\ \A k \in Ids : copies[k] <= 1 + allowed[k] /\ (k > made => copies[k] = 0)
      /\ copies' = copies /\ made' = made
  BY <1>1 DEF OutboxInv, Counts, delivery
<1>5. /\ allowed' \in [Ids -> Nat] /\ \A k \in Ids : allowed[k] <= allowed'[k]
      /\ notes[i].state = "unknown" => allowed'[notes[i].id] = allowed[notes[i].id] + 1
  <2>1. \A k \in Ids : allowed[k] \in Nat /\ allowed[k] <= allowed[k] /\ allowed[k] <= allowed[k] + 1
    BY <1>4
  <2>2. CASE notes[i].state = "unknown"
    <3>1. /\ allowed' = [allowed EXCEPT ![notes[i].id] = @ + 1]
          /\ allowed[notes[i].id] + 1 \in Nat
      BY <2>1, <2>2, <1>1, <1>2
    <3>2. \A k \in Ids : allowed'[k] = IF k = notes[i].id THEN allowed[k] + 1 ELSE allowed[k]
      BY <3>1, <1>4
    <3> QED BY <3>1, <3>2, <2>1, <1>2, <1>4
  <2>3. CASE notes[i].state # "unknown"
    BY <2>1, <2>3, <1>1, <1>4
  <2> QED BY <2>2, <2>3
<1>6. Counts'
  <2>1. \A k \in Ids : /\ copies[k] \in Nat /\ allowed[k] \in Nat /\ allowed'[k] \in Nat
                       /\ allowed[k] <= allowed'[k]
    BY <1>4, <1>5
  <2>2. \A k \in Ids : copies[k] <= 1 + allowed'[k]
    BY <1>4, <2>1
  <2> QED BY <1>4, <1>5, <2>2 DEF Counts, OutboxInv
<1>7. List(notes, made, copies, allowed') /\ List(saved[1], made, copies, allowed')
  BY <1>2, <1>4, <1>5, Later
<1>8. n \in Note /\ n.id = notes[i].id /\ n.state = "queued"
  BY <1>2 DEF States, Note
<1>9. Honest(n, copies, allowed')
  <2>1. copies[n.id] \in Nat /\ allowed[n.id] \in Nat /\ allowed'[n.id] \in Nat
    BY <1>2, <1>4, <1>5, <1>8
  <2>2. CASE notes[i].state = "failed"
    BY <2>2, <1>1, <1>7, <1>8 DEF List, Honest, Unsent
  <2>3. CASE notes[i].state = "unknown"
    BY <2>1, <2>3, <1>2, <1>4, <1>5, <1>8 DEF Honest
  <2> QED BY <1>1, <2>2, <2>3
<1> HIDE DEF n
<1>10. List(ns, made, copies, allowed') /\ InHand(ns) = InHand(notes)
  <2>1. List(ns, made, copies, allowed')
    BY <1>1, <1>7, <1>8, <1>9, Replaced
  <2>2. notes[i].state # "sending" /\ n.state # "sending"
    BY <1>1, <1>8
  <2>3. InHand(ns) = InHand(notes)
    BY <1>1, <1>7, <1>8, <1>9, <2>2, HandKept
  <2> QED BY <2>1, <2>3
<1> HIDE DEF ns
<1> QED BY <1>1, <1>3, <1>4, <1>5, <1>6, <1>7, <1>10, Undisturbed

\* The time of the next attempt comes, in memory and, unless the store has
\* failed, in the file.
LEMMA DueKeeps ==
  ASSUME OutboxInv, NEW i \in 1..Capacity, Due(i)
  PROVE  OutboxInv'
<1> DEFINE n == [notes[i] EXCEPT !.due = TRUE]
           ns == [notes EXCEPT ![i] = n]
<1>1. /\ i \in DOMAIN notes /\ notes[i].state = "queued" /\ notes' = ns
      /\ saved' = IF failed THEN saved ELSE <<notes', quota>>
      /\ UNCHANGED <<quota, failed, delivery, made, allowed, recipient>>
  BY DEF Due, Positions, bounds
<1>2. List(notes, made, copies, allowed) /\ List(saved[1], made, copies, allowed) /\ notes[i] \in Note
  BY <1>1, NotesIn DEF OutboxInv, Lists
<1>3. n \in Note /\ n.id = notes[i].id /\ n.state = "queued"
  BY <1>1, <1>2, NoteSet DEF Note
<1>4. Honest(n, copies, allowed)
  BY <1>1, <1>2, <1>3 DEF List, Honest
<1> HIDE DEF n
<1>5. List(ns, made, copies, allowed) /\ InHand(ns) = InHand(notes)
  <2>1. notes[i].state # "sending" /\ n.state # "sending" /\ i \in DOMAIN notes
    BY <1>1, <1>3
  <2>2. List(ns, made, copies, allowed)
    BY <2>1, <1>2, <1>3, <1>4, Replaced
  <2>3. InHand(ns) = InHand(notes)
    BY <2>1, <1>2, <1>3, <1>4, HandKept
  <2> QED BY <2>2, <2>3
<1> HIDE DEF ns
<1>6. copies' = copies /\ allowed' = allowed /\ made' = made
  BY <1>1 DEF delivery
<1>7. Lists'
  BY <1>1, <1>2, <1>5, <1>6 DEF Lists
<1>8. Counts' /\ Scalars'
  BY <1>1, <1>6 DEF OutboxInv, Counts, Scalars, delivery
<1>9. Flight'
  <2>1. \A k \in Ids : allowed[k] <= allowed'[k]
    BY <1>6 DEF OutboxInv, Counts
  <2>2. \/ saved'[1] = saved[1]
        \/ InHand(saved'[1]) = InHand(notes) /\ List(saved'[1], made', copies', allowed')
    BY <1>1, <1>5, <1>6
  <2> QED BY <1>1, <1>5, <1>8, <2>1, <2>2, FlightKept DEF delivery, Counts
<1>10. Counted'
  <2>1. saved'[2] \in {saved[2], quota}
    BY <1>1
  <2> QED BY <1>1, <1>5, <2>1, CountedKept DEF delivery
<1> QED BY <1>7, <1>8, <1>9, <1>10 DEF OutboxInv

\* A day passes: nothing has been sent on the new one yet.
LEMMA NextDayKeeps ==
  ASSUME OutboxInv, NextDay
  PROVE  OutboxInv'
<1> DEFINE ns == [i \in DOMAIN notes |->
                    [notes[i] EXCEPT !.due = @ \/ notes[i].state = "quota_wait"]]
<1>1. /\ notes' = ns /\ quota' = Unused /\ sent' = Unused /\ today' = (worker # "sending")
      /\ saved' = <<IF failed THEN saved[1] ELSE notes', Unused>>
      /\ UNCHANGED <<failed, worker, outcome, copies, recipient, made, allowed>>
  BY DEF NextDay
<1>2. /\ List(notes, made, copies, allowed) /\ List(saved[1], made, copies, allowed)
      /\ Len(notes) \in Nat /\ DOMAIN notes = 1..Len(notes)
      /\ \A i \in DOMAIN notes : notes[i] \in Note
  BY NotesIn DEF OutboxInv, Lists
<1>3. /\ DOMAIN ns = DOMAIN notes
      /\ \A i \in DOMAIN notes :
           /\ ns[i] \in Note /\ ns[i].id = notes[i].id /\ ns[i].state = notes[i].state
           /\ ns[i].recipient = notes[i].recipient
           /\ notes[i].state = "sending" => ns[i] = notes[i]
  <2>1. ASSUME NEW i \in DOMAIN notes
        PROVE  /\ [notes[i] EXCEPT !.due = @ \/ notes[i].state = "quota_wait"] \in Note
               /\ notes[i].state = "sending" =>
                    [notes[i] EXCEPT !.due = @ \/ notes[i].state = "quota_wait"] = notes[i]
    BY <1>2 DEF Note
  <2> QED BY <2>1, <1>2 DEF Note
<1>4. ns \in Seq(Note) /\ Len(ns) = Len(notes)
  <2>1. ns \in [1..Len(notes) -> Note]
    BY <1>2, <1>3
  <2>2. ns \in Seq(Note)
    BY <2>1, <1>2, SeqDef
  <2> HIDE DEF ns
  <2> QED BY <2>1, <2>2, <1>2, LenProperties
<1> HIDE DEF ns
<1>5. List(ns, made, copies, allowed)
  BY <1>2, <1>3, <1>4 DEF List, Honest
<1>6. InHand(ns) = InHand(notes)
  BY <1>3 DEF InHand
<1>7. copies' = copies /\ allowed' = allowed /\ made' = made
  BY <1>1
<1>8. Lists'
  BY <1>1, <1>2, <1>5, <1>7 DEF Lists
<1>9. Counts' /\ Scalars'
  BY <1>1 DEF OutboxInv, Counts, Scalars
<1>10. Flight'
  <2>1. \A k \in Ids : allowed[k] <= allowed'[k]
    BY <1>7 DEF OutboxInv, Counts
  <2>2. \/ saved'[1] = saved[1]
        \/ InHand(saved'[1]) = InHand(notes) /\ List(saved'[1], made', copies', allowed')
    BY <1>1, <1>5, <1>6, <1>7
  <2> QED BY <1>1, <1>6, <1>9, <2>1, <2>2, FlightKept DEF Counts
<1>11. Counted'
  <2>1. saved'[2] = Unused /\ ~(worker' = "sending" /\ today')
    BY <1>1
  <2>2. Unused \in [Recipients -> 0..DailyLimit] /\ Unused \in [Recipients -> Nat]
    BY OutboxAssumption DEF Unused
  <2>3. \A r \in Recipients : Unused[r] = 0
    BY DEF Unused
  <2> HIDE DEF Unused
  <2> QED BY <1>1, <2>1, <2>2, <2>3 DEF Counted
<1> QED BY <1>8, <1>9, <1>10, <1>11 DEF OutboxInv

\* The worker finds that it cannot go on.
LEMMA WorkerStopsKeeps ==
  ASSUME OutboxInv, WorkerStops
  PROVE  OutboxInv'
BY DEF OutboxInv, WorkerStops, store, bounds, Lists, List, Honest, Counts, Scalars, Flight, InHand, Counted

-----------------------------------------------------------------------------
(* The worker's actions.                                                   *)

\* Claimed is the note in hand.
LEMMA ClaimedInHand ==
  ASSUME OutboxInv, NEW n \in Note, InHand(notes) = {n}
  PROVE  Claimed \in DOMAIN notes /\ notes[Claimed] = n
<1>1. DOMAIN notes \in SUBSET Nat
  BY NotesIn DEF OutboxInv, Lists
<1>2. PICK i \in DOMAIN notes : notes[i].state = "sending"
  BY DEF InHand
<1>3. Positions({"sending"}) \in SUBSET Nat /\ Positions({"sending"}) # {}
  BY <1>1, <1>2 DEF Positions
<1>4. Claimed \in Positions({"sending"})
  BY <1>3, FirstIsIn DEF Claimed
<1> QED BY <1>4 DEF Positions, InHand

\* A claim counts its attempt before it is made.
LEMMA ClaimKeeps ==
  ASSUME OutboxInv, Claim
  PROVE  OutboxInv'
<1> DEFINE i == FirstOf(Claimable)
           over == notes[i].attempts >= MaxAttempts \/ notes[i].recipient # recipient
           go == ~over /\ ~Full(recipient)
           n == IF over THEN [notes[i] EXCEPT !.state = "failed"]
                ELSE IF Full(recipient) THEN [notes[i] EXCEPT !.state = "quota_wait", !.due = FALSE]
                ELSE [notes[i] EXCEPT !.state = "sending", !.attempts = @ + 1]
           ns == [notes EXCEPT ![i] = n]
           q == IF go THEN [quota EXCEPT ![recipient] = @ + 1] ELSE quota
<1>1. worker = "idle" /\ Claimable # {} /\ UNCHANGED <<outcome, copies, today, sent, made, allowed, recipient>>
  BY DEF Claim, bounds
<1>2. /\ List(notes, made, copies, allowed) /\ List(saved[1], made, copies, allowed)
      /\ DOMAIN notes \in SUBSET Nat
  BY NotesIn DEF OutboxInv, Lists
<1>3. i \in DOMAIN notes /\ notes[i].state \in {"queued", "quota_wait"} /\ notes[i] \in Note
  <2>1. Claimable \in SUBSET Nat
    BY <1>2 DEF Claimable, Positions
  <2>2. i \in Claimable
    BY <1>1, <2>1, FirstIsIn
  <2> QED BY <1>2, <2>2, NotesIn DEF Claimable, Positions, ToSend
<1> HIDE DEF i
<1>4. /\ notes[i].attempts \in 0..MaxAttempts /\ notes[i].id \in Ids /\ MaxAttempts \in Nat
      /\ go => notes[i].attempts + 1 \in 0..MaxAttempts /\ notes[i].recipient = recipient
  BY <1>3, NoteFields, OutboxAssumption
<1>5. /\ n \in Note /\ n.id = notes[i].id /\ n.recipient = notes[i].recipient
      /\ ~go => n.state \in {"failed", "quota_wait"}
      /\ go => n.state = "sending"
  <2>1. CASE over
    BY <2>1, <1>3 DEF Note, States
  <2>2. CASE ~over /\ Full(recipient)
    BY <2>2, <1>3 DEF Note, States
  <2>3. CASE go
    BY <2>3, <1>3, <1>4 DEF Note, States
  <2> QED BY <2>1, <2>2, <2>3
<1>6. Honest(n, copies, allowed) /\ copies[n.id] <= allowed[n.id]
  BY <1>2, <1>3, <1>5 DEF Honest, List, Unsent
<1>7. \/ Written(ns, q) /\ worker' = IF go THEN "sending" ELSE "idle"
      \/ NotWritten(ns, q) /\ worker' = "stopped"
  <2>1. At(i, "failed") = [notes EXCEPT ![i] = [notes[i] EXCEPT !.state = "failed"]]
    BY <1>3 DEF At
  <2>2. [At(i, "quota_wait") EXCEPT ![i].due = FALSE] =
          [notes EXCEPT ![i] = [notes[i] EXCEPT !.state = "quota_wait", !.due = FALSE]]
    BY <1>3 DEF At, Note
  <2>3. [At(i, "sending") EXCEPT ![i].attempts = @ + 1] =
          [notes EXCEPT ![i] = [notes[i] EXCEPT !.state = "sending", !.attempts = @ + 1]]
    BY <1>3 DEF At, Note
  <2> QED BY <2>1, <2>2, <2>3 DEF Claim, i
<1> HIDE DEF n
<1>8. List(ns, made, copies, allowed)
  BY <1>2, <1>3, <1>5, <1>6, Replaced
<1>9. DOMAIN ns = DOMAIN notes /\ \A j \in DOMAIN ns : ns[j] = IF j = i THEN n ELSE notes[j]
  BY <1>2, <1>3, <1>5, <1>6, Replaced
<1> HIDE DEF ns
<1>10. ~failed /\ InHand(notes) = {}
  BY <1>1, <1>7 DEF Written, NotWritten, WriteSucceeds, WriteFails, OutboxInv, Flight
<1>11. InHand(ns) = IF go THEN {n} ELSE {}
  <2>1. \A j \in DOMAIN notes : notes[j].state # "sending"
    BY <1>10 DEF InHand
  <2> QED BY <1>3, <1>5, <1>9, <2>1 DEF InHand
<1>12. /\ quota \in [Recipients -> 0..DailyLimit] /\ saved[2] \in [Recipients -> 0..DailyLimit]
       /\ sent \in [Recipients -> Nat] /\ recipient \in Recipients /\ DailyLimit \in Nat
       /\ \A r \in Recipients : sent[r] <= quota[r] /\ sent[r] <= saved[2][r]
  BY OutboxAssumption DEF OutboxInv, Counted, Scalars
<1>13. /\ q \in [Recipients -> 0..DailyLimit]
       /\ \A r \in Recipients : sent[r] <= q[r]
       /\ go => sent[recipient] + 1 <= q[recipient]
  <2>1. CASE go
    <3>1. /\ quota[recipient] \in Nat /\ sent[recipient] \in Nat /\ quota[recipient] < DailyLimit
          /\ sent[recipient] <= quota[recipient]
      BY <2>1, <1>12 DEF Full
    <3>2. quota[recipient] + 1 \in 0..DailyLimit /\ sent[recipient] + 1 <= quota[recipient] + 1
      BY <3>1, <1>12
    <3>3. \A r \in Recipients : q[r] = IF r = recipient THEN quota[r] + 1 ELSE quota[r]
      BY <2>1, <1>12
    <3>4. q \in [Recipients -> 0..DailyLimit]
      BY <2>1, <3>2, <1>12
    <3>5. sent[recipient] <= quota[recipient] + 1
      BY <3>1
    <3> QED BY <3>2, <3>3, <3>4, <3>5, <1>12
  <2>2. CASE ~go
    BY <2>2, <1>12
  <2> QED BY <2>1, <2>2
<1>14. Counts'
  BY <1>1 DEF OutboxInv, Counts
<1> HIDE DEF q
<1>15. CASE NotWritten(ns, q) /\ worker' = "stopped"
  <2>1. notes' = notes /\ quota' = quota /\ failed' = TRUE /\ saved' \in {saved, <<ns, q>>}
    BY <1>15 DEF NotWritten, WriteFails
  <2>2. Lists'
    BY <2>1, <1>1, <1>2, <1>8 DEF Lists
  <2>3. Scalars' /\ Flight' /\ Counted'
    BY <2>1, <1>1, <1>10, <1>12, <1>13, <1>15 DEF OutboxInv, Scalars, Flight, Counted
  <2> QED BY <2>2, <2>3, <1>14 DEF OutboxInv
<1>16. CASE Written(ns, q) /\ worker' = IF go THEN "sending" ELSE "idle"
  <2>1. notes' = ns /\ quota' = q /\ saved' = <<ns, q>> /\ failed' = failed
    BY <1>16 DEF Written, WriteSucceeds
  <2>2. Lists'
    BY <2>1, <1>1, <1>8 DEF Lists
  <2>3. Scalars'
    BY <2>1, <1>1, <1>16 DEF OutboxInv, Scalars
  <2>4. CASE go
    <3> HIDE DEF go
    <3>1. InHand(notes') = {n} /\ worker' = "sending" /\ saved'[1] = ns /\ saved'[2] = q
      BY <1>11, <1>16, <2>1, <2>4
    <3>2. \A j \in DOMAIN ns : ns[j].id = n.id => ns[j].state = "sending"
      BY <1>8, <1>11, <2>4, HandIsOfList
    <3>3. Flight'
      BY <3>1, <3>2, <1>1, <1>5, <1>6 DEF Flight
    <3>4. n.recipient = recipient
      BY <1>4, <1>5, <2>4 DEF go
    <3>5. Counted'
      BY <3>1, <3>4, <2>1, <2>4, <1>1, <1>12, <1>13 DEF Counted
    <3> QED BY <2>2, <2>3, <3>3, <3>5, <1>14 DEF OutboxInv
  <2>5. CASE ~go
    <3> HIDE DEF go
    <3>1. InHand(notes') = {} /\ worker' = "idle" /\ saved'[2] = q
      BY <1>11, <1>16, <2>1, <2>5
    <3>2. Flight' /\ Counted'
      BY <3>1, <2>1, <1>1, <1>12, <1>13 DEF Flight, Counted
    <3> QED BY <2>2, <2>3, <3>2, <1>14 DEF OutboxInv
  <2> QED BY <2>4, <2>5
<1> QED BY <1>7, <1>15, <1>16

\* The platform takes the note in hand: the lists stay lists.
LEMMA TakenKeeps ==
  ASSUME OutboxInv, worker = "sending", Taken, NEW n \in Note, InHand(notes) = {n},
         made' = made, allowed' = allowed
  PROVE  /\ List(notes, made', copies', allowed') /\ List(saved[1], made', copies', allowed')
         /\ Counts' /\ copies'[n.id] >= 1
         /\ sent' \in [Recipients -> Nat]
         /\ \A r \in Recipients : sent'[r] <= quota[r] /\ sent'[r] <= saved[2][r]
<1>1. Claimed \in DOMAIN notes /\ notes[Claimed] = n /\ n.id \in Ids /\ n.recipient \in Recipients
  BY ClaimedInHand, NoteFields
<1>2. /\ List(notes, made, copies, allowed) /\ List(saved[1], made, copies, allowed)
      /\ copies \in [Ids -> Nat] /\ allowed \in [Ids -> Nat] /\ made \in 0..MaxNotes /\ made \in Nat
      /\ \A k \in Ids : copies[k] <= 1 + allowed[k] /\ (k > made => copies[k] = 0)
  BY OutboxAssumption DEF OutboxInv, Lists, Counts
<1>3. /\ copies' = [copies EXCEPT ![n.id] = @ + 1]
      /\ sent' = IF today THEN [sent EXCEPT ![n.recipient] = @ + 1] ELSE sent
  BY <1>1 DEF Taken
<1>4. copies[n.id] \in Nat /\ allowed[n.id] \in Nat /\ copies[n.id] <= allowed[n.id]
  BY <1>1, <1>2 DEF OutboxInv, Flight
<1>5. /\ copies' \in [Ids -> Nat]
      /\ \A k \in Ids : copies'[k] = IF k = n.id THEN copies[k] + 1 ELSE copies[k]
  BY <1>1, <1>2, <1>3, <1>4
<1>6. /\ \A k \in Ids : copies[k] \in Nat /\ copies[k] <= copies'[k] /\ allowed[k] <= allowed'[k]
      /\ allowed' \in [Ids -> Nat] /\ made' \in Nat /\ made <= made'
  BY <1>2, <1>5
<1>7. List(notes, made', copies', allowed')
  <2>1. \A j \in DOMAIN notes : notes[j].state \in Unsent => notes[j].id # n.id
    BY <1>2, HandIsOfList DEF Unsent
  <2>2. \A j \in DOMAIN notes : notes[j].id \in Ids
    BY <1>2, NotesIn, NoteFields
  <2>3. \A j \in DOMAIN notes : notes[j].state \in Unsent => copies'[notes[j].id] = copies[notes[j].id]
    BY <2>1, <2>2, <1>5
  <2> QED BY <2>3, <1>2, <1>5, <1>6, Later
<1>8. List(saved[1], made', copies', allowed')
  <2>1. \A j \in DOMAIN saved[1] : saved[1][j].state \in Unsent => saved[1][j].id # n.id
    BY DEF OutboxInv, Flight, Unsent
  <2>2. \A j \in DOMAIN saved[1] : saved[1][j].id \in Ids
    BY <1>2, NotesIn, NoteFields
  <2>3. \A j \in DOMAIN saved[1] :
          saved[1][j].state \in Unsent => copies'[saved[1][j].id] = copies[saved[1][j].id]
    BY <2>1, <2>2, <1>5
  <2> QED BY <2>3, <1>2, <1>5, <1>6, Later
<1>9. Counts' /\ copies'[n.id] >= 1
  <2>1. n.id <= made
    BY <1>1, <1>2 DEF List
  <2>2. \A k \in Ids : copies'[k] <= 1 + allowed[k] /\ (k > made => copies'[k] = 0)
    BY <2>1, <1>2, <1>4, <1>5 DEF Ids
  <2>3. copies'[n.id] >= 1
    BY <1>1, <1>4, <1>5
  <2> QED BY <2>2, <2>3, <1>2, <1>5 DEF Counts
<1>10. /\ sent' \in [Recipients -> Nat]
       /\ \A r \in Recipients : sent'[r] <= quota[r] /\ sent'[r] <= saved[2][r]
  <2>1. /\ sent \in [Recipients -> Nat]
        /\ \A r \in Recipients : sent[r] <= quota[r] /\ sent[r] <= saved[2][r]
    BY DEF OutboxInv, Counted
  <2>2. CASE today
    <3>1. /\ sent[n.recipient] + 1 <= quota[n.recipient]
          /\ sent[n.recipient] + 1 <= saved[2][n.recipient]
      BY <2>2 DEF OutboxInv, Counted
    <3>2. /\ sent' \in [Recipients -> Nat]
          /\ \A r \in Recipients : sent'[r] = IF r = n.recipient THEN sent[r] + 1 ELSE sent[r]
      BY <2>1, <2>2, <1>1, <1>3
    <3>3. \A r \in Recipients : sent'[r] <= quota[r] /\ sent'[r] <= saved[2][r]
      BY <2>1, <3>1, <3>2
    <3> QED BY <3>2, <3>3
  <2>3. CASE ~today
    BY <2>1, <2>3, <1>3
  <2> QED BY <2>2, <2>3
<1> QED BY <1>7, <1>8, <1>9, <1>10

\* The platform takes the message or not, and answers or not.
LEMMA DeliverKeeps ==
  ASSUME OutboxInv, Deliver
  PROVE  OutboxInv'
<1>1. /\ worker = "sending" /\ worker' = "answered" /\ today' = TRUE
      /\ UNCHANGED <<notes, quota, saved, failed, made, allowed, recipient>>
  BY DEF Deliver, store, bounds
<1>2. PICK n \in Note : InHand(notes) = {n}
  BY <1>1 DEF OutboxInv, Flight
<1>3. CASE Taken /\ outcome' \in {"accepted", "unknown"}
  <2>1. Lists' /\ Counts'
    BY <1>1, <1>2, <1>3, TakenKeeps DEF Lists, OutboxInv
  <2>2. Scalars'
    BY <1>1, <1>3 DEF OutboxInv, Scalars, Outcomes
  <2>3. Flight'
    <3>1. InHand(notes') = {n}
      BY <1>1, <1>2
    <3>2. copies'[n.id] >= 1
      BY <1>1, <1>2, <1>3, TakenKeeps
    <3> QED BY <3>1, <3>2, <1>1, <1>3 DEF Flight
  <2>4. Counted'
    BY <1>1, <1>2, <1>3, TakenKeeps DEF OutboxInv, Counted
  <2> QED BY <2>1, <2>2, <2>3, <2>4 DEF OutboxInv
<1>4. CASE UNCHANGED <<copies, sent>> /\ outcome' \in {"queued", "failed", "unknown"}
  <2>1. Lists' /\ Counts' /\ Scalars' /\ Counted'
    BY <1>1, <1>4 DEF OutboxInv, Lists, Counts, Scalars, Outcomes, Counted
  <2>2. Flight'
    <3>1. InHand(notes') = {n} /\ n \in InHand(notes)
      BY <1>1, <1>2
    <3> QED BY <3>1, <1>1, <1>4 DEF OutboxInv, Flight
  <2> QED BY <2>1, <2>2 DEF OutboxInv
<1> QED BY <1>3, <1>4 DEF Deliver, OutcomesOf

\* The result is recorded, or the worker stops.
LEMMA FinishKeeps ==
  ASSUME OutboxInv, Finish
  PROVE  OutboxInv'
<1> DEFINE i == Claimed
           n2 == [notes[i] EXCEPT !.state = Finished(i), !.due = FALSE]
           ns == [notes EXCEPT ![i] = n2]
<1>1. /\ worker = "answered" /\ outcome' = "unknown"
      /\ UNCHANGED <<copies, today, sent, made, allowed, recipient>>
  BY DEF Finish, bounds
<1>2. PICK n \in Note : InHand(notes) = {n}
  BY <1>1 DEF OutboxInv, Flight
<1>3. i \in DOMAIN notes /\ notes[i] = n
  BY <1>2, ClaimedInHand
<1>4. \/ Written(ns, quota) /\ worker' = "idle"
      \/ NotWritten(ns, quota) /\ worker' = "stopped"
      \/ failed /\ worker' = "stopped" /\ UNCHANGED <<store, faults>>
  <2>1. [At(i, Finished(i)) EXCEPT ![i].due = FALSE] = ns
    BY <1>3 DEF At, Note
  <2> QED BY <2>1 DEF Finish
<1>5. /\ Finished(i) \in Outcomes
      /\ Finished(i) \in {"queued", "failed"} => outcome \in {"queued", "failed"}
      /\ Finished(i) = "accepted" => outcome = "accepted"
  BY DEF Finished, Outcomes, OutboxInv, Scalars
<1>6. n2 \in Note /\ n2.id = n.id /\ n2.state = Finished(i)
  BY <1>3, <1>5 DEF Note, States, Outcomes
<1> HIDE DEF i
<1>7. Honest(n2, copies, allowed)
  <2>1. /\ outcome \in {"queued", "failed"} => copies[n.id] <= allowed[n.id]
        /\ outcome = "accepted" => copies[n.id] >= 1
    BY <1>1, <1>2 DEF OutboxInv, Flight
  <2> QED BY <2>1, <1>5, <1>6 DEF Honest, Unsent, Outcomes
<1> HIDE DEF n2
<1>8. List(notes, made, copies, allowed) /\ List(saved[1], made, copies, allowed)
  BY DEF OutboxInv, Lists
<1>9. List(ns, made, copies, allowed)
  BY <1>3, <1>6, <1>7, <1>8, Replaced
<1>10. DOMAIN ns = DOMAIN notes /\ \A j \in DOMAIN ns : ns[j] = IF j = i THEN n2 ELSE notes[j]
  BY <1>3, <1>6, <1>7, <1>8, Replaced
<1>11. InHand(ns) = {}
  <2>1. n2.state # "sending"
    BY <1>5, <1>6 DEF Outcomes
  <2>2. ASSUME NEW j \in DOMAIN notes, j # i PROVE notes[j].state # "sending"
    <3>1. notes[j] # n
      BY <1>3, <1>8, <2>2 DEF List
    <3> QED BY <3>1, <1>2 DEF InHand
  <2> QED BY <2>1, <2>2, <1>10 DEF InHand
<1> HIDE DEF ns
<1>12. Counts'
  BY <1>1 DEF OutboxInv, Counts
<1>13. CASE Written(ns, quota) /\ worker' = "idle"
  <2>1. notes' = ns /\ quota' = quota /\ saved' = <<ns, quota>> /\ failed' = failed
    BY <1>13 DEF Written, WriteSucceeds
  <2>2. Lists' /\ Scalars'
    BY <2>1, <1>1, <1>9, <1>13 DEF Lists, OutboxInv, Scalars, Outcomes
  <2>3. InHand(notes') = {}
    BY <2>1, <1>11
  <2>4. Flight' /\ Counted'
    BY <2>1, <2>3, <1>1, <1>13 DEF Flight, OutboxInv, Counted
  <2> QED BY <2>2, <2>4, <1>12 DEF OutboxInv
<1>14. CASE NotWritten(ns, quota) /\ worker' = "stopped"
  <2>1. notes' = notes /\ quota' = quota /\ failed' = TRUE /\ saved' \in {saved, <<ns, quota>>}
    BY <1>14 DEF NotWritten, WriteFails
  <2>2. Lists' /\ Scalars'
    BY <2>1, <1>1, <1>8, <1>9, <1>14 DEF Lists, OutboxInv, Scalars, Outcomes
  <2>3. Flight' /\ Counted'
    BY <2>1, <1>1, <1>14 DEF Flight, OutboxInv, Counted
  <2> QED BY <2>2, <2>3, <1>12 DEF OutboxInv
<1>15. CASE failed /\ worker' = "stopped" /\ UNCHANGED <<store, faults>>
  <2>1. UNCHANGED <<notes, quota, saved, failed>>
    BY <1>15 DEF store
  <2>2. Lists' /\ Scalars' /\ Flight' /\ Counted'
    BY <2>1, <1>1, <1>15 DEF Lists, OutboxInv, Scalars, Outcomes, Flight, Counted
  <2> QED BY <2>2, <1>12 DEF OutboxInv
<1> QED BY <1>4, <1>13, <1>14, <1>15

\* A restart goes on with the file, and calls unknown what it finds being sent.
LEMMA RestartKeeps ==
  ASSUME OutboxInv, OutboxRestart
  PROVE  OutboxInv'
<1> DEFINE ds == saved[1]
           ns == Recovered(ds)
<1>1. /\ notes' = ns /\ quota' = saved[2] /\ saved' = <<notes', quota'>> /\ failed' = FALSE
      /\ worker' = "idle" /\ recipient' \in Recipients /\ outcome' = "unknown" /\ today' = TRUE
      /\ UNCHANGED <<made, allowed>>
      /\ \/ UNCHANGED <<copies, sent>>
         \/ worker = "sending" /\ Taken
  BY DEF OutboxRestart, Reopen
<1>2. /\ List(ds, made', copies', allowed') /\ Counts'
      /\ sent' \in [Recipients -> Nat]
      /\ \A r \in Recipients : sent'[r] <= saved[2][r]
  <2>1. CASE UNCHANGED <<copies, sent>>
    BY <2>1, <1>1 DEF OutboxInv, Lists, Counts, Counted
  <2>2. CASE worker = "sending" /\ Taken
    <3>1. PICK n \in Note : InHand(notes) = {n}
      BY <2>2 DEF OutboxInv, Flight
    <3> QED BY <3>1, <2>2, <1>1, TakenKeeps
  <2> QED BY <1>1, <2>1, <2>2
<1> HIDE DEF ds
<1>3. /\ Len(ds) \in Nat /\ DOMAIN ds = 1..Len(ds) /\ \A i \in DOMAIN ds : ds[i] \in Note
  BY <1>2, NotesIn
<1>4. /\ DOMAIN ns = DOMAIN ds
      /\ \A i \in DOMAIN ds :
           /\ ns[i] \in Note /\ ns[i].id = ds[i].id
           /\ ns[i].state = IF ds[i].state = "sending" THEN "unknown" ELSE ds[i].state
  BY <1>3 DEF Recovered, Note, States
<1>5. ns \in Seq(Note) /\ Len(ns) = Len(ds)
  <2>1. ns \in [1..Len(ds) -> Note]
    BY <1>3, <1>4 DEF Recovered
  <2>2. ns \in Seq(Note)
    BY <2>1, <1>3, SeqDef
  <2> HIDE DEF ns
  <2> QED BY <2>1, <2>2, <1>3, LenProperties
<1> HIDE DEF ns
<1>6. List(ns, made', copies', allowed')
  BY <1>2, <1>4, <1>5 DEF List, Honest, Unsent
<1>7. InHand(ns) = {}
  BY <1>4 DEF InHand
<1>8. Lists'
  BY <1>1, <1>6 DEF Lists
<1>9. Scalars'
  BY <1>1 DEF Scalars, Outcomes
<1>10. Flight'
  BY <1>1, <1>7 DEF Flight
<1>11. Counted'
  BY <1>1, <1>2 DEF OutboxInv, Counted
<1> QED BY <1>2, <1>8, <1>9, <1>10, <1>11 DEF OutboxInv

-----------------------------------------------------------------------------
(* The theorems.                                                           *)

\* The invariant holds at the start.
LEMMA InitHolds == OutboxInit => OutboxInv
<1> SUFFICES ASSUME OutboxInit PROVE OutboxInv
  OBVIOUS
<1>1. notes = <<>> /\ saved[1] = <<>> /\ saved[2] = Unused /\ saved = <<notes, quota>> /\ quota = Unused
  BY DEF OutboxInit
<1>2. DOMAIN notes = {} /\ DOMAIN saved[1] = {} /\ notes \in Seq(Note) /\ Len(notes) = 0
  BY <1>1, EmptySeq
<1>3. Lists
  BY <1>1, <1>2, OutboxAssumption DEF Lists, List
<1>4. Counts
  <2>1. copies = [n \in Ids |-> 0] /\ allowed = [n \in Ids |-> 0] /\ made = 0
    BY DEF OutboxInit
  <2> QED BY <2>1, OutboxAssumption DEF Counts
<1>7. Scalars
  BY OutboxAssumption DEF OutboxInit, Scalars, Outcomes
<1>5. Flight
  BY <1>2 DEF OutboxInit, Flight, InHand
<1>6. Counted
  <2>1. Unused \in [Recipients -> 0..DailyLimit] /\ Unused \in [Recipients -> Nat]
    BY OutboxAssumption DEF Unused
  <2>2. \A r \in Recipients : Unused[r] = 0
    BY DEF Unused
  <2>3. sent = Unused /\ worker = "idle"
    BY DEF OutboxInit
  <2> HIDE DEF Unused
  <2> QED BY <1>1, <2>1, <2>2, <2>3 DEF Counted
<1> QED BY <1>3, <1>4, <1>5, <1>6, <1>7 DEF OutboxInv

\* Every step keeps it.
LEMMA StepKeeps == OutboxInv /\ [OutboxNext]_outboxVars => OutboxInv'
<1> SUFFICES ASSUME OutboxInv, [OutboxNext]_outboxVars PROVE OutboxInv'
  OBVIOUS
<1>1. CASE Enqueue
  BY <1>1, EnqueueKeeps
<1>2. CASE WorkerStep
  BY <1>2, ClaimKeeps, DeliverKeeps, FinishKeeps, WorkerStopsKeeps DEF WorkerStep
<1>3. CASE NextDay
  BY <1>3, NextDayKeeps
<1>4. CASE OutboxRestart
  BY <1>4, RestartKeeps
<1>5. ASSUME NEW i \in 1..Capacity, Due(i) \/ Read(i) \/ Retry(i) PROVE OutboxInv'
  BY <1>5, DueKeeps, ReadKeeps, RetryKeeps
<1>6. CASE UNCHANGED outboxVars
  <2>1. UNCHANGED <<notes, quota, saved, failed, worker, outcome, copies, today, sent, made, allowed,
                    recipient>>
    BY <1>6 DEF outboxVars, store, delivery, bounds
  <2> QED BY <2>1 DEF OutboxInv, Lists, Counts, Scalars, Flight, Counted
<1> QED BY <1>1, <1>2, <1>3, <1>4, <1>5, <1>6 DEF OutboxNext

\* The inductive invariant of the outbox holds in every reachable state.
THEOREM OutboxInvariant == OutboxSpec => []OutboxInv
BY InitHolds, StepKeeps, PTL DEF OutboxSpec

\* Every variable keeps its type, and the file is the state in memory unless a
\* write has failed (Store::change).
THEOREM OutboxTypeCorrect == OutboxSpec => []OutboxTypeOK
<1>1. OutboxInv => OutboxTypeOK
  BY DEF OutboxInv, Lists, List, Counts, Scalars, Counted, OutboxTypeOK
<1> QED BY <1>1, OutboxInvariant, PTL

\* The platform takes a notification no more often than the user has allowed,
\* through any number of failed writes and restarts.
THEOREM NothingSentTwice == OutboxSpec => []NoSilentDuplicate
<1>1. OutboxInv => NoSilentDuplicate
  <2> SUFFICES ASSUME OutboxInv PROVE NoSilentDuplicate
    OBVIOUS
  <2>1. /\ copies \in [Ids -> Nat] /\ allowed \in [Ids -> Nat]
        /\ \A n \in Ids : copies[n] <= 1 + allowed[n]
    BY DEF OutboxInv, Counts
  <2>2. ASSUME NEW i \in DOMAIN notes, allowed[notes[i].id] = 0
        PROVE  /\ notes[i].state = "accepted" => copies[notes[i].id] = 1
               /\ notes[i].state \in {"queued", "quota_wait", "failed"} => copies[notes[i].id] = 0
    <3>1. List(notes, made, copies, allowed)
      BY DEF OutboxInv, Lists
    <3>2. Honest(notes[i], copies, allowed) /\ notes[i].id \in Ids
      BY <3>1, NotesIn, NoteFields DEF List
    <3>3. copies[notes[i].id] \in Nat /\ copies[notes[i].id] <= 1
      BY <2>1, <2>2, <3>2
    <3> QED BY <2>2, <3>2, <3>3 DEF Honest, Unsent
  <2> QED BY <2>1, <2>2 DEF NoSilentDuplicate
<1> QED BY <1>1, OutboxInvariant, PTL

\* The daily quota holds, through any number of failed writes and restarts.
THEOREM QuotaHolds == OutboxSpec => []QuotaKept
<1>1. OutboxInv => QuotaKept
  <2> SUFFICES ASSUME OutboxInv, NEW r \in Recipients PROVE sent[r] <= DailyLimit
    BY DEF QuotaKept
  <2>1. sent[r] \in Nat /\ quota[r] \in 0..DailyLimit /\ sent[r] <= quota[r] /\ DailyLimit \in Nat
    BY OutboxAssumption DEF OutboxInv, Counted
  <2> QED BY <2>1
<1> QED BY <1>1, OutboxInvariant, PTL
=============================================================================

----------------------------- MODULE ClientSync -----------------------------
(***************************************************************************)
(* The client channel: a store that persists every change before it is     *)
(* visible, an event stream per connection that replays from a cursor, a   *)
(* ledger that accepts each command once, and the Harmony client, which    *)
(* fetches a snapshot whenever a frame of its stream arrives.              *)
(*                                                                         *)
(* The store's mutex is held for a whole handler, so a handler is one      *)
(* action; what happens between handlers (the socket, the runtime, other   *)
(* clients, a failing disk, a restart of the process) are actions.         *)
(***************************************************************************)
EXTENDS Store, Naturals, Sequences, FiniteSets, Functions, SequencesExt

CONSTANTS
  Clients,     \* client devices of one user that follow one session
  Commands,    \* command ids
  Requests,    \* approval requests (a question is claimed the same way)
  Kind,        \* [Commands -> {"text", "stop"} \cup Requests]
  Retention,   \* EVENT_RETENTION
  MaxEvents,   \* bound: events ever logged
  MaxDrops     \* bound: connections and fetches that fail on the way

ASSUME ClientSyncAssumption ==
  /\ Kind \in [Commands -> {"text", "stop"} \cup Requests]
  /\ {"text", "stop"} \cap Requests = {}
  /\ Retention \in Nat \ {0} /\ MaxEvents \in Nat /\ MaxDrops \in Nat

VARIABLES
  state,     \* Store::state
  disk,      \* the state file
  accepting, \* the runtime still holds the receiver of the input channel
  input,     \* commands in the input channel
  stream,    \* stream_events of each client
  told,      \* history: the log as the frames of a client's stream tell it
  fetch,     \* the client's refresh(), with the snapshot's cursor while the
             \* response is on its way
  again,     \* refreshAgain
  shown,     \* cursor of the snapshot each client shows
  reached,   \* history: how often a command was taken out of the channel
  lost,      \* history: clients whose last refresh failed
  presented, \* requests the runtime has asked
  born,      \* history: events made, persisted or not
  drops      \* bound

storage == <<state, disk, failed, born, faults>>
runtime == <<accepting, input, reached, presented>>
clients == <<stream, told, fetch, again, shown, lost, drops>>
vars == <<storage, runtime, clients, crashes>>

Status == {"queued", "processed", "runtime_unavailable", "unknown_after_restart"}

\* The log keeps what retention has dropped; only the events from First on
\* are served.  An entry identifies the event.
State == [log : Seq(1..MaxEvents + MaxFaults),
          commands : UNION {[S -> Status] : S \in SUBSET Commands},
          approvals : UNION {[S -> BOOLEAN] : S \in SUBSET Requests}]
First(s) == IF Len(s.log) > Retention THEN Len(s.log) - Retention + 1 ELSE 1

Fresh == [log |-> <<>>, commands |-> [k \in {} |-> ""], approvals |-> [r \in {} |-> TRUE]]
NoFetch == [at |-> "idle", cursor |-> 0]
Off == [at |-> "off", cursor |-> 0, woken |-> FALSE]

Init ==
  /\ state = Fresh /\ disk = Fresh /\ failed = FALSE /\ born = 0 /\ faults = 0
  /\ accepting = TRUE /\ input = {} /\ reached = [k \in Commands |-> 0] /\ presented = {}
  /\ stream = [c \in Clients |-> Off] /\ told = [c \in Clients |-> <<>>]
  /\ fetch = [c \in Clients |-> NoFetch] /\ again = {}
  /\ shown = [c \in Clients |-> 0] /\ lost = {} /\ drops = 0 /\ crashes = 0

-----------------------------------------------------------------------------
(* The store.                                                              *)

\* append_event: the next number, and what the kind does to the session.
Appended(s) == [s EXCEPT !.log = Append(@, born + 1)]

With(f, x, v) == [y \in DOMAIN f \cup {x} |-> IF y = x THEN v ELSE f[y]]

\* Store::change when the file is written.
Persisted(next) ==
  /\ WriteSucceeds
  /\ state' = next /\ disk' = next

\* Store::change when it is not: the rename may have happened all the same.
NotPersisted(old, next) ==
  /\ WriteFails
  /\ state' = old /\ disk' \in {old, next}

\* Client::wake
Wake == stream' = [c \in Clients |-> [stream[c] EXCEPT !.woken = TRUE]]

-----------------------------------------------------------------------------
(* Client::record: an event of the runtime for the session.                *)

Record(next) ==
  /\ Len(state.log) < MaxEvents
  /\ born' = born + 1
  /\ \/ Persisted(next) /\ Wake
     \/ NotPersisted(state, next) /\ UNCHANGED stream
  /\ UNCHANGED <<told, fetch, again, shown, lost, drops, crashes>>

RecordEvent ==
  /\ Record(Appended(state))
  /\ UNCHANGED runtime

\* approval_required; frontend_output presents a request once
RecordRequest(r) ==
  /\ r \notin presented
  /\ presented' = presented \cup {r}
  /\ Record([Appended(state) EXCEPT !.approvals = With(@, r, FALSE)])
  /\ UNCHANGED <<accepting, input, reached>>

\* approval_result: decided here or on another channel
RecordDecision(r) ==
  /\ r \in DOMAIN state.approvals
  /\ Record([Appended(state) EXCEPT !.approvals = Restrict(@, DOMAIN @ \ {r})])
  /\ UNCHANGED runtime

\* command_result, for the commands that carry their id to the runtime
RecordResult(k) ==
  /\ accepting /\ Kind[k] = "stop" /\ reached[k] > 0
  /\ k \in DOMAIN state.commands /\ state.commands[k] = "queued"
  /\ Record([Appended(state) EXCEPT !.commands[k] = "processed"])
  /\ UNCHANGED runtime

-----------------------------------------------------------------------------
(* The command handler, under the store's lock.                            *)

\* Mutant: a claimed request may be answered.
AcceptableClaimed(k) == Kind[k] \in Requests => Kind[k] \in DOMAIN state.approvals

\* accept_text, accept_command and accept_interaction, accept_approval
Acceptable(k) ==
  Kind[k] \in Requests => /\ Kind[k] \in DOMAIN state.approvals
                          /\ ~state.approvals[Kind[k]]

Logs(k) == Kind[k] # "stop"

Accepted(k) ==
  LET ledger == [state EXCEPT !.commands = With(@, k, "queued")]
      claimed == IF Kind[k] \in Requests
                   THEN [ledger EXCEPT !.approvals[Kind[k]] = TRUE] ELSE ledger
  IN IF Logs(k) THEN Appended(claimed) ELSE claimed
Rejected(s, k) == [s EXCEPT !.commands[k] = "runtime_unavailable"]

\* A client sends the command, for the first time or because it has seen no
\* answer.  A known id changes nothing.
Command(k) ==
  /\ k \notin DOMAIN state.commands /\ Acceptable(k)
  /\ Logs(k) => Len(state.log) < MaxEvents
  /\ born' = IF Logs(k) THEN born + 1 ELSE born
  /\ \/ NotPersisted(state, Accepted(k)) /\ UNCHANGED <<input, stream>>
     \/ /\ accepting /\ Persisted(Accepted(k))
        /\ input' = input \cup {k} /\ Wake
     \/ \* try_send fails: reject_command, and no wake
        /\ ~accepting /\ UNCHANGED <<input, stream>>
        /\ \/ Persisted(Rejected(Accepted(k), k))
           \/ NotPersisted(Accepted(k), Rejected(Accepted(k), k))
  /\ UNCHANGED <<accepting, reached, presented, told, fetch, again, shown, lost, drops, crashes>>

\* input_drain hands the command to the runtime.
Take(k) ==
  /\ accepting /\ k \in input
  /\ input' = input \ {k}
  /\ reached' = [reached EXCEPT ![k] = @ + 1]
  /\ UNCHANGED <<storage, accepting, presented, clients, crashes>>

\* The runtime ends before the server does.
RuntimeEnds ==
  /\ accepting
  /\ accepting' = FALSE /\ input' = {}
  /\ UNCHANGED <<storage, reached, presented, clients, crashes>>

\* Mutant: the ledger is cleared with the requests.
ReopenedBlank(s) == [Fresh EXCEPT !.log = s.log]

\* The process ends and starts again: Store::open.
Reopened(s) ==
  [log |-> s.log, approvals |-> Fresh.approvals,
   commands |-> [k \in DOMAIN s.commands |->
                   IF s.commands[k] = "queued" THEN "unknown_after_restart" ELSE s.commands[k]]]

Restart ==
  /\ Reopen
  /\ state' = Reopened(disk) /\ disk' = Reopened(disk)
  /\ accepting' = TRUE /\ input' = {}
  /\ stream' = [c \in Clients |-> Off]
  /\ UNCHANGED <<born, faults, reached, presented, told, fetch, again, shown, lost, drops>>

-----------------------------------------------------------------------------
(* stream_events, and the client that follows it.                          *)

\* Index.ets connect(): the snapshot is shown, its cursor kept for subscribe().
Connect(c) ==
  /\ stream[c].at = "off" /\ ~failed
  /\ stream' = [stream EXCEPT ![c] = [at |-> "connecting", cursor |-> Len(state.log),
                                           woken |-> FALSE]]
  /\ shown' = [shown EXCEPT ![c] = Len(state.log)]
  /\ told' = [told EXCEPT ![c] = state.log]
  /\ UNCHANGED <<storage, runtime, fetch, again, lost, drops, crashes>>

\* The stream subscribes to changes before it reads.
Subscribe(c) ==
  /\ stream[c].at = "connecting"
  /\ stream' = [stream EXCEPT ![c] = [at |-> "read", cursor |-> @.cursor, woken |-> FALSE]]
  /\ UNCHANGED <<storage, runtime, told, fetch, again, shown, lost, drops, crashes>>

\* Mutant: a cursor that retention has overtaken is served.
ResyncAhead(s, after) == after > Len(s.log)

\* Store::events
Resync(s, after) == after > Len(s.log) \/ after < First(s) - 1

ReadEvents(c) ==
  /\ stream[c].at = "read" /\ ~failed /\ ~Resync(state, stream[c].cursor)
  /\ stream' = [stream EXCEPT ![c] = [at |-> "send", cursor |-> Len(state.log),
                                           woken |-> @.woken]]
  /\ told' = [told EXCEPT ![c] = @ \o SubSeq(state.log, Max({First(state), stream[c].cursor + 1}),
                                             Len(state.log))]
  /\ UNCHANGED <<storage, runtime, fetch, again, shown, lost, drops, crashes>>

\* snapshot_required or storage_unavailable: the client connects again.
ReadFails(c) ==
  /\ stream[c].at = "read" /\ (failed \/ Resync(state, stream[c].cursor))
  /\ stream' = [stream EXCEPT ![c] = Off]
  /\ UNCHANGED <<storage, runtime, told, fetch, again, shown, lost, drops, crashes>>

\* Mutant: a frame that arrives during a refresh is forgotten.
SendForgotten(c) ==
  /\ stream[c].at = "send"
  /\ stream' = [stream EXCEPT ![c].at = "wait"]
  /\ fetch' = IF fetch[c].at = "idle" THEN [fetch EXCEPT ![c].at = "asked"] ELSE fetch
  /\ UNCHANGED <<storage, runtime, told, again, shown, lost, drops, crashes>>

\* The frame arrives: refresh(), or once more when one is running.
Send(c) ==
  /\ stream[c].at = "send"
  /\ stream' = [stream EXCEPT ![c].at = "wait"]
  /\ IF fetch[c].at = "idle"
       THEN fetch' = [fetch EXCEPT ![c].at = "asked"] /\ UNCHANGED again
       ELSE again' = again \cup {c} /\ UNCHANGED fetch
  /\ UNCHANGED <<storage, runtime, told, shown, lost, drops, crashes>>

\* changed(), or 30 seconds without a change
Waken(c) ==
  /\ stream[c].at = "wait" /\ stream[c].woken
  /\ stream' = [stream EXCEPT ![c] = [at |-> "read", cursor |-> @.cursor, woken |-> FALSE]]
  /\ UNCHANGED <<storage, runtime, told, fetch, again, shown, lost, drops, crashes>>
Tick(c) ==
  /\ stream[c].at = "wait" /\ ~stream[c].woken
  /\ stream' = [stream EXCEPT ![c].at = "read"]
  /\ UNCHANGED <<storage, runtime, told, fetch, again, shown, lost, drops, crashes>>

\* The socket closes, or a frame is not sent within 10 seconds.
Drop(c) ==
  /\ stream[c].at # "off" /\ drops < MaxDrops
  /\ drops' = drops + 1
  /\ stream' = [stream EXCEPT ![c] = Off]
  /\ UNCHANGED <<storage, runtime, told, fetch, again, shown, lost, crashes>>

\* The server answers the GET of refresh().
Serve(c) ==
  /\ fetch[c].at = "asked" /\ ~failed
  /\ fetch' = [fetch EXCEPT ![c] = [at |-> "answered", cursor |-> Len(state.log)]]
  /\ UNCHANGED <<storage, runtime, stream, told, again, shown, lost, drops, crashes>>

\* The response is applied; do ... while (refreshAgain).
Apply(c) ==
  /\ fetch[c].at = "answered"
  /\ shown' = [shown EXCEPT ![c] = fetch[c].cursor]
  /\ fetch' = [fetch EXCEPT ![c] = [NoFetch EXCEPT !.at = IF c \in again THEN "asked" ELSE "idle"]]
  /\ again' = again \ {c} /\ lost' = lost \ {c}
  /\ UNCHANGED <<storage, runtime, stream, told, drops, crashes>>

\* The GET fails: the loop ends, and a refreshAgain is forgotten.
FetchFails(c) ==
  /\ fetch[c].at # "idle"
  /\ \/ fetch[c].at = "asked" /\ failed /\ UNCHANGED drops
     \/ drops < MaxDrops /\ drops' = drops + 1
  /\ fetch' = [fetch EXCEPT ![c] = NoFetch]
  /\ again' = again \ {c} /\ lost' = lost \cup {c}
  /\ UNCHANGED <<storage, runtime, stream, told, shown, crashes>>

-----------------------------------------------------------------------------
StreamStep(c) == Subscribe(c) \/ ReadEvents(c) \/ ReadFails(c) \/ Send(c) \/ Waken(c) \/ Tick(c)
ClientStep(c) == Connect(c) \/ Serve(c) \/ Apply(c)

Next ==
  \/ RecordEvent
  \/ \E r \in Requests : RecordRequest(r) \/ RecordDecision(r)
  \/ \E k \in Commands : RecordResult(k) \/ Command(k) \/ Take(k)
  \/ RuntimeEnds \/ Restart
  \/ \E c \in Clients : StreamStep(c) \/ ClientStep(c) \/ Drop(c) \/ FetchFails(c)

Spec == Init /\ [][Next]_vars

-----------------------------------------------------------------------------
(* Properties.                                                             *)

\* Every variable keeps its type, and the file is the state in memory unless a
\* write failed.
TypeOK ==
  /\ state \in State /\ disk \in State /\ failed \in BOOLEAN
  /\ ~failed => disk = state
  /\ accepting \in BOOLEAN /\ input \subseteq Commands /\ reached \in [Commands -> Nat]
  /\ stream \in [Clients -> [at : {"off", "connecting", "read", "send", "wait"},
                             cursor : 0..MaxEvents, woken : BOOLEAN]]
  /\ told \in [Clients -> Seq(1..MaxEvents + MaxFaults)]
  /\ fetch \in [Clients -> [at : {"idle", "asked", "answered"}, cursor : 0..MaxEvents]]
  /\ again \subseteq Clients /\ lost \subseteq Clients
  /\ shown \in [Clients -> 0..MaxEvents]
  /\ presented \subseteq Requests
  /\ born \in 0..MaxEvents + MaxFaults /\ faults \in 0..MaxFaults
  /\ crashes \in 0..MaxCrashes /\ drops \in 0..MaxDrops

\* What the frames of a stream add up to is the durable log up to the stream's
\* cursor: no event is skipped behind the retention, repeated, or told before
\* it is durable and then numbered anew after a restart.
ToldIsDurable ==
  \A c \in Clients : /\ IsPrefix(told[c], disk.log)
                     /\ stream[c].at # "off" => Len(told[c]) = stream[c].cursor

\* A client that has nothing on its way shows the latest state: no change
\* falls between the snapshot, the subscription and the frames, or between a
\* refresh and the one that is asked for meanwhile.
QuietClientIsCurrent ==
  \A c \in Clients :
     (/\ accepting /\ ~failed /\ stream[c].at = "wait" /\ ~stream[c].woken
      /\ fetch[c].at = "idle" /\ c \notin lost) => shown[c] = Len(state.log)

\* A command reaches the runtime at most once however often it is sent and
\* whatever fails between; a durable receipt precedes it, and a command whose
\* receipt says runtime_unavailable was never delivered.
CommandOnce ==
  \A k \in Commands :
     /\ reached[k] + (IF k \in input THEN 1 ELSE 0) <= 1
     /\ (k \in input \/ reached[k] > 0) =>
          k \in DOMAIN disk.commands /\ disk.commands[k] # "runtime_unavailable"
     /\ k \in DOMAIN state.commands /\ state.commands[k] = "processed" => reached[k] = 1

\* Of the commands that answer one request, one reaches the runtime.
OneAnswer ==
  \A r \in Requests :
     Cardinality({k \in Commands : Kind[k] = r /\ (k \in input \/ reached[k] > 0)}) <= 1
=============================================================================

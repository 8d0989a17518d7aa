------------------------------- MODULE Store -------------------------------
(***************************************************************************)
(* How the store of the client channel writes: a change counts only when   *)
(* the file was written, after a failed write the store refuses every      *)
(* further change, and opening the file again makes it work.  What is      *)
(* stored is modelled by the modules that extend this one: the log and the *)
(* ledger (ClientSync) and the notifications (Outbox).                     *)
(***************************************************************************)
EXTENDS Naturals

CONSTANTS
  MaxFaults,   \* bound: persist calls that fail
  MaxCrashes   \* bound: restarts of the process

ASSUME StoreAssumption == MaxFaults \in Nat /\ MaxCrashes \in Nat

VARIABLES
  failed,          \* Store::failed
  faults, crashes  \* bounds

\* Store::change, written.
WriteSucceeds == ~failed /\ UNCHANGED <<failed, faults>>

\* Store::change, not written, or nobody knows.
WriteFails ==
  /\ ~failed /\ faults < MaxFaults
  /\ failed' = TRUE /\ faults' = faults + 1

\* Store::open, after the process has ended.
Reopen == crashes < MaxCrashes /\ crashes' = crashes + 1 /\ failed' = FALSE
=============================================================================

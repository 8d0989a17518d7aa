--------------------------- MODULE MCSessionOutput ---------------------------
(* SessionOutput on two sessions. *)
EXTENDS SessionOutput, TLC

PlatformAndTui == (1 :> "platform") @@ (2 :> "tui")
TwoAndOne == (1 :> 2) @@ (2 :> 1)
=============================================================================

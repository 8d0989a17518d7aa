----------------------------- MODULE MCRunLoop -----------------------------
(* RunLoop on three producers: two mail senders and an input sender. *)
EXTENDS RunLoop, TLC

CONSTANTS m1, m2, i1

MailKinds == (m1 :> "mail") @@ (m2 :> "mail") @@ (i1 :> "input")
=============================================================================

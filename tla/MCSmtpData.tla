----------------------------- MODULE MCSmtpData -----------------------------
(***************************************************************************)
(* Instances of SmtpData for TLC.                                          *)
(***************************************************************************)
EXTENDS SmtpData

CONSTANTS m1, m2, r1, r2

MCMails == {m1, m2}
MCRecipients == {r1, r2}

AllConfigs == Working \cup {"empty", "broken"}
=============================================================================

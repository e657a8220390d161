---------------------------- MODULE MCAdminAccount ----------------------------
(***************************************************************************)
(* Instances of AdminAccount for TLC.                                      *)
(***************************************************************************)
EXTENDS AdminAccount

CONSTANTS q1, q2, q3
=============================================================================

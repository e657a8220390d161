---------------------------- MODULE MCAdminLogin ----------------------------
(***************************************************************************)
(* Instances of AdminLogin for TLC.                                        *)
(***************************************************************************)
EXTENDS AdminLogin, TLC

CONSTANTS q1, q2

Symmetry == Permutations(Requests)
=============================================================================

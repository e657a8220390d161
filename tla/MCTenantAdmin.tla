---------------------------- MODULE MCTenantAdmin ----------------------------
(***************************************************************************)
(* Instances of TenantAdmin for TLC.                                       *)
(***************************************************************************)
EXTENDS TenantAdmin, TLC

CONSTANTS o1, o2, s1, s2, q1, q2

Symmetry ==
    Permutations(Owners) \cup Permutations(Settings) \cup Permutations(Requests)
=============================================================================

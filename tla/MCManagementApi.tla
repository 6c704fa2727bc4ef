-------------------------- MODULE MCManagementApi --------------------------
(* Instances of ManagementApi for TLC. *)
EXTENDS ManagementApi, TLC

MCSymmetry == Permutations(Admins) \cup Permutations(Names)
=============================================================================

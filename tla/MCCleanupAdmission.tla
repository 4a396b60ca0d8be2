------------------------- MODULE MCCleanupAdmission -------------------------
(* Small instances of CleanupAdmission for TLC. *)
EXTENDS CleanupAdmission, TLC

ClientSymmetry == Permutations(Clients)
=============================================================================

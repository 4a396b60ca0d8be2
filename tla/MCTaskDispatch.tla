--------------------------- MODULE MCTaskDispatch ---------------------------
(* Small instances of TaskDispatch for TLC. *)
EXTENDS TaskDispatch, TLC

CONSTANTS t1, t2

Alone == t1 :> {}
Chain == t1 :> {} @@ t2 :> {t1}

ThreadSymmetry == Permutations(Threads)
=============================================================================

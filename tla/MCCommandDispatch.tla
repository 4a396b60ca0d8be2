-------------------------- MODULE MCCommandDispatch --------------------------
(* Instances of CommandDispatch. *)
EXTENDS CommandDispatch
=============================================================================

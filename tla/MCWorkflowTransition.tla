----------------------- MODULE MCWorkflowTransition -----------------------
(* Small instances of WorkflowTransition.  All runners share one owner_id, *)
(* as the threads of one Hub process do.                                   *)
EXTENDS WorkflowTransition, TLC

MCOwnerOf == [r \in Runners |-> CHOOSE o \in Owners : TRUE]

RunnerSymmetry == Permutations(Runners)
=============================================================================

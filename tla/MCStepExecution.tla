--------------------------- MODULE MCStepExecution ---------------------------
(* Instances of StepExecution: two threads of one worker process, or of two. *)
EXTENDS StepExecution, TLC

OneProcess == [w \in Threads |-> CHOOSE p \in Processes : TRUE]

OwnProcess ==
    CHOOSE f \in [Threads -> Processes] : \A v, w \in Threads : v # w => f[v] # f[w]

ThreadSymmetry == Permutations(Threads)
=============================================================================

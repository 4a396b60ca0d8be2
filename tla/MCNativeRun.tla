----------------------------- MODULE MCNativeRun -----------------------------
(* Instances of NativeRun: small plans and what their workers report. *)
EXTENDS NativeRun

AllMatch(edges) == [e \in edges |-> {"match"}]

NoGates == [n \in Nodes |-> "none"]

OneAttempt == [n \in Nodes |-> 1]

TwoAttempts == [n \in Nodes |-> 2]

Reports(outcomes) == [n \in Nodes |-> outcomes]

(* A checkpoint node, an approved and a conditional task behind it, and the
   merge of their results. *)
JoinEdges == {<<1, 2>>, <<1, 3>>, <<2, 4>>, <<3, 4>>}
JoinVerdicts == [e \in JoinEdges |-> IF e = <<1, 3>> THEN Verdict ELSE {"match"}]
JoinKind == <<"checkpoint", "task", "task", "merge">>
JoinGates == <<"none", "approval", "resume", "none">>

(* A checkpoint node and two tasks in a row. *)
RouteEdges == {<<1, 2>>, <<2, 3>>}
RouteKind == <<"checkpoint", "task", "task">>
RouteAlways == AllMatch(RouteEdges)

(* Two tasks that do not depend on each other, the first one gated or not. *)
NoEdges == {}
NoVerdicts == [e \in {} |-> {}]
Tasks == [n \in Nodes |-> "task"]
FirstGated == [n \in Nodes |-> IF n = 1 THEN "approval" ELSE "none"]

AllOutcomes == Reports(Outcome)
OkOrFailed == Reports({"completed", "failed"})
OnlyOk == Reports({"completed"})

HubSymmetry == Permutations(Hubs)
=============================================================================

--------------------------- MODULE MCProviderCalls ---------------------------
(* Instances of ProviderCalls for TLC.                                     *)
EXTENDS ProviderCalls, TLC

OnePerCall == [tokens |-> 2, cost |-> 1]
TwoThenOne == <<2, 1>>
TightRun == [n \in Nodes |-> [tokens |-> 6, cost |-> 3]]
RoomyRun == [n \in Nodes |-> [tokens |-> 0, cost |-> 0]]
NodeShare == [n \in Nodes |-> [tokens |-> 6, cost |-> 0]]
NodeSymmetry == Permutations(Nodes)
=============================================================================

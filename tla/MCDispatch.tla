----------------------------- MODULE MCDispatch -----------------------------
(* The job protocol on small instances without labels. *)
EXTENDS Dispatch, TLC

NoLabels == [i \in Id |-> {}]
NoAgentLabels == [a \in Agent |-> {}]
Symmetry == Permutations(Agent) \cup Permutations(Worker)
=============================================================================

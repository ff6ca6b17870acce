---------------------------- MODULE MCRepoSecrets ---------------------------
(* Finite instances of RepoSecrets. *)
EXTENDS RepoSecrets, TLC

CONSTANTS lower, mixed

\* One repository and two spellings of its name.
LowerCase == [n \in Name |-> lower]

Symmetry == Permutations(Form) \cup Permutations(Value) \cup Permutations(Build)
=============================================================================

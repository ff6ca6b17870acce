------------------------------ MODULE MCRunner ------------------------------
(* Finite instances of Runner. *)
EXTENDS Runner, TLC

Symmetry == Permutations(Goroutine)
=============================================================================

------------------------- MODULE MCPreviewRequests -------------------------
(* PreviewRequests for TLC: nothing depends on which commit is which. *)
EXTENDS PreviewRequests, TLC

Symmetry == Permutations(Sha) \cup Permutations(Id)
=============================================================================

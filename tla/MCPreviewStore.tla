--------------------------- MODULE MCPreviewStore ---------------------------
(* Two previews of one repository, two commits, two agents. *)
EXTENDS PreviewStore, TLC

Symmetry == Permutations(Sha) \cup Permutations(Agent) \cup Permutations(Id)
=============================================================================

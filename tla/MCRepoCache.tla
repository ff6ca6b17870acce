----------------------------- MODULE MCRepoCache ----------------------------
(* Finite instances of RepoCache. *)
EXTENDS RepoCache, TLC

CONSTANTS u1, u2, d1, d2

\* All previews are of one repository.
OneUrl == [p \in Preview |-> u1]
\* The last preview is of another one.
TwoUrls == LET other == CHOOSE p \in Preview : TRUE IN
           [p \in Preview |-> IF p = other THEN u2 ELSE u1]

\* A directory for each, and RepoSlug where it maps both to one:
\* .../a_b/c.git and .../a/b_c, or .../o/r.git and .../o/r.
OwnDir == [u \in Url |-> IF u = u1 THEN d1 ELSE d2]
SameSlug == [u \in Url |-> d1]

Symmetry == Permutations(Preview) \cup Permutations(Commit)
=============================================================================

----------------------------- MODULE MCApiKeys -----------------------------
(* Two requests at a time, and secrets for two keys and a rotation, or for *)
(* three keys where two are allowed.                                       *)
EXTENDS ApiKeys, TLC

CONSTANTS p, q, s1, s2, s3

MCRequests == {p, q}
MCSecrets == {s1, s2, s3}
MCLifetimes == {1}
MCGraces == {0, 3}
MCSymmetry == Permutations(MCSecrets) \cup Permutations(MCRequests)

=============================================================================

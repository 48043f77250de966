--------------------------- MODULE MCAccessGrants ---------------------------
EXTENDS AccessGrants, TLC

CONSTANT w1

OneWorkspace == <<w1>>

Symmetry == Permutations(Requests)
=============================================================================

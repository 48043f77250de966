-------------------------- MODULE MCExternalAccess --------------------------
EXTENDS ExternalAccess, TLC

\* Requests are interchangeable, and so are the roles: only whether two tokens
\* agree matters.
Symmetry == Permutations(Requests) \cup Permutations(Roles)
=============================================================================

------------------------------- MODULE MCFacets -------------------------------
EXTENDS Facets, TLC

\* The rows, the identities and the requests are all alike.
Symmetry == Permutations(Facets) \cup Permutations(Docs) \cup
            Permutations(Identities) \cup Permutations(Requests)
==============================================================================

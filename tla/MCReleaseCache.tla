--------------------------- MODULE MCReleaseCache ---------------------------
EXTENDS ReleaseCache, TLC

CONSTANTS r1, c1, c2

Symmetry == Permutations(Requests)

\* Every release has a version of 2 bytes; r1 has another of 1, the others of 3.
MCSize == [k \in Artifacts |->
              CASE k[2] = c1 -> 2 [] k = <<r1, c2>> -> 1 [] OTHER -> 3]

\* Room for two small artifacts or one large; the same with a limit per item
\* that excludes the large one; no cache.
MCConfigs ==
    {[enabled |-> TRUE,  maxBytes |-> 3, maxItemBytes |-> 3],
     [enabled |-> TRUE,  maxBytes |-> 4, maxItemBytes |-> 2],
     [enabled |-> FALSE, maxBytes |-> 3, maxItemBytes |-> 3]}
=============================================================================

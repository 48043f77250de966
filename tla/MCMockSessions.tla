--------------------------- MODULE MCMockSessions ---------------------------
EXTENDS MockSessions, TLC

CONSTANTS s1, s2, s3, o1, o2, o3

\* Two workspaces of one actor and one of another.
MCActor == [o \in {o1, o2, o3} |-> IF o = o3 THEN "ann" ELSE "bob"]
MCOwner == [c \in {s1, s2, s3} |-> CASE c = s1 -> o1 [] c = s2 -> o2 [] c = s3 -> o3]
OneActor == [o \in {o1} |-> "bob"]
OneOwner == [c \in {s1, s2} |-> o1]

Symmetry == Permutations(Clients)
=============================================================================

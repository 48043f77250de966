------------------------- MODULE MCWorkspaceHistory -------------------------
(* Small instances of WorkspaceHistory for TLC. *)
EXTENDS WorkspaceHistory, TLC

Symmetry == Permutations(Values) \cup Permutations(Editors) \cup
            Permutations(Committers) \cup Permutations(Documents)
=============================================================================

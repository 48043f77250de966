---------------------------- MODULE MCFolderTree ----------------------------
EXTENDS FolderTree, TLC

Symmetry == Permutations(Folders) \cup Permutations(Requests)
=============================================================================

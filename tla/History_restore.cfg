CONSTANTS
    Documents = {d1, d2}
    Workspace = W
    Values = {v1}
    Gone = Gone
    Untouched = Untouched
    Editors = {e1}
    Admins = {a1}
    Committers = {c1}
    Nobody = Nobody
    Policies = {"preserve", "squash"}
    MaxSequence = 4
SYMMETRY Symmetry
SPECIFICATION Spec
 
PROPERTIES AdminLeavesClean ImplementsVersionedWorkspace

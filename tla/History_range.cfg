CONSTANTS
    Documents = {d1}
    Workspace = W
    Values = {v1, v2}
    Gone = Gone
    Untouched = Untouched
    Editors = {e1}
    Admins = {}
    Committers = {c1}
    Nobody = Nobody
    Policies = {"preserve"}
    MaxSequence = 4
SPECIFICATION Spec
INVARIANT CommitHoldsItsRange

CONSTANTS
    Documents = {d1, d2}
    Workspace = W
    Values = {v1}
    Gone = Gone
    Untouched = Untouched
    Editors = {e1, e2}
    Admins = {}
    Committers = {c1, c2}
    Nobody = Nobody
    Policies = {"preserve", "squash"}
    MaxSequence = 3
SYMMETRY Symmetry
SPECIFICATION Spec
INVARIANTS TypeOK LiveMatchesHistory HistoryIsLinear NoLostUpdate NoStrandedRevision
PROPERTIES CommittedHistorySurvives

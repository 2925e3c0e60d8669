\* Two admins and an invited user, two overlapping requests.
SPECIFICATION Spec
CONSTANTS
    r1 = r1
    r2 = r2
    a1 = a1
    a2 = a2
    u3 = u3
    Requests = {r1, r2}
    Users = {a1, a2, u3}
    Operators = {a1, a2}
    None = None
    MaxChanges = 2
    MaxTokens = 3
    Switching = TRUE
SYMMETRY Symmetry_MC
INVARIANTS
    AnAdminRemains
    RevokedStaysOut
    TemporaryIsReplaced
    TrailTellsTheState
CHECK_DEADLOCK FALSE

SPECIFICATION Spec
CONSTANTS
    a1 = a1
    a2 = a2
    d = d
    v = v
    w = w
    None = None
    Actions = {a1, a2}
    Requests <- McAll
    MaxSession = 2
    DirectorSpec = d
    MaxFaults = 1
    MaxAdmin = 1
SYMMETRY McSymmetry
CHECK_DEADLOCK FALSE
INVARIANTS
    NoTwoAlike
    NoWriteIsClean
    SurfacesAgree
PROPERTIES
    AnsweredInAgreement
    EffectsAreAuthorized

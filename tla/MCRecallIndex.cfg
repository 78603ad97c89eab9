SPECIFICATION Spec
CHECK_DEADLOCK FALSE
CONSTANTS
    Recalls = {r1}
    Notes = {n1}
    Ingests = {g1}
    Migrations = {m1}
    MaxFaults = 1
    Nil = Nil
SYMMETRY Symmetry
INVARIANTS
    VectorsSurvive
    RecallSeesRemembered

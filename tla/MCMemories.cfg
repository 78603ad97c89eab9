SPECIFICATION Spec
CONSTANTS
    c1 = c1
    c2 = c2
    s1 = s1
    b1 = b1
    b2 = b2
    Nil = Nil
    Clients = {c1, c2}
    Sessions = {s1}
    Bodies = {b1, b2}
    PassagesOf <- MCPassagesOf
    MaxEvents = 5
SYMMETRY Symm
CHECK_DEADLOCK FALSE
INVARIANTS
    OneTerminal
    MarkerAfterRetire
    CleanDoubleSubmit
PROPERTY ImplementsLifecycle

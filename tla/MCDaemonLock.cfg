SPECIFICATION Spec
CHECK_DEADLOCK FALSE
CONSTANTS
    Procs = {d1, d2, d3, d4}
    Nil = Nil
SYMMETRY Symmetry
INVARIANTS
    BindIsMutex
    SomeoneServes
    SequentialSafe

SPECIFICATION Spec
CHECK_DEADLOCK FALSE
CONSTANTS
    Workers = {w1, w2}
    Inodes = {1, 2}
    UNDO_DEPTH = 2
    LinuxRename = FALSE
    MaxProposals = 2
    MaxEvents = 3
    MaxEnv = 1
    Nil = Nil
SYMMETRY Symmetry
INVARIANTS
    OnlyLateBytesLost
    TipRecoverable
    UndoRestores
    GrantHeldInSection
    VerdictBaseReplaced

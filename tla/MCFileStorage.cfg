\* two callers in one process, whose writes take turns, and one in another.
SPECIFICATION TurnsSpec
CONSTANTS
    a = a
    b = b
    x = x
    here = here
    there = there
    S = S
    T = T
    Callers <- MCCallers
    Process <- MCProcess
    States <- MCStates
    NFiles = 6
INVARIANT
    FileTypeOK
PROPERTY
    ImplementsAtomicStore
SYMMETRY MCSymmetry
VIEW MCView

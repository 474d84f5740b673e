\* After one rotation the client refuses an honest answer.
SPECIFICATION Spec
CONSTANTS
    a = a
    b = b
    r = r
    Calls <- MCCalls
    Rotators <- MCRotators
    Window = 2
    MaxKeys = 3
    MaxTime = 2
    ActiveFor = 1
    Grace = 2
SYMMETRY MCSymmetry
INVARIANT HonestProofAccepted

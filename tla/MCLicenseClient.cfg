\* Two calls at a time, three keys, days 0 to 2 with a grace of two.
SPECIFICATION Spec
CONSTANTS
    a = a
    b = b
    r = r
    Calls <- MCCalls
    Rotators <- MCRotators
    Window = 2
    MaxKeys = 3
    MaxTime = 2
    ActiveFor = 1
    Grace = 2
SYMMETRY MCSymmetry
INVARIANTS
    RevocationOutlastsGrace
    RevokedCacheNotRevived
    CachedProofCheckable

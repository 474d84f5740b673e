\* No symmetry: it is not sound for the liveness property.
SPECIFICATION FairSpec
CONSTANTS
    c = c
    l1 = l1
    l2 = l2
    h1 = h1
    h2 = h2
    h3 = h3
    Codes <- MCCodes
    Licenses <- MCLicenses
    CodeOf <- MCCodeOf
    Max <- MCMax
    Handlers <- MCHandlers
\* Nothing is left to do when every license is revoked.
CHECK_DEADLOCK FALSE
INVARIANTS
    CirclesNeedRepeats
PROPERTIES
    ImplementsAtomicTx
    EveryTxEnds

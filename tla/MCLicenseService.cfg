\* One product with a code for one activation, another product, two installs
\* that compete for the slot, two requests at a time.
SPECIFICATION Spec
CONSTANTS
    p1 = p1
    p2 = p2
    c1 = c1
    l1 = l1
    l2 = l2
    h1 = h1
    h2 = h2
    NoLicense = NoLicense
    NoProduct = NoProduct
    Products <- MCProducts
    Codes <- MCCodes
    ProductOf <- MCProductOf
    Max <- MCMax
    Licenses <- MCLicenses
    CodeOf <- MCCodeOf
    Handlers <- MCHandlers
SYMMETRY MCSymmetry
INVARIANTS
    TypeOK
    SlotsNeverOversold
    SlotsNeverLost
    DriftBounded
    RevocationBites
    ProofBacked
    RefusalIsClean
    AnswersAreDurable
PROPERTIES
    RevokedForever

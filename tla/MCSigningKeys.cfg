\* Two rotations at a time, five keys, four days with a window of two.
SPECIFICATION KeysSpec
CONSTANTS
    r1 = r1
    r2 = r2
    Rotators <- MCRotators
    Window = 2
    MaxKeys = 5
    MaxTime = 4
SYMMETRY MCSymmetry
\* The bounds on keys and days stop the model.
CHECK_DEADLOCK FALSE
INVARIANTS
    NewestKeySigns
    WindowCoversProofs
    OneRotationIsCovered

\* One import and one issue at a time, every file of three rows.
SPECIFICATION ImportSpec
CONSTANTS
    A = A
    B = B
    Names <- MCNames
    Files <- MCFiles
INVARIANTS
    ImportComplete
    AbortNeedsConflict
    AnswerCountsNew

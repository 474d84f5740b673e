\* Two tabs, two requests at a time, two passwords, two tokens, one crash.
SPECIFICATION Spec
CONSTANTS
    t1 = t1
    t2 = t2
    q1 = q1
    q2 = q2
    seed = seed
    other = other
    Tabs <- MCTabs
    Requests <- MCRequests
    Passwords <- MCPasswords
    Seed = seed
    NoPassword = none
    NoTab = gone
    MaxTokens = 2
    MaxCrashes = 1
SYMMETRY MCSymmetry
INVARIANTS
    PasswordWasCurrent
    NothingLeftBehind
    SignedOutStaysOut

SPECIFICATION Spec
CONSTANTS
    Filters <- MCFilters
    Rows <- MCRows
    PageSize = 1
    MaxInserts = 1
    MaxSent = 2
    MaxCached = 2
INVARIANTS
    ConsoleTypeOK
    ReportedIsShown
    NextShowsRows
VIEW MCView

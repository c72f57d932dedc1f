CONSTANTS
    c1 = c1
    c2 = c2
    None = None
    MaxLeads = 2
    Agents = {c1, c2}
    Reader = reader
    Assignees = {reader}
    Amounts = {1}
    Views <- MCViews
    PageLength = 1
    MaxAsked = 1
    MaxCredits = 1
    SnapshotConflicts = TRUE
SYMMETRY Symmetry
SPECIFICATION Spec
CHECK_DEADLOCK FALSE
INVARIANTS
    TypeOK
    PagesComplete
    CopiesAgree

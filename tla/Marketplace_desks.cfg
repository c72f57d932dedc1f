CONSTANTS
    op = op
    ba = ba
    ag = ag
    b1 = b1
    p1 = p1
    c1 = c1
    c2 = c2
    None = None
    Banks = {b1}
    Users <- MCUsers
    Products = {p1}
    Contents = {c1, c2}
    Staff <- MCStaff
    CommitOnRefusal = TRUE
SPECIFICATION Spec
CHECK_DEADLOCK FALSE
SYMMETRY ContentSymmetry
INVARIANTS
    TypeOK
    LiveContentReviewed
    OnlyAdmittedBanksSell
    ListedIsOpened

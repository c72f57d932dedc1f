SPECIFICATION RollupSpec
CONSTANTS
    a1 = a1
    a2 = a2
    a3 = a3
    a4 = a4
    c1 = c1
    c2 = c2
    p1 = p1
    p2 = p2
    w1 = w1
    w2 = w2
    Apps = {a1, a2, a3, a4}
    Consents = {c1, c2}
    Profiles = {p1, p2}
    Banks = {"b1", "b2"}
    Places = {"x", "y"}
    Reasons = {"income"}
    BankOf <- MCBankOf
    ApplicantOf <- MCApplicantOf
    ConsentOf <- MCConsentOf
    ProductOf <- MCProductOf
    MonthOf <- MCMonthOf
    OwnPlaceOf <- MCOwnPlaceOf
    PlaceOf <- MCPlaceOf
    OwnerOf <- MCOwnerOf
    FieldsOf <- MCFieldsOf
    First <- MCFirst
    MinReason = 2
    None = None
    Workers = {w1, w2}
    SnapshotConflicts = TRUE
    InitFacts <- MCInitFacts
    MaxMoves = 1
    MaxDays = 2
    MaxDeaths = 1
INVARIANT ChartsExact
INVARIANT ReasonsShared
PROPERTY NeverBack
PROPERTY CatchesUp
CHECK_DEADLOCK FALSE

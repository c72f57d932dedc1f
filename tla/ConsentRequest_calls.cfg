CONSTANTS
    o1 = o1
    o2 = o2
    v1 = v1
    v2 = v2
    u1 = u1
    u2 = u2
    j1 = j1
    None = None
    OtpCalls = {o1, o2}
    Acts <- MCActs
    KindOf <- MCKindOf
    Jobs = {j1}
    Delivered = {"Approved", "Revoked"}
    CommitOnRefusal = TRUE
    SnapshotConflicts = TRUE
SPECIFICATION Spec
CHECK_DEADLOCK FALSE
INVARIANTS
    TypeOK
    AskedOnRecord
PROPERTIES
    ApprovalKept
    KeyFreed

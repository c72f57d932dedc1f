CONSTANTS
    r1 = r1
    r2 = r2
    d1 = d1
    d2 = d2
    p1 = p1
    p2 = p2
    x1 = x1
    x2 = x2
    None = None
    Requests <- MCRequests
    Phones <- MCPhones
    Refs <- MCRefs
    KindOf <- MCKinds
    PhoneOf <- MCPhoneOf
    RefOf <- MCRefOf
    SnapshotConflicts = TRUE
SPECIFICATION Spec
CHECK_DEADLOCK FALSE
INVARIANTS
    TypeOK
    OneAgentLead
    DeliveryOnRecord
PROPERTIES
    EveryRequestEnds

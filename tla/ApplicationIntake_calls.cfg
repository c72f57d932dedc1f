CONSTANTS
    r1 = r1
    r2 = r2
    r3 = r3
    l1 = l1
    farmer = farmer
    staff = staff
    o1 = o1
    None = None
    Requests <- MCRequests
    Leads = {l1}
    LeadOf <- MCLeadOf
    SnapshotConflicts = TRUE
    FileCallers = {farmer, staff}
    Farmers = {farmer}
    Documents = {1, 2}
    Officers = {o1}
    Amounts = {0, 1}
    MaxStep = 2
SPECIFICATION FileSpec
CHECK_DEADLOCK FALSE
INVARIANTS
    TypeOK
    OneApplicationPerLead
    OnRecord
PROPERTIES
    EveryCallEnds
    SubmittedTermsStand

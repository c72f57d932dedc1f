CONSTANTS
    s1 = s1
    s2 = s2
    None = None
    Leads = {l1, l2}
    Apps = {a1, a2}
    Consents = {c1}
    Profiles = {p1}
    Visits = {v1}
    Farmers = {}
    Phones = {ph1}
    Stages <- MCStages
    StageArchetype <- MCStageArchetype
    InitialStage = s1
    DeliveredStatus <- MCDelivered
    CommitOnRefusal = TRUE
SPECIFICATION Spec
SYMMETRY Symmetry
INVARIANTS
    TypeOK
    PhoneUnique
    LeadEvidence
    GrantedHasCompletedLoan
PROPERTIES
    KeepsContract
    StageFollowsStatus

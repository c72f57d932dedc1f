CONSTANTS
    s1 = s1
    s2 = s2
    None = None
    Leads = {l1}
    Apps = {a1}
    Consents = {c1, c2}
    Profiles = {p1, p2}
    Visits = {}
    Farmers = {f1}
    Phones = {ph1}
    Stages <- MCStages
    StageArchetype <- MCStageArchetype
    InitialStage = s1
    DeliveredStatus <- OnlyApproved
    CommitOnRefusal = TRUE
SPECIFICATION Spec
SYMMETRY Symmetry
INVARIANTS
    ConsentIsApplicants
PROPERTIES
    SubmittedUnderConsent

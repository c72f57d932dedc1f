CONSTANTS
    w1 = w1
    w2 = w2
    p1 = p1
    a1 = a1
    a2 = a2
    f1 = f1
    s1 = s1
    s2 = s2
    s3 = s3
    None = None
    Products = {}
    Apps = {a1}
    Farmers = {f1}
    Stages <- MCStages
    StageArchetype <- MCArchetype
    Writers = {w1}
    Fillers = {"scheduler"}
    Paths = {"workflow"}
    Overlap = FALSE
    MaxWrites = 4
    Beginnings <- NothingYet
SPECIFICATION Spec
INVARIANTS
    HooksAgree

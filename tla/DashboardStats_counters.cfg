CONSTANTS
    w1 = w1
    w2 = w2
    p1 = p1
    a1 = a1
    a2 = a2
    f1 = f1
    s1 = s1
    s2 = s2
    s3 = s3
    None = None
    Products = {p1}
    Apps = {a1, a2}
    Farmers = {f1}
    Stages <- MCTwoStages
    StageArchetype <- MCTwoArchetype
    Writers = {w1, w2}
    Fillers = {"scheduler", "reader"}
    Paths = {"workflow", "save"}
    Overlap = TRUE
    MaxWrites = 2
    Beginnings <- MCBeginnings
SPECIFICATION Spec
INVARIANTS
    TypeOK
PROPERTIES
    CountersConverge
    SavesAgree

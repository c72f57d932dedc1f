CONSTANTS
    s1 = s1
    s2 = s2
    A = A
    B = B
    C = C
    a1 = a1
    a2 = a2
    w1 = w1
    r1 = r1
    None = None
    StageIds = {s1, s2}
    Labels = {A, B, "Rejected"}
    Bare = {"In Transition", "Rejected"}
    Apps = {a1}
    Movers = {w1}
    Readers = {r1}
    CommitOnRefusal = TRUE
    SnapshotConflicts = TRUE
    MaxEdits = 2
SPECIFICATION PipelineSpec
INVARIANTS
    PipelineTypeOK
    OnlyRacesDrift
PROPERTIES
    ViewsAgree

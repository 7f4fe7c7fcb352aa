SPECIFICATION Spec
CONSTANTS
    Video = {v1, v2}
    v1 = v1
    v2 = v2
    None = None
    MaxJobs = 2
    Batch = 2
    Version = {1}
    Rewriter = {r1, r2}
    ForceVideo = {}
    Rejectable = {v1}
    Wired = {v2}
    Poison = {}
    Stuck = {}
SYMMETRY AlikeRewriters
INVARIANTS
    ExportMatchesVault
PROPERTIES
    ImplementsDigests
CHECK_DEADLOCK FALSE

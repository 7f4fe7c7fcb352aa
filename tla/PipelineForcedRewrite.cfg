SPECIFICATION Spec
CONSTANTS
    Video = {v1}
    v1 = v1
    v2 = v2
    None = None
    MaxJobs = 2
    Batch = 2
    Version = {1, 2, 3}
    Rewriter = {1}
    ForceVideo = {v1}
    Rejectable = {}
    Wired = {}
    Poison = {}
    Stuck = {}
INVARIANTS
    ForcedRunWritesNote
CHECK_DEADLOCK FALSE

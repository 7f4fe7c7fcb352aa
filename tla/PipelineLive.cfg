SPECIFICATION FairSpec
CONSTANTS
    Video = {v1, v2}
    v1 = v1
    v2 = v2
    None = None
    MaxJobs = 2
    Batch = 1
    Version = {1}
    Rewriter = {}
    ForceVideo = {}
    Rejectable = {}
    Wired = {v2}
    Poison = {}
    Stuck = {}
PROPERTIES
    EveryJobEnds
CHECK_DEADLOCK FALSE

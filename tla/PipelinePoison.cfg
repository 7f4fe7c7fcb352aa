SPECIFICATION FairSpec
CONSTANTS
    Video = {v1, v2}
    v1 = v1
    v2 = v2
    None = None
    MaxJobs = 2
    Batch = 2
    Version = {1, 2}
    Rewriter = {}
    ForceVideo = {}
    Rejectable = {}
    Wired = {}
    Poison = {v1}
    Stuck = {}
PROPERTIES
    GoodVideoUnparks
CHECK_DEADLOCK FALSE

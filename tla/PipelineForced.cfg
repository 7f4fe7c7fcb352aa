SPECIFICATION Spec
CONSTANTS
    Video = {v1, v2}
    v1 = v1
    v2 = v2
    None = None
    MaxJobs = 3
    Batch = 2
    Version = {1, 2}
    Rewriter = {}
    ForceVideo = {v1}
    Rejectable = {}
    Wired = {}
    Poison = {}
    Stuck = {}
INVARIANTS
    TypeOK
    RunnerDrainDisjoint
    CheckpointsHold
    ParkedHasLiveJob
    RunningIsCurrent
PROPERTIES
    ImplementsDigests
    WrittenAtIsForever
    TranscriptLandsOnce
    DoneJobIsPublished
    TerminalJobsStay
CHECK_DEADLOCK FALSE

SPECIFICATION Spec
CONSTANTS
    Row = {1, 2, 3, 4}
    Malformed = {3}
    PageLimit = 2
    MaxClock = 3
    Address = {1, 2, 3}
    MaxFailures = 2
    WindowS = 2
    MaxTracked = 2
    MaxNow = 4
    t1 = t1
    t2 = t2
    Unnamed = Unnamed
    NamedVideo = {1, 2}
    Topic = {t1, t2}
    Slug <- MCSlug
    Spelling <- MCSpelling
    Threshold = 1
    Lang = {"en", "en-US", "pt"}
    Primary <- MCPrimary
    Preferred <- MCPreferred
    NoLang = "none"
    Degrade = TRUE
    KeepAudio = FALSE
    Word = {"a", "b"}
    SentenceEnd = {"b"}
    CueWords <- MCCueWords
    MaxCues = 4
    Second = 2
    Starts = {1, 2, 3, 4}
    ChapterSets <- MCChapters
    ParagraphTarget = 1
    ParagraphCap = 2
    ChunkTarget = 3
INVARIANTS
    TypeOK
    SweepMissesNothing
    WaitIsEarned
    TableIsBounded
    NamesAreOwn
    TiersAreEarned
    AudioHasOwner
    TextKeepsCues
    ParagraphsFit
    ChunksFit
PROPERTIES
    RowsComeOnce
    NamesAreForever
CHECK_DEADLOCK FALSE

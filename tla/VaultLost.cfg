SPECIFICATION Spec
CONSTANTS
    v1 = v1
    v2 = v2
    l1 = l1
    l2 = l2
    w1 = w1
    w2 = w2
    p1 = p1
    None = None
    Poller = poller
    Video = {v1}
    Line = {l1}
    Writer = {w1}
    Person = {p1}
    MaxEdits = 1
    VideosOf <- MCVideosOf
    Client <- MCClient
    Note <- MCNote
    Item <- MCItem
    Owned <- MCOwned
    Seeds <- MCSeeds
PROPERTIES
    LineIsKept
CHECK_DEADLOCK FALSE

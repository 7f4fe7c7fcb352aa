SPECIFICATION FairSpec
CONSTANTS
    MaxEndpoint = 3
    Cloud <- MCCloud
    AllowCloud <- MCAllowCloud
    Retries = 1
    Cooldown = 2
    Chunks = 2
INVARIANTS
    TypeOK
    UnavailableHasExcuse
    AnsweredIsNotCooling
    PrimaryFirst
    Sovereignty
PROPERTY
    SummaryEnds

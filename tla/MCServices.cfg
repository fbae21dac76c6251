CONSTANTS
    a1 = a1
    a2 = a2
    a3 = a3
    b1 = b1
    b2 = b2
    m1 = m1
    m2 = m2
    Users = {b1, b2}
    Requests = {b1, b2}
    Emails = {"email"}
    Attempts = {a1, a2, a3}
    EmailOf <- OneEmail
    Limit = 1
    Window = 1
    Threshold = 1
    FailWindow = 1
    LockTime = 1
    MaxClock = 1
    Threads = {b1, b2}
    Turns = {a1, a2, a3}
    Depth = 1
    MaxSessions = 1
    MaxAge = 1
    MaxHour = 4
    Streams = {"stream"}
    MaxEntries = 3
    MaxRuns = 2
    Models = {m1, m2}
    DimOf <- Dimensions
    Chunks = {"c1", "c2"}
    BatchSize = 2
    Txns = {b1, b2}
    MaxVersion = 2
    MaxChanges = 2
    Calls = {"read", "write", "rewrite", "unlisted"}
    Listed = {"read", "write", "rewrite"}
    Writing = {"write", "rewrite", "unlisted"}
    MaxSteps = 3
    MaxToolCalls = 2
    MaxWrites = 1
    TokenBudget = 2
    Retries = 2
    MaxUse = 1
    MaxBatch = 2
    Articles = {a1, a2, a3}
    WikiTypes = {"child", "parent"}
    GraphTypes = {"child", "related"}
    MaxDepth = 2
    Docs = {"d1", "d2", "d3"}
    Valid = {"d1", "d2"}
    Uploads = {b1, b2}
    MaxFiles = 3
SPECIFICATION ServicesSpec
SYMMETRY Symmetry
INVARIANTS
    ServicesTypeOK
    TriesWithinLimit
    PromptHasEarlierTurns
    StreamMissesOnlyUntold
    StreamInOrder
    
    BudgetBoundsRun
    ViewsAreWhole
    ArchiveStoredWhole
PROPERTIES
    AdminsLostOnlyByRace
    SecondSetupSawFirst
    ActorOutlivesRequest
    LockEndsOnlyFromInside
    ActiveSessionSurvives
    SerialTurnKeepsSession
    ReindexLeavesNoneStale
CHECK_DEADLOCK FALSE

CONSTANTS
    a1 = a1
    a2 = a2
    a3 = a3
    b1 = b1
    b2 = b2
    m1 = m1
    m2 = m2
    Users = {b1, b2}
    Requests = {b1, b2}
    Emails = {"email"}
    Attempts = {a1}
    EmailOf <- OneEmail
    Limit = 2
    Window = 1
    Threshold = 2
    FailWindow = 1
    LockTime = 1
    MaxClock = 1
    Threads = {b1, b2}
    Turns = {b1, b2}
    Depth = 1
    MaxSessions = 1
    MaxAge = 1
    MaxHour = 2
    Streams = {b1, b2}
    MaxEntries = 1
    MaxRuns = 1
    Models = {m1, m2}
    DimOf <- Dimensions
    Chunks = {"c1"}
    BatchSize = 1
    Txns = {b1, b2}
    MaxVersion = 1
    MaxChanges = 1
    Calls = {"read", "write", "unlisted"}
    Listed = {"read", "write"}
    Writing = {"write"}
    MaxSteps = 3
    MaxToolCalls = 2
    MaxWrites = 1
    TokenBudget = 2
    Retries = 2
    MaxUse = 1
    MaxBatch = 2
    Articles = {a1, a2}
    WikiTypes = {"child", "parent"}
    GraphTypes = {"child", "related"}
    MaxDepth = 2
    Docs = {"d1", "d2"}
    Valid = {"d1", "d2"}
    Uploads = {b1, b2}
    MaxFiles = 2
SPECIFICATION ServicesFairSpec
PROPERTY
    EverythingEnds
CHECK_DEADLOCK FALSE

CONSTANTS
    j1 = j1
    j2 = j2
    d1 = d1
    d2 = d2
    Jobs = {j1, j2}
    Kind <- OneModelKind
    ImageJobs = {}
    Domains = {d1, d2}
    DomainOf <- TwoDomains
    ChatModel = chat
    VisionModel = vision
    Workers = {w1}
    IngestStages = 1
    MaxItems = 1
    StaleAfter = 1
    JobTimeout = 1
    DomainTTL = 2
    ModelTTL = 2
    MaxTries = 1
SPECIFICATION Spec
INVARIANTS
    KeyExclusion
    HolderHasKey
    CancelBeforeBeginStops
CHECK_DEADLOCK FALSE

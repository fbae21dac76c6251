CONSTANTS
    j1 = j1
    j2 = j2
    d1 = d1
    d2 = d2
    Jobs = {j1}
    Kind <- OneLint
    ImageJobs = {}
    Domains = {d1}
    DomainOf <- OneJobDomain
    ChatModel = chat
    VisionModel = vision
    Workers = {w1}
    IngestStages = 1
    MaxItems = 1
    StaleAfter = 1
    JobTimeout = 1
    DomainTTL = 2
    ModelTTL = 2
    MaxTries = 2
SPECIFICATION FairSpec
PROPERTIES
    RunningJobsEnd
CHECK_DEADLOCK FALSE

SPECIFICATION FairSpec
CONSTANTS
    Docs = {d1}
    Msgs = {m1, m2}
    NoMsg = NoMsg
    NoJob = NoJob
    ParseThreads = {p1}
    ExtractThreads = {x1}
    Healers = {h1}
    ApiSweepers = {}
    ShortDocs = {}
    MaxReceive = 1
    MaxRedrive = 0
    MaxDefer = 1
    MaxInFlight = 0
    MaxReap = 1
    MaxTasks = 1
    Crashes = FALSE
    StageErrors = TRUE
    DbErrors = TRUE
    ProviderOutages = FALSE
    LateDelivery = FALSE
    Backlog = TRUE
    Retention = TRUE
PROPERTIES EveryDocumentSettles

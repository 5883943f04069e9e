SPECIFICATION FairSpec
CONSTANTS
    Docs = {d1, d2}
    Msgs = {m1, m2, m3}
    NoMsg = NoMsg
    NoJob = NoJob
    ParseThreads = {p1}
    ExtractThreads = {x1}
    Healers = {}
    ApiSweepers = {api}
    ShortDocs = {d2}
    MaxReceive = 1
    MaxRedrive = 0
    MaxDefer = 1
    MaxInFlight = 1
    MaxReap = 1
    MaxTasks = 1
    Crashes = FALSE
    StageErrors = FALSE
    DbErrors = FALSE
    ProviderOutages = FALSE
    LateDelivery = FALSE
    Backlog = FALSE
    Retention = FALSE
PROPERTIES EveryDocumentSettles

SPECIFICATION Spec
CONSTANTS
    Docs = {d1, d2}
    Msgs = {m1, m2}
    NoMsg = NoMsg
    NoJob = NoJob
    ParseThreads = {p1}
    ExtractThreads = {x1}
    Healers = {h1, h2}
    ApiSweepers = {}
    ShortDocs = {d2}
    MaxReceive = 2
    MaxRedrive = 0
    MaxDefer = 1
    MaxInFlight = 1
    MaxReap = 2
    MaxTasks = 1
    Crashes = FALSE
    StageErrors = TRUE
    DbErrors = FALSE
    ProviderOutages = FALSE
    LateDelivery = FALSE
    Backlog = FALSE
    Retention = FALSE
SYMMETRY SlotSymmetry
PROPERTIES RescueOnce GiveUpHasReason

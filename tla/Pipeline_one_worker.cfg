SPECIFICATION Spec
CONSTANTS
    Docs = {d1}
    Msgs = {m1, m2}
    NoMsg = NoMsg
    NoJob = NoJob
    ParseThreads = {p1}
    ExtractThreads = {x1}
    Healers = {h1}
    ApiSweepers = {api}
    ShortDocs = {}
    MaxReceive = 2
    MaxRedrive = 1
    MaxDefer = 1
    MaxInFlight = 0
    MaxReap = 1
    MaxTasks = 1
    Crashes = TRUE
    StageErrors = TRUE
    DbErrors = FALSE
    ProviderOutages = FALSE
    LateDelivery = FALSE
    Backlog = TRUE
    Retention = FALSE
SYMMETRY SlotSymmetry
INVARIANTS TypeOK InProgressHasMessage
PROPERTIES FollowsLifecycle

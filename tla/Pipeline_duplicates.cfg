SPECIFICATION Spec
CONSTANTS
    Docs = {d1}
    Msgs = {m1, m2}
    NoMsg = NoMsg
    NoJob = NoJob
    ParseThreads = {p1}
    ExtractThreads = {x1, x2}
    Healers = {h1}
    ApiSweepers = {}
    ShortDocs = {}
    MaxReceive = 2
    MaxRedrive = 0
    MaxDefer = 0
    MaxInFlight = 0
    MaxReap = 1
    MaxTasks = 1
    Crashes = FALSE
    StageErrors = FALSE
    DbErrors = FALSE
    ProviderOutages = TRUE
    LateDelivery = TRUE
    Backlog = TRUE
    Retention = FALSE
SYMMETRY SlotSymmetry
INVARIANTS TextBeforeExtract NeedsReviewIsQueued

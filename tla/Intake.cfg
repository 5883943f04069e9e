SPECIFICATION FairSpec
CONSTANTS
    acme = acme
    bolt = bolt
    Tenants <- MCTenants
    NoBucket = NoBucket
    Burst = 3
    Rate = 1
    MaxClock = 1
    Requests <- MCRequests
    ApiKeys <- MCApiKeys
    NoKey = NoKey
    Threads = {w1}
    Files = {pdf, text}
    Pdfs = {pdf}
    Slugs = {"invoice", "order"}
    Folders = {"order", "misc"}
    MaxPuts = 1
    MaxNotices = 1
    MinIO = FALSE
    MaxReceive = 2
    Failures = TRUE
    None = None
CONSTRAINT Traffic
INVARIANTS DropsAreAccounted RowsWereSubmitted RepliesNameTheDocument GrantBound
PROPERTIES ReceivedIsSent
CHECK_DEADLOCK FALSE

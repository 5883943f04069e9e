\* One definition, one job, every answer a model may give.
SPECIFICATION ExperimentSpec
CONSTANTS
    d1 = d1
    g1 = g1
    g2 = g2
    g3 = g3
    t1 = t1
    s1 = s1
    s2 = s2
    s3 = s3
    s4 = s4
    s5 = s5
    x1 = x1
    x2 = x2
    x3 = x3
    x4 = x4
    y1 = y1
    y2 = y2
    acme = acme
    acmeInc = acmeInc
    ac = ac
    zeta = zeta
    widget = widget
    gadget = gadget
    eur = eur
    usd = usd
    euroSign = euroSign
    dollar = dollar
    None = None
    Tolerance = 1
    Tiers = {"small", "frontier"}
    GROUNDEDNESS_THRESHOLD = 85
    DATE_CORROBORATION_THRESHOLD = 90
    Fragmented = {ac}
    Short = {}
    Documents <- MCDocuments
    Scanned <- MCScanned
    Page <- MCPage
    Answers <- MCAnswers
    Price <- MCPrice
    MockReads <- MCMockReads
    Drawn = {g1, t1}
    Impostors = {zeta}
    Initials <- MCInitials
    Shares = {5, 50}
    Shifts = {3, 20}
    Configs <- MCConfigs
    Served = {d1}
    Corpus <- MCCorpus
    Truth <- MCTruth
    GoldenSize = 4
    Floors <- MCFloors
    Deployed <- MCDeployed
    Models <- MCModels
    Thresholds <- MCThresholds
    Target = 95
    MIN_USEFUL_RATE = 5
    COVERAGE_TOLERANCE = 10
    Shipped <- MCShipped
    Arms <- MCArms
    Distance <- MCDistance
    Probability <- MCProbability
    BaselineN = 3
    K = 2
    ZThreshold = 2
    MinStd = 1
    Unit = 100
    Floor = 95
    Window = 2
INVARIANTS NoAnswerIsLost ApprovedIsClean ApprovedIsVouchedFor GateCountsFailures ThresholdHoldsOnHeldOut
    ErrorsLeaveTheirMark TimingClaimHolds ArmsAreApart
PROPERTIES JobsAdvance

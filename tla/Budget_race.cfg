SPECIFICATION Spec
CONSTANTS
    Workers = {w1, w2}
    Cap = 2
    MaxCap = 3
    WorstCases = {1, 2}
    Costs = {0, 1, 2}
    Calls = 2
    Tries = 2
    MaxGrants = 3
    StageErrors = TRUE
    ProviderFails = TRUE
    Crashes = TRUE
SYMMETRY WorkerSymmetry
INVARIANTS OverCapOnlyByOverrun CounterCovers OvercountIsVisible
CHECK_DEADLOCK FALSE

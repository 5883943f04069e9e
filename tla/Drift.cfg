SPECIFICATION Spec
CONSTANTS
    Workers = {w1, w2}
    Shapes <- MCShapes
    BaselineN = 3
    K = 2
    Threshold = 2
    MinStd = 1
    Unit = 100
    MaxDocuments = 6
    MaxMishaps = 1
    None = None
INVARIANTS BaselineIsTheFirstDocuments DriftIsARun FlagNamesTheFirst RaceCostsOneDelivery
SYMMETRY WorkerSymmetry
CHECK_DEADLOCK FALSE

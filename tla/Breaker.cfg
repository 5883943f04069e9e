SPECIFICATION FairSpec
CONSTANTS
    None = None
    Exceptions <- MCExceptions
    Says <- MCSays
    Cause <- MCCause
    Links = 5
    RequestErrors <- MCRequestErrors
    OutageErrors <- MCOutageErrors
    Callers = {c1}
    Threshold = 5
    Attempts = 3
    Resets = TRUE
INVARIANTS WastedBounded
PROPERTIES MistakesDoNotOpen ClosesAfterOutage

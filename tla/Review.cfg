SPECIFICATION FairSpec
CONSTANTS
    Storers = {s1, s2}
    Reviewers = {r1, r2}
    Clients = {c1}
    Fields = {date, total}
    MaxReceive = 2
    None = None
INVARIANTS TypeOK ResolvedOnce CountedOnce CorrectionsAreLabelled AgreeUnlessOverlapped
PROPERTIES EveryoneFinishes
CHECK_DEADLOCK FALSE

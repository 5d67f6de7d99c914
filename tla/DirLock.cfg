CONSTANTS
    p1 = p1
    p2 = p2
    p3 = p3
    Proc <- Two
    NoProc = NoProc
    Writers = {"cautious", "trusting"}
    Stamp <- FourMtimes
    NoDir = NoDir
    TouchInterval = 1
    Stale = 2
    Refusing = {"call", "removals"}
    Gaps = FALSE
    MaxStalls = 1
    MaxCrashes = 1
SPECIFICATION Spec
INVARIANTS TypeOK Exclusive TakeoversAreReported
PROPERTY NoLostSample

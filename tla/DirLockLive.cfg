CONSTANTS
    p1 = p1
    p2 = p2
    p3 = p3
    Proc <- Two
    NoProc = NoProc
    Writers = {"trusting"}
    Stamp <- FourMtimes
    NoDir = NoDir
    TouchInterval = 1
    Stale = 2
    Refusing = {"removals"}
    Gaps = FALSE
    MaxStalls = 0
    MaxCrashes = 1
SPECIFICATION FairSpec
PROPERTIES AcquireReturns AbandonedIsReclaimed

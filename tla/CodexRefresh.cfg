CONSTANTS
    poller = poller
    r1 = r1
    r2 = r2
    Poller <- ThePoller
    Request <- OneRequest
    NoProc = NoProc
    NoToken = NoToken
    NoPair = NoPair
    NoMark = NoMark
    MaxLogins = 1
    MaxIssued = 1
    MaxFaults = 1
SPECIFICATION FairSpec
INVARIANTS TypeOK NeverReused NoNeedlessExchange MarkIsDeserved
PROPERTY WornIsReplaced
